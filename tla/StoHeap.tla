------------------------------- MODULE StoHeap -------------------------------
(***************************************************************************)
(* What the storage manager promises its client (store.h): stoAlloc hands  *)
(* out a piece that no one else has, stoFree takes back a piece the client *)
(* names, stoResize replaces one piece by another with the same contents,  *)
(* and a collection takes back only pieces the client cannot reach.        *)
(*                                                                         *)
(* The client holds pointers in its own variables, the roots, and in the   *)
(* pieces it was given.                                                    *)
(***************************************************************************)
CONSTANT Piece

VARIABLES
    allocated,  \* pieces the client has been given and not lost
    roots,      \* pieces the client has pointers to
    refs        \* refs[p]: pieces that p holds pointers to

vars == <<allocated, roots, refs>>

Forget(p) == [q \in Piece |-> IF q = p THEN {} ELSE refs[q] \ {p}]

Init ==
    /\ allocated = {}
    /\ roots = {}
    /\ refs = [p \in Piece |-> {}]

Alloc(p) ==
    /\ p \notin allocated
    /\ allocated' = allocated \cup {p}
    /\ roots' = roots \cup {p}
    /\ UNCHANGED refs

\* The client gives p back, and uses none of its pointers to p again.
Free(p) ==
    /\ p \in roots
    /\ allocated' = allocated \ {p}
    /\ roots' = roots \ {p}
    /\ refs' = Forget(p)

\* q takes over the contents of p, or what fits of it, and p is given back.
Replace(p, q) ==
    /\ p \in roots /\ q \in roots /\ p # q
    /\ \E R \in SUBSET refs[p] :
          refs' = [Forget(p) EXCEPT ![q] = R \ {p}]
    /\ allocated' = allocated \ {p}
    /\ roots' = roots \ {p}

Write(p, R) ==
    /\ p \in roots
    /\ R \subseteq roots \cup refs[p]
    /\ refs' = [refs EXCEPT ![p] = R]
    /\ UNCHANGED <<allocated, roots>>

Load(p, q) ==
    /\ p \in roots /\ q \in refs[p]
    /\ roots' = roots \cup {q}
    /\ UNCHANGED <<allocated, refs>>

Drop(p) ==
    /\ roots' = roots \ {p}
    /\ UNCHANGED <<allocated, refs>>

\* K contains all that the client can reach.
Closed(K) == roots \subseteq K /\ \A p \in K : refs[p] \subseteq K

Collect(D) ==
    /\ \E K \in SUBSET (allocated \ D) : Closed(K)
    /\ allocated' = allocated \ D
    /\ refs' = [p \in Piece |-> IF p \in D THEN {} ELSE refs[p]]
    /\ UNCHANGED roots

Next ==
    \/ \E p \in Piece : Alloc(p) \/ Free(p) \/ Drop(p)
    \/ \E p, q \in Piece : Replace(p, q) \/ Load(p, q)
    \/ \E p \in Piece : \E R \in SUBSET Piece : Write(p, R)
    \/ \E D \in SUBSET allocated : Collect(D)

Spec == Init /\ [][Next]_vars

=============================================================================
