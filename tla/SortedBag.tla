----------------------------- MODULE SortedBag -----------------------------
(***************************************************************************)
(* What btree.c promises: a collection of entries with keys.  A key may    *)
(* have several entries; deleting a key takes one of them and says which.  *)
(***************************************************************************)
EXTENDS Naturals

CONSTANTS Key, Elt

VARIABLES
    stored,     \* the pairs of a key and an entry that were inserted
    result      \* the entry the last deletion took, or 0

Init == stored = {} /\ result = 0

Insert(k, e) ==
    /\ <<k, e>> \notin stored
    /\ stored' = stored \cup {<<k, e>>}
    /\ UNCHANGED result

Delete(k) ==
    \E e \in Elt :
        /\ <<k, e>> \in stored
        /\ stored' = stored \ {<<k, e>>}
        /\ result' = e

\* Give an entry another key, for which there is none.
Rekey(k, r) ==
    \E e \in Elt :
        /\ <<k, e>> \in stored
        /\ stored' = (stored \ {<<k, e>>}) \cup {<<r, e>>}
        /\ UNCHANGED result

Next ==
    \/ \E k \in Key, e \in Elt : Insert(k, e)
    \/ \E k \in Key : Delete(k)
    \/ \E k, r \in Key : Rekey(k, r)

Spec == Init /\ [][Next]_<<stored, result>>

=============================================================================
