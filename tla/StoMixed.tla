------------------------------ MODULE StoMixed ------------------------------
(***************************************************************************)
(* Pieces of mixed sizes, store.c: sections cut into pieces with boundary  *)
(* tags, the free tree with a list of the free pieces of each size, the    *)
(* frontier, and the sweep of a section of mixed pieces.                   *)
(*                                                                         *)
(* Abstractions.  The unit of size and address is the quantum, and section *)
(* s is the quanta (s - 1) * Quanta + 1 .. s * Quanta.  The B-tree is the  *)
(* function BTree shows it to be.  What the collector marks is any set of  *)
(* pieces with all those the client can reach (StoFixed models marking).   *)
(* The free tree's own nodes come from pages: asking for one may collect,  *)
(* in the middle of a change of the heap, when NodesCollect.  A step that  *)
(* uses a piece which is not there, or that gives the tree two entries of  *)
(* one size, leads to the phase "corrupt", where the model stops.  The     *)
(* words of a piece that is no more, which nothing reads, are 0.           *)
(***************************************************************************)
EXTENDS Integers, Sequences, SequencesExt, FiniteSets

CONSTANTS
    NSections,     \* pages the page layer has, in sections
    Quanta,        \* quanta in a section
    MaxRequest,    \* bound: size of the largest piece asked for
    MaxStale,      \* bound: pieces marked that the client cannot reach
    NodesCollect   \* may asking for a node of the free tree collect

ASSUME MixedConstants ==
    /\ NSections \in Nat \ {0}
    /\ Quanta \in Nat \ {0}
    /\ MaxRequest \in 1 .. Quanta
    /\ MaxStale \in Nat
    /\ NodesCollect \in BOOLEAN

None == 0
Section == 1 .. NSections
Addr == 1 .. NSections * Quanta
SectionOf(p) == ((p - 1) \div Quanta) + 1
First(s) == (s - 1) * Quanta + 1
Kinds == {"Follow", "FreeFirst", "BusyFirst"}

VARIABLES
    heap,      \* the sections and the free pieces, see Init
    live,      \* pieces the client can reach
    mark,      \* quanta with the mark bit set
    limbo,     \* the piece mxmemLink is about to link, or None
    taken,     \* the piece pieceGetMixed has found, or None
    wanted,    \* the size asked for in the call of stoAlloc in progress
    cursor,    \* the quantum stoGcSweepMixed is at
    busyHere,  \* has it seen a piece in use in this section
    back,      \* the phase to go on with after the collection: each request
               \* of pages or of a node collects at most once
    phase

gcVars == <<mark, cursor, busyHere, back>>
vars == <<heap, live, limbo, taken, wanted, gcVars, phase>>

-----------------------------------------------------------------------------
(* Pieces.                                                                 *)

NoHeap == [
    sects    |-> {},                          \* sections of mixed pieces
    this     |-> [p \in Addr |-> 0],          \* nbytesThis of the piece at p
    prev     |-> [p \in Addr |-> 0],          \* nbytesPrev
    isFree   |-> {},                          \* pieces with isFree set
    tag      |-> [p \in Addr |-> "Follow"],   \* sect->info
    tree     |-> <<>>,                        \* size -> its list of free pieces
    frontier |-> None]                        \* mixedFrontier

Init ==
    /\ heap = NoHeap
    /\ live = {}
    /\ mark = {}
    /\ limbo = None /\ taken = None /\ wanted = 0
    /\ cursor = None
    /\ busyHere = FALSE
    /\ back = "idle"
    /\ phase = "idle"

isFirst(p) == p = First(SectionOf(p))
isLast(h, p) == p + h.this[p] > SectionOf(p) * Quanta
mxmemNext(h, p) == IF isLast(h, p) THEN None ELSE p + h.this[p]
mxmemPrev(h, p) == IF isFirst(p) THEN None ELSE p - h.prev[p]
Piece(p, n) == p .. p + n - 1

\* Mutant of SetBehind: the boundary tag is left as it was.
SetNothing(h, p, n) == h.prev

\* The boundary tag behind the piece p of size n, if there is a piece behind.
SetBehind(h, p, n) ==
    IF p + n > SectionOf(p) * Quanta THEN h.prev ELSE [h.prev EXCEPT ![p + n] = n]

mxmemMerge(h, p, q) ==
    LET n == h.this[p] + h.this[q] IN
    [h EXCEPT !.this = [h.this EXCEPT ![p] = n, ![q] = 0],
              !.prev = [SetBehind(h, p, n) EXCEPT ![q] = 0],
              !.isFree = h.isFree \ {q},
              !.tag = [h.tag EXCEPT ![q] = "Follow"]]

\* Cut p after n quanta; the rest is free if p is.
mxmemSplit(h, p, n) ==
    LET r == p + n
        m == h.this[p] - n
    IN  [h EXCEPT !.this = [h.this EXCEPT ![p] = n, ![r] = m],
                  !.prev = [SetBehind(h, r, m) EXCEPT ![r] = n],
                  !.isFree = IF p \in h.isFree THEN h.isFree \cup {r} ELSE h.isFree,
                  !.tag = [h.tag EXCEPT ![r] = "FreeFirst"]]

-----------------------------------------------------------------------------
(* The free tree.                                                          *)

Sizes(h) == DOMAIN h.tree
InTree(h, p) == \E n \in Sizes(h) : p \in ToSet(h.tree[n])
SetList(tree, n, list) == [k \in DOMAIN tree \cup {n} |-> IF k = n THEN list ELSE tree[k]]
DeleteSize(tree, n) == [k \in DOMAIN tree \ {n} |-> tree[k]]

\* The entry of the tree that has p in its list.
EntryOf(tree, p) == CHOOSE n \in DOMAIN tree : p \in ToSet(tree[n])
PlaceOf(list, p) == CHOOSE i \in DOMAIN list : list[i] = p
mxmemUnlink(tree, p) ==
    LET n == EntryOf(tree, p) IN SetList(tree, n, RemoveAt(tree[n], PlaceOf(tree[n], p)))

\* Mutant of mxmemUnlinkFromBTree: an empty list stays in the tree.
UnlinkLeavesEmpty(tree, p) == mxmemUnlink(tree, p)

mxmemUnlinkFromBTree(tree, p) ==
    LET n == EntryOf(tree, p)
    IN  IF tree[n] = <<p>> THEN DeleteSize(tree, n) ELSE mxmemUnlink(tree, p)

\* After the first piece of the list that does not come before p, or after the
\* last: the list is not quite sorted.
PlaceFor(list, p) ==
    LET later == {i \in DOMAIN list : p <= list[i]}
    IN  IF later = {} THEN Len(list) ELSE CHOOSE i \in later : \A j \in later : i <= j

\* The tree with the piece p of size n.
mxmemLink(tree, p, n) ==
    SetList(tree, n, IF n \in DOMAIN tree THEN InsertAt(tree[n], PlaceFor(tree[n], p) + 1, p)
                     ELSE <<p>>)
Linked(h, p) == [h EXCEPT !.tree = mxmemLink(h.tree, p, h.this[p])]

Freed(h, p) == [h EXCEPT !.isFree = h.isFree \cup {p}]

\* The pieces next to p that piecePutMixed merges with it.
Before(h, p) == {q \in {mxmemPrev(h, p)} \ {None} : q \in h.isFree}
Behind(h, p) == {q \in {mxmemNext(h, p)} \ {None} : q \in h.isFree}

\* Merge p with q behind it, of which the piece free is in the tree.
MergeFree(h, p, q, free) ==
    [mxmemMerge(h, p, q) EXCEPT !.tree = mxmemUnlinkFromBTree(h.tree, free)]

\* Mutant of Merged: only the piece behind is merged.
MergedBehind(h, p) ==
    LET n == mxmemNext(h, p)
    IN  [heap |-> IF Behind(h, p) = {} THEN h
                  ELSE MergeFree(h, p, n, n),
         piece |-> p]

\* Steps 1 and 2 of piecePutMixed: the heap, and the piece to link.
Merged(h, p) ==
    LET n == mxmemNext(h, p)
        h1 == IF Behind(h, p) = {} THEN h
              ELSE MergeFree(h, p, n, n)
        q == mxmemPrev(h1, p)
        h2 == IF Before(h1, p) = {} THEN h1
              ELSE MergeFree(h1, q, p, q)
    IN  [heap |-> h2, piece |-> IF Before(h1, p) = {} THEN p ELSE q]

\* A neighbour that says it is free and is in no list: mxmemUnlink follows
\* whatever links it has, and what happens next is undefined.
Broken(h, p) == \E q \in Before(h, p) \cup Behind(h, p) : ~InTree(h, q)

\* Steps 3 and 4, when there is a node for the tree at hand.
piecePutMixed(h, p) ==
    \E m \in {Merged(h, p)} : heap' = Freed(Linked(m.heap, m.piece), m.piece)

-----------------------------------------------------------------------------
(* Calls.                                                                  *)

\* The phase in which the call goes on once its piece is linked.
AfterLink == IF taken' # None THEN "give" ELSE IF wanted' # 0 THEN "pages" ELSE "idle"

\* piecePutMixed, as part of a call: the link may have to wait for a node.
Put(h0, p) ==
    \E h \in {h0} :
        IF Broken(h, p)
        THEN /\ phase' = "corrupt"
             /\ heap' = h
             /\ limbo' = None
        ELSE \/ /\ piecePutMixed(h, p)
                /\ limbo' = None
                /\ phase' = AfterLink
             \/ \E m \in {Merged(h, p)} :
                    /\ m.heap.this[m.piece] \notin Sizes(m.heap)
                    /\ heap' = m.heap
                    /\ limbo' = m.piece
                    /\ phase' = "node"

shdSplit(has, req) == has > req + 1

\* pieceGetMixed, first part: the best fit of the free tree.
TakeFromTree(n) ==
    LET fits == {k \in Sizes(heap) : k >= n}
        k == CHOOSE i \in fits : \A j \in fits : i <= j
        p == Head(heap.tree[k])
        h0 == [heap EXCEPT !.isFree = @ \ {p}, !.tree = mxmemUnlink(@, p)]
        is1 == h0.tree[k] = <<>>
        r == p + n
        h1 == Freed(mxmemSplit(h0, p, n), r)
        without == DeleteSize(h0.tree, k)
    IN  /\ fits # {}
        /\ taken' = p
        /\ wanted' = n
        /\ IF ~shdSplit(k, n)
           THEN /\ heap' = IF is1 THEN [h0 EXCEPT !.tree = without] ELSE h0
                /\ limbo' = None
                /\ phase' = "give"
           ELSE IF ~is1
           THEN Put(h1, r)
           ELSE IF \E i \in Sizes(heap) : k - n <= i /\ i < k
           THEN Put([h1 EXCEPT !.tree = without], r)
           \* Reuse the entry of the tree.
           ELSE /\ heap' = [h1 EXCEPT !.tree = SetList(without, k - n, <<r>>)]
                /\ limbo' = None
                /\ phase' = "give"

\* Mutant of FromFrontier: the frontier is cut even when nothing is left.
FrontierAlwaysCut(h, f, n) == [mxmemSplit(h, f, n) EXCEPT !.frontier = f + n]

\* Cut what is wanted from the frontier f, and leave the rest as frontier.
FromFrontier(h, f, n) ==
    IF shdSplit(h.this[f], n)
    THEN [mxmemSplit(h, f, n) EXCEPT !.frontier = f + n]
    ELSE [h EXCEPT !.frontier = None]

\* pieceGetMixed, second part: no piece of the tree is large enough.
TakeFromFrontier(n) ==
    LET f == heap.frontier IN
    /\ \A k \in Sizes(heap) : k < n
    /\ wanted' = n
    /\ IF f = None
       THEN /\ phase' = "pages"
            /\ UNCHANGED <<heap, taken, limbo>>
       ELSE IF heap.this[f] < n
       THEN /\ UNCHANGED taken
            /\ Put([heap EXCEPT !.frontier = None], f)
       ELSE /\ heap' = FromFrontier(heap, f, n)
            /\ taken' = f
            /\ phase' = "give"
            /\ UNCHANGED limbo

stoAlloc(n) ==
    /\ phase = "idle"
    /\ TakeFromTree(n) \/ TakeFromFrontier(n)
    /\ UNCHANGED <<live, gcVars>>

\* The heap with the section s, which is one piece.
WithSection(h, s) ==
    [h EXCEPT !.sects = @ \cup {s},
              !.this = [q \in Addr |-> IF SectionOf(q) # s THEN h.this[q]
                                      ELSE IF q = First(s) THEN Quanta ELSE 0],
              !.prev = [h.prev EXCEPT ![First(s)] = 0],
              !.isFree = {q \in @ : SectionOf(q) # s},
              !.tag = [q \in Addr |-> IF SectionOf(q) # s THEN h.tag[q]
                                     ELSE IF q = First(s) THEN "FreeFirst" ELSE "Follow"]]

\* pagesGet gives a section, the new frontier.
NewSection(s) ==
    /\ phase \in {"pages", "pagesAgain"}
    /\ s \notin heap.sects
    /\ heap' = FromFrontier(WithSection(heap, s), First(s), wanted)
    /\ taken' = First(s)
    /\ phase' = "give"
    /\ UNCHANGED <<live, limbo, wanted, gcVars>>

\* stoAlloc returns 0.
NoPages ==
    /\ phase \in {"pages", "pagesAgain"}
    /\ heap.sects = Section
    /\ wanted' = 0
    /\ phase' = "idle"
    /\ UNCHANGED <<heap, live, limbo, taken, gcVars>>

\* mxmemAllocDLL and btreeInsertX have their nodes.
LinkNode ==
    /\ phase \in {"node", "nodeAgain"}
    /\ UNCHANGED <<taken, wanted>>
    /\ IF SectionOf(limbo) \in heap.sects /\ heap.this[limbo] \notin Sizes(heap)
       THEN /\ heap' = Freed(Linked(heap, limbo), limbo)
            /\ phase' = AfterLink
       ELSE UNCHANGED heap /\ phase' = "corrupt"
    /\ limbo' = None
    /\ UNCHANGED <<live, gcVars>>

\* The end of stoAlloc.
Give ==
    /\ phase = "give"
    /\ IF SectionOf(taken) \in heap.sects
       THEN /\ heap' = [heap EXCEPT !.tag[taken] = "BusyFirst"]
            /\ live' = live \cup {taken}
            /\ phase' = "idle"
       ELSE UNCHANGED <<heap, live>> /\ phase' = "corrupt"
    /\ taken' = None
    /\ wanted' = 0
    /\ UNCHANGED <<limbo, gcVars>>

stoFree(p) ==
    /\ phase = "idle"
    /\ p \in live
    /\ live' = live \ {p}
    /\ UNCHANGED <<taken, wanted>>
    /\ Put([heap EXCEPT !.tag[p] = "FreeFirst"], p)
    /\ UNCHANGED gcVars

\* The client loses its last pointer to p.
Drop(p) ==
    /\ phase = "idle"
    /\ p \in live
    /\ live' = live \ {p}
    /\ UNCHANGED <<heap, limbo, taken, wanted, gcVars, phase>>

-----------------------------------------------------------------------------
(* stoGc.                                                                  *)

Starts == {p \in Addr : SectionOf(p) \in heap.sects /\ heap.this[p] > 0}
QuantaOf(P) == UNION {Piece(p, heap.this[p]) : p \in P}

\* A collection, from stoGc or from pagesGet: while a section is wanted, or
\* while the piece in limbo waits for a node.
Collect ==
    /\ phase \in {"idle", "pages"} \cup (IF NodesCollect THEN {"node"} ELSE {})
    /\ \E stale \in SUBSET (Starts \ live) :
          Cardinality(stale) <= MaxStale /\ mark' = QuantaOf(live \cup stale)
    /\ cursor' = First(1)
    /\ busyHere' = FALSE
    /\ back' = CASE phase = "idle" -> "idle"
                 [] phase = "pages" -> "pagesAgain"
                 [] phase = "node" -> "nodeAgain"
    /\ phase' = "sweep"
    /\ UNCHANGED <<heap, live, limbo, taken, wanted>>

\* Mutant of SkipSection: the cursor stays.
SkipNothing ==
    /\ phase = "sweep"
    /\ cursor \in Addr
    /\ SectionOf(cursor) \notin heap.sects
    /\ UNCHANGED vars

SkipSection ==
    /\ phase = "sweep"
    /\ cursor \in Addr
    /\ SectionOf(cursor) \notin heap.sects
    /\ cursor' = cursor + Quanta
    /\ UNCHANGED <<heap, live, mark, limbo, taken, wanted, busyHere, back, phase>>

AtPiece == phase = "sweep" /\ cursor \in Addr /\ SectionOf(cursor) \in heap.sects
\* Mutant of Unused: the mark is not looked at.
UnusedMarked(p) == heap.tag[p] = "BusyFirst"
Unused(p) == heap.tag[p] = "BusyFirst" /\ p \notin mark

\* On to the piece behind, or to the end of the section.
GoOn(p, n) ==
    /\ cursor' = p + n
    /\ phase' = IF p + n > SectionOf(p) * Quanta THEN "leave" ELSE "sweep"

\* A piece that is in use and not marked is freed.  If that merges the piece
\* behind it, the sweep takes both as one.
SweepUnused ==
    LET p == cursor
        q == mxmemNext(heap, p)
    IN  /\ AtPiece
        /\ Unused(p)
        /\ \E h \in {[heap EXCEPT !.tag[p] = "FreeFirst"]} :
           IF Broken(h, p)
           THEN phase' = "corrupt" /\ UNCHANGED <<heap, mark, cursor>>
           ELSE /\ piecePutMixed(h, p)
                /\ IF q # None /\ q \in heap.isFree /\ heap'.tag[q] = "Follow"
                   THEN /\ mark' = IF q \in mark THEN mark \ Piece(q, heap.this[q]) ELSE mark
                        /\ GoOn(p, heap.this[p] + heap.this[q])
                   ELSE UNCHANGED mark /\ GoOn(p, heap.this[p])
        /\ UNCHANGED <<live, limbo, taken, wanted, busyHere, back>>

SweepOther ==
    LET p == cursor IN
    /\ AtPiece
    /\ ~Unused(p)
    /\ mark' = IF p \in mark THEN mark \ Piece(p, heap.this[p]) ELSE mark
    /\ busyHere' = (busyHere \/ heap.tag[p] = "BusyFirst")
    /\ GoOn(p, heap.this[p])
    /\ UNCHANGED <<heap, live, limbo, taken, wanted, back>>

\* The section s is one piece, which is taken from the tree.
WithoutSection(h, s) ==
    [h EXCEPT !.sects = @ \ {s},
              !.this = [q \in Addr |-> IF SectionOf(q) = s THEN 0 ELSE h.this[q]],
              !.prev = [q \in Addr |-> IF SectionOf(q) = s THEN 0 ELSE h.prev[q]],
              !.tag = [q \in Addr |-> IF SectionOf(q) = s THEN "Follow" ELSE h.tag[q]],
              !.isFree = {q \in @ : SectionOf(q) # s},
              !.tree = mxmemUnlinkFromBTree(@, First(s))]

\* Mutant of LeaveSection: what was seen in one section is held against the next.
LeaveBusy ==
    LET s == SectionOf(cursor - 1)
        f == heap.frontier
        p == First(s)
    IN  /\ phase = "leave"
        /\ IF busyHere \/ (f # None /\ SectionOf(f) = s)
           THEN phase' = "sweep" /\ UNCHANGED <<heap, mark>>
           ELSE IF ~InTree(heap, p)
           THEN phase' = "corrupt" /\ UNCHANGED <<heap, mark>>
           ELSE /\ heap' = WithoutSection(heap, s)
                /\ mark' = {q \in mark : SectionOf(q) # s}
                /\ phase' = "sweep"
        /\ UNCHANGED <<live, limbo, taken, wanted, cursor, busyHere, back>>

\* "Return pages if no busy pieces & sect does not contain frontier."
LeaveSection ==
    LET s == SectionOf(cursor - 1)
        f == heap.frontier
        p == First(s)
    IN  /\ phase = "leave"
        /\ busyHere' = FALSE
        /\ IF busyHere \/ (f # None /\ SectionOf(f) = s)
           THEN phase' = "sweep" /\ UNCHANGED <<heap, mark>>
           ELSE IF ~InTree(heap, p)
           THEN phase' = "corrupt" /\ UNCHANGED <<heap, mark>>
           ELSE /\ heap' = WithoutSection(heap, s)
                /\ mark' = {q \in mark : SectionOf(q) # s}
                /\ phase' = "sweep"
        /\ UNCHANGED <<live, limbo, taken, wanted, cursor, back>>

EndSweep ==
    /\ phase = "sweep"
    /\ cursor = NSections * Quanta + 1
    /\ cursor' = None
    /\ back' = "idle"
    /\ phase' = back
    /\ UNCHANGED <<heap, live, mark, limbo, taken, wanted, busyHere>>

Collector == SkipSection \/ SweepUnused \/ SweepOther \/ LeaveSection \/ EndSweep

Allocator ==
    \/ \E s \in Section : NewSection(s)
    \/ NoPages \/ LinkNode \/ Give

Client ==
    \/ \E n \in 1 .. MaxRequest : stoAlloc(n)
    \/ \E p \in Addr : stoFree(p) \/ Drop(p)
    \/ Collect

Next == Collector \/ Allocator \/ Client
Spec == Init /\ [][Next]_vars

\* One thread, never descheduled for ever.
FairSpec == Spec /\ WF_vars(Collector \/ Allocator)

-----------------------------------------------------------------------------
(* Properties.                                                             *)

\* Every variable has its type.
TypeOK ==
    /\ heap.sects \subseteq Section
    /\ heap.this \in [Addr -> 0 .. Quanta] /\ heap.prev \in [Addr -> 0 .. Quanta]
    /\ heap.isFree \subseteq Addr
    /\ heap.tag \in [Addr -> Kinds]
    /\ \A n \in Sizes(heap) : n \in 1 .. Quanta /\ heap.tree[n] \in Seq(Addr)
    /\ heap.frontier \in Addr \cup {None}
    /\ live \subseteq Addr /\ mark \subseteq Addr
    /\ limbo \in Addr \cup {None} /\ taken \in Addr \cup {None}
    /\ wanted \in 0 .. MaxRequest
    /\ cursor \in 0 .. NSections * Quanta + 1
    /\ busyHere \in BOOLEAN
    /\ back \in {"idle", "pagesAgain", "nodeAgain"}
    /\ phase \in {"idle", "pages", "pagesAgain", "node", "nodeAgain", "give",
                  "sweep", "leave", "corrupt"}

\* The pieces of a section follow each other from its start to its end without
\* gap or overlap, and each piece knows the size of the one before it: both
\* links of mxmemNext and mxmemPrev are right.
SectionTiled ==
    \A s \in heap.sects :
        /\ heap.this[First(s)] > 0
        /\ \A p \in {q \in Addr : SectionOf(q) = s /\ heap.this[q] > 0} :
              LET n == mxmemNext(heap, p) IN
              /\ p + heap.this[p] - 1 <= s * Quanta
              /\ \A q \in Piece(p, heap.this[p]) \ {p} : heap.this[q] = 0
              /\ n # None => heap.this[n] > 0 /\ mxmemPrev(heap, n) = p
              /\ heap.tag[p] # "Follow"
        /\ \A p \in {q \in Addr : SectionOf(q) = s /\ heap.this[q] = 0} :
              heap.tag[p] = "Follow"

\* Between calls, the free tree has exactly the free pieces but the frontier,
\* each once, in the list of its size; no list is empty.
FreeTreeExact ==
    phase \in {"idle", "pages", "pagesAgain"} =>
        /\ \A n \in Sizes(heap) :
              /\ heap.tree[n] # <<>>
              /\ IsInjective(heap.tree[n])
              /\ \A p \in ToSet(heap.tree[n]) : p \in Starts /\ heap.this[p] = n
        /\ \A p \in Starts :
              /\ InTree(heap, p) <=> p \in heap.isFree
              /\ p \in heap.isFree <=> heap.tag[p] = "FreeFirst" /\ p # heap.frontier

\* "When a mixed piece is freed, it is merged with any adjacent mixed free
\* pieces": two pieces of the tree are never neighbours.
NoFreeNeighbours ==
    phase \in {"idle", "pages", "pagesAgain"} =>
        \A p \in Starts : p \in heap.isFree =>
            mxmemNext(heap, p) \notin heap.isFree

\* A piece the client can reach is a piece in use, of a section that is there.
LiveKept ==
    \A p \in live : p \in Starts /\ heap.tag[p] = "BusyFirst" /\ ~InTree(heap, p)

\* "Return pages if no busy pieces": a piece that stoAlloc is about to give
\* away, or that is about to be linked into the tree, keeps its section.
HeldKept == \A p \in {taken, limbo} \ {None} : SectionOf(p) \in heap.sects

\* A section without a piece in use that does not hold the frontier is returned
\* by the next collection: what it leaves is needed.
EmptyReturned ==
    [][EndSweep =>
        \A s \in heap.sects :
            \/ \E p \in Starts : SectionOf(p) = s /\ heap.tag[p] = "BusyFirst"
            \/ heap.frontier # None /\ SectionOf(heap.frontier) = s]_vars

\* Every call returns: none goes on for ever, and none stops because it would
\* follow the links of a piece that is in no list (phase "corrupt").
CallsReturn == phase # "idle" ~> phase = "idle"

=============================================================================
