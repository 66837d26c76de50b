------------------------------ MODULE StoFixed ------------------------------
(***************************************************************************)
(* Fixed-size pieces of the storage manager, store.c: sections of pieces   *)
(* of one size, a free list for each size, and the mark and sweep          *)
(* collector that makes the free lists anew.                               *)
(*                                                                         *)
(* Abstractions.  A section is one page of PerSection pieces.  A size class*)
(* c stands for pieces that can hold c pointers.  A free list is a bag:    *)
(* linked[c][p] is how many times p is linked into list c, so a piece      *)
(* linked twice or into the wrong list can be told, the order cannot.  The *)
(* page layer (StoPages) gives a free section or none, and may collect.    *)
(***************************************************************************)
EXTENDS Integers, FiniteSets

CONSTANTS
    NSections,   \* pages the page layer has
    PerSection,  \* pieces in a section
    NClasses,    \* number of size classes
    MaxStale,    \* bound: stale words a collection finds
    Codes,       \* the codes the client uses
    Resizes      \* does the client call stoResize

ASSUME FixedConstants ==
    /\ NSections \in Nat \ {0}
    /\ PerSection \in Nat \ {0}
    /\ NClasses \in Nat \ {0}
    /\ MaxStale \in Nat
    /\ Codes \subseteq {"pointers", "plain"}
    /\ Resizes \in BOOLEAN

Section == 1 .. NSections
Class == 1 .. NClasses
Piece == Section \X (1 .. PerSection)
None == 0
NoPiece == <<0, 0>>
Kinds == {"none", "FreeFirst", "BusyFirst"}
\* "plain" is also the code 0 of a piece not in use.
AllCodes == {"pointers", "plain"}

VARIABLES
    class,      \* size class of each section, None when its page is free
    info,       \* tag of each piece: its kind
    code,       \* tag of each piece: may it contain pointers
    mark,       \* pieces with the mark bit set
    linked,     \* linked[c][p]: times p is in the free list of class c
    freeCount,  \* freeFixedPieces
    busyCount,  \* busyFixedPieces
    roots,      \* pieces the client has pointers to
    refs,       \* refs[p]: pieces that p holds pointers to
    pending,    \* words the collector has still to look at
    cursor,     \* next section to sweep
    tails,      \* the free lists the sweep builds, as linked
    freeFixed,  \* freeFixedStruct and busyFixedStruct: the counts that the
    busyFixed,  \* sweep makes, section by section
    request,    \* the call of stoAlloc in progress
    phase

pieceVars == <<class, info, code>>
counts    == <<freeCount, busyCount>>
listVars  == <<linked, counts>>
building  == <<tails, freeFixed, busyFixed>>
gcVars    == <<pending, cursor, building>>
client    == <<roots, refs>>
vars == <<pieceVars, mark, listVars, client, gcVars, request, phase>>

sectOf(p) == p[1]
PiecesOf(s) == {p \in Piece : sectOf(p) = s}
Busy == {p \in Piece : info[p] = "BusyFirst"}
Request(c, cd, p) ==
    [class |-> c, code |-> cd, old |-> p, new |-> NoPiece, collected |-> FALSE]
NoRequest == Request(None, "plain", NoPiece)
NoCounts == [c \in Class |-> 0]
NoLinks == [c \in Class |-> [p \in Piece |-> 0]]
\* Add n to the times each piece of P is linked into list c.
Relink(links, c, P, n) ==
    [d \in Class |-> [p \in Piece |->
        IF d = c /\ p \in P THEN links[d][p] + n ELSE links[d][p]]]
Link(links, c, P) == Relink(links, c, P, 1)
Unlink(links, c, p) == Relink(links, c, {p}, -1)
Available(c) == {p \in Piece : linked[c][p] > 0}
\* QmInfoMake0: the tag of a free piece has no code.
Untagged(P) == [p \in Piece |-> IF p \in P THEN "plain" ELSE code[p]]
Forget(p) == [q \in Piece |-> IF q = p THEN {} ELSE refs[q] \ {p}]

Init ==
    /\ class = [s \in Section |-> None]
    /\ info = [p \in Piece |-> "none"]
    /\ code = [p \in Piece |-> "plain"]
    /\ mark = {}
    /\ linked = NoLinks
    /\ freeCount = NoCounts /\ busyCount = NoCounts
    /\ roots = {}
    /\ refs = [p \in Piece |-> {}]
    /\ pending = {}
    /\ cursor = 0
    /\ tails = NoLinks /\ freeFixed = NoCounts /\ busyFixed = NoCounts
    /\ request = NoRequest
    /\ phase = "idle"

-----------------------------------------------------------------------------
(* stoAlloc, stoFree, stoResize, stoRecode.                                *)

\* The piece p becomes the client's; stoResize then goes on to copy.
GiveTo(p, req, tags) ==
    /\ info' = [tags EXCEPT ![p] = "BusyFirst"]
    /\ code' = [code EXCEPT ![p] = req.code]
    /\ roots' = roots \cup {p}
    /\ IF req.old = NoPiece
       THEN request' = NoRequest /\ phase' = "idle"
       ELSE request' = [req EXCEPT !.new = p] /\ phase' = "copy"

\* A piece of the free list if there is one, else pages are needed.
Allocate(req) ==
    /\ IF Available(req.class) # {}
       THEN \E p \in Available(req.class) :
                /\ GiveTo(p, req, info)
                /\ linked' = Unlink(linked, req.class, p)
       ELSE /\ request' = req
            /\ phase' = "pages"
            /\ UNCHANGED <<info, code, roots, linked>>
    /\ UNCHANGED <<class, mark, counts, refs, gcVars>>

stoAlloc(cd, c) ==
    /\ phase = "idle"
    /\ Allocate(Request(c, cd, NoPiece))

\* Mutant of piecesGetFixed: the piece given away stays in the list.
LinkAll(s) ==
    /\ phase = "pages"
    /\ class[s] = None
    /\ class' = [class EXCEPT ![s] = request.class]
    /\ GiveTo(<<s, 1>>, request,
              [q \in Piece |-> IF sectOf(q) = s THEN "FreeFirst" ELSE info[q]])
    /\ linked' = Link(linked, request.class, PiecesOf(s))
    /\ UNCHANGED <<mark, counts, refs, gcVars>>

\* pagesGet gives the page of section s: make its pieces, link them in front
\* of the free list as it is now, and take the first.
piecesGetFixed(s) ==
    LET c == request.class
        p == <<s, 1>>
    IN  /\ phase = "pages"
        /\ class[s] = None
        /\ class' = [class EXCEPT ![s] = c]
        /\ GiveTo(p, request,
                  [q \in Piece |-> IF sectOf(q) = s THEN "FreeFirst" ELSE info[q]])
        /\ linked' = Link(linked, c, PiecesOf(s) \ {p})
        /\ UNCHANGED <<mark, counts, refs, gcVars>>

\* pagesGet fails and stoAlloc returns 0; stoResize would copy there.
NoPages ==
    /\ phase = "pages"
    /\ request.collected
    /\ \A s \in Section : class[s] # None
    /\ request' = NoRequest
    /\ phase' = IF request.old = NoPiece THEN "idle" ELSE "crash"
    /\ UNCHANGED <<pieceVars, mark, listVars, client, gcVars>>

\* The client gives p back and never uses its pointers to p again.  (For a
\* piece not in use stoFree reports StoErr_FreeBad, and the program exits.)
stoFree(p) ==
    /\ phase = "idle"
    /\ p \in roots /\ info[p] = "BusyFirst"
    /\ info' = [info EXCEPT ![p] = "FreeFirst"]
    /\ code' = Untagged({p})
    /\ linked' = Link(linked, class[sectOf(p)], {p})
    /\ roots' = roots \ {p}
    /\ refs' = Forget(p)
    /\ UNCHANGED <<class, mark, counts, gcVars, request, phase>>

\* Nothing happens if p is already of the size class asked for.
stoResize(p, c) ==
    /\ phase = "idle"
    /\ p \in roots
    /\ class[sectOf(p)] # c
    /\ Allocate(Request(c, code[p], p))

\* The rest of stoResize: copy what fits into the new piece, free the old one.
CopyAndFree ==
    LET p == request.old
        q == request.new
    IN  /\ phase = "copy"
        /\ \E R \in SUBSET refs[p] :
              /\ Cardinality(R) <= request.class
              /\ Cardinality(refs[p]) <= request.class => R = refs[p]
              /\ refs' = [Forget(p) EXCEPT ![q] = R \ {p}]
        /\ info' = [info EXCEPT ![p] = "FreeFirst"]
        /\ code' = Untagged({p})
        /\ linked' = Link(linked, class[sectOf(p)], {p})
        /\ roots' = roots \ {p}
        /\ request' = NoRequest
        /\ phase' = "idle"
        /\ UNCHANGED <<class, mark, counts, gcVars>>

\* The client declares a piece free of pointers only when it is.
stoRecode(p, cd) ==
    /\ phase = "idle"
    /\ p \in roots
    /\ cd = "plain" => refs[p] = {}
    /\ code' = [code EXCEPT ![p] = cd]
    /\ UNCHANGED <<class, info, mark, listVars, client, gcVars, request, phase>>

-----------------------------------------------------------------------------
(* stoGc.                                                                  *)

\* The words of the roots are the client's pointers and any stale words.
BeginMark ==
    /\ \E stale \in SUBSET Piece :
          Cardinality(stale) <= MaxStale /\ pending' = roots \cup stale
    /\ phase' = "mark"
    /\ UNCHANGED <<pieceVars, mark, listVars, client, cursor, building>>

stoGc == phase = "idle" /\ BeginMark /\ UNCHANGED request

\* pagesGet finds no free page, or not enough, and collects first.
CollectForPages ==
    /\ phase = "pages"
    /\ ~request.collected
    /\ BeginMark
    /\ request' = [request EXCEPT !.collected = TRUE]

\* A piece in use whose code says it may hold pointers is scanned.
Scanned(p) ==
    IF info[p] = "BusyFirst" /\ code[p] = "pointers" THEN refs[p] ELSE {}

\* Mutant of MarkWord: pieces are marked, not scanned.
MarkOnly(p) ==
    /\ phase = "mark"
    /\ p \in pending
    /\ pending' = pending \ {p}
    /\ mark' = IF class[sectOf(p)] = None THEN mark ELSE mark \cup {p}
    /\ UNCHANGED <<pieceVars, listVars, client, cursor, building, request, phase>>

\* stoGcMarkRange1 looks at one word.
MarkWord(p) ==
    /\ phase = "mark"
    /\ p \in pending
    /\ IF class[sectOf(p)] = None \/ p \in mark
       THEN pending' = pending \ {p} /\ UNCHANGED mark
       ELSE /\ mark' = mark \cup {p}
            /\ pending' = (pending \ {p}) \cup Scanned(p)
    /\ UNCHANGED <<pieceVars, listVars, client, cursor, building, request, phase>>

EndMark ==
    /\ phase = "mark"
    /\ pending = {}
    /\ phase' = "sweep"
    /\ cursor' = 1
    /\ tails' = NoLinks /\ freeFixed' = NoCounts /\ busyFixed' = NoCounts
    /\ UNCHANGED <<pieceVars, mark, listVars, client, pending, request>>

Sweeping == phase = "sweep" /\ cursor \in Section

\* Mutants of SkipPage: the cursor goes two pages on, or none.
SkipTwo ==
    /\ Sweeping
    /\ class[cursor] = None
    /\ cursor' = cursor + 2
    /\ UNCHANGED <<pieceVars, mark, listVars, client, pending, building, request, phase>>
SkipNone ==
    /\ Sweeping
    /\ class[cursor] = None
    /\ UNCHANGED vars

SkipPage ==
    /\ Sweeping
    /\ class[cursor] = None
    /\ cursor' = cursor + 1
    /\ UNCHANGED <<pieceVars, mark, listVars, client, pending, building, request, phase>>

\* Pieces in use and not marked become free, and lose their contents.
Swept(s) == (PiecesOf(s) \cap Busy) \ mark
Wiped(P) == [p \in Piece |-> IF p \in P THEN {} ELSE refs[p]]
Plus(count, c, n) == [count EXCEPT ![c] = @ + n]
\* The free pieces of a section that stays and those just swept are counted,
\* and those in use.
CountSection(s) ==
    LET c == class[s]
        free == PiecesOf(s) \ Busy
    IN  /\ freeFixed' = Plus(freeFixed, c, Cardinality(free) + Cardinality(Swept(s)))
        /\ busyFixed' = Plus(busyFixed, c, Cardinality(PiecesOf(s) \cap Busy \cap mark))

\* Mutant of SweepSection: only the marks of pieces in use are cleared.
SweepBusyMarks ==
    LET s == cursor IN
    /\ Sweeping
    /\ PiecesOf(s) \cap Busy \cap mark # {}
    /\ info' = [p \in Piece |-> IF p \in Swept(s) THEN "FreeFirst" ELSE info[p]]
    /\ code' = Untagged(Swept(s))
    /\ refs' = Wiped(Swept(s))
    /\ tails' = Link(tails, class[s], PiecesOf(s) \ (Busy \cap mark))
    /\ CountSection(s)
    /\ mark' = mark \ (PiecesOf(s) \cap Busy)
    /\ cursor' = s + 1
    /\ UNCHANGED <<class, listVars, roots, pending, request, phase>>

\* Mutant of SweepSection: a fresh tag for every piece, also those in use.
SweepUntags ==
    LET s == cursor IN
    /\ Sweeping
    /\ PiecesOf(s) \cap Busy \cap mark # {}
    /\ info' = [p \in Piece |-> IF p \in Swept(s) THEN "FreeFirst" ELSE info[p]]
    /\ code' = Untagged(PiecesOf(s))
    /\ refs' = Wiped(Swept(s))
    /\ tails' = Link(tails, class[s], PiecesOf(s) \ (Busy \cap mark))
    /\ CountSection(s)
    /\ mark' = mark \ PiecesOf(s)
    /\ cursor' = s + 1
    /\ UNCHANGED <<class, listVars, roots, pending, request, phase>>

\* A section with a piece in use: its free pieces go to the new free list.
SweepSection ==
    LET s == cursor IN
    /\ Sweeping
    /\ PiecesOf(s) \cap Busy \cap mark # {}
    /\ info' = [p \in Piece |-> IF p \in Swept(s) THEN "FreeFirst" ELSE info[p]]
    /\ code' = Untagged(Swept(s))
    /\ refs' = Wiped(Swept(s))
    /\ tails' = Link(tails, class[s], PiecesOf(s) \ (Busy \cap mark))
    /\ CountSection(s)
    /\ mark' = mark \ PiecesOf(s)
    /\ cursor' = s + 1
    /\ UNCHANGED <<class, listVars, roots, pending, request, phase>>

\* Mutant of ReturnSection: its free pieces are counted as in SweepSection.
ReturnCounted ==
    LET s == cursor IN
    /\ Sweeping
    /\ class[s] # None
    /\ PiecesOf(s) \cap Busy \cap mark = {}
    /\ class' = [class EXCEPT ![s] = None]
    /\ info' = [p \in Piece |-> IF p \in PiecesOf(s) THEN "none" ELSE info[p]]
    /\ code' = Untagged(PiecesOf(s))
    /\ refs' = Wiped(PiecesOf(s))
    /\ mark' = mark \ PiecesOf(s)
    /\ cursor' = s + 1
    /\ freeFixed' = Plus(freeFixed, class[s], Cardinality(PiecesOf(s)))
    /\ UNCHANGED <<listVars, roots, pending, tails, busyFixed, request, phase>>

\* A section with none: its page goes back, its pieces stay out of the list.
ReturnSection ==
    LET s == cursor IN
    /\ Sweeping
    /\ class[s] # None
    /\ PiecesOf(s) \cap Busy \cap mark = {}
    /\ class' = [class EXCEPT ![s] = None]
    /\ info' = [p \in Piece |-> IF p \in PiecesOf(s) THEN "none" ELSE info[p]]
    /\ code' = Untagged(PiecesOf(s))
    /\ refs' = Wiped(PiecesOf(s))
    /\ mark' = mark \ PiecesOf(s)
    /\ cursor' = s + 1
    /\ UNCHANGED <<listVars, roots, pending, building, request, phase>>

\* The free lists and the counts are published; until then a pagesGet that
\* the sweep of a mixed section calls for decides by the counts of the sweep
\* before.
EndSweep ==
    /\ phase = "sweep"
    /\ cursor > NSections
    /\ linked' = tails
    /\ freeCount' = freeFixed /\ busyCount' = busyFixed
    /\ tails' = NoLinks
    /\ cursor' = 0
    /\ phase' = IF request = NoRequest THEN "idle" ELSE "pages"
    /\ UNCHANGED <<pieceVars, mark, client, pending, freeFixed, busyFixed, request>>

-----------------------------------------------------------------------------
(* The client's own steps.                                                 *)

\* The client stores pointers only where the tag says there may be pointers.
Write(p, q) ==
    /\ phase = "idle"
    /\ p \in roots /\ q \in roots
    /\ code[p] = "pointers"
    /\ Cardinality(refs[p] \cup {q}) <= class[sectOf(p)]
    /\ refs' = [refs EXCEPT ![p] = @ \cup {q}]
    /\ UNCHANGED <<pieceVars, mark, listVars, roots, gcVars, request, phase>>

Erase(p, q) ==
    /\ phase = "idle"
    /\ p \in roots
    /\ refs' = [refs EXCEPT ![p] = @ \ {q}]
    /\ UNCHANGED <<pieceVars, mark, listVars, roots, gcVars, request, phase>>

Load(p, q) ==
    /\ phase = "idle"
    /\ p \in roots /\ q \in refs[p]
    /\ roots' = roots \cup {q}
    /\ UNCHANGED <<pieceVars, mark, listVars, refs, gcVars, request, phase>>

Drop(p) ==
    /\ phase = "idle"
    /\ roots' = roots \ {p}
    /\ UNCHANGED <<pieceVars, mark, listVars, refs, gcVars, request, phase>>

Collector ==
    \/ \E p \in Piece : MarkWord(p)
    \/ EndMark \/ SkipPage \/ SweepSection \/ ReturnSection \/ EndSweep

Allocator ==
    \/ \E s \in Section : piecesGetFixed(s)
    \/ NoPages \/ CollectForPages \/ CopyAndFree

Client ==
    \/ \E cd \in Codes, c \in Class : stoAlloc(cd, c)
    \/ \E p \in Piece : stoFree(p) \/ Drop(p)
    \/ \E p \in Piece, c \in Class : Resizes /\ stoResize(p, c)
    \/ \E p \in Piece, cd \in Codes : stoRecode(p, cd)
    \/ \E p, q \in Piece : Write(p, q) \/ Erase(p, q) \/ Load(p, q)
    \/ stoGc

Next == Collector \/ Allocator \/ Client
Spec == Init /\ [][Next]_vars
FairSpec == Spec /\ WF_vars(Collector \/ Allocator)

-----------------------------------------------------------------------------
(* Properties.                                                             *)

\* Every variable has its type.
TypeOK ==
    /\ class \in [Section -> Class \cup {None}]
    /\ info \in [Piece -> Kinds]
    /\ code \in [Piece -> AllCodes]
    /\ mark \subseteq Piece
    /\ linked \in [Class -> [Piece -> Nat]]
    /\ freeCount \in [Class -> Nat] /\ busyCount \in [Class -> Nat]
    /\ freeFixed \in [Class -> Nat] /\ busyFixed \in [Class -> Nat]
    /\ roots \subseteq Piece
    /\ refs \in [Piece -> SUBSET Piece]
    /\ pending \subseteq Piece
    /\ cursor \in 0 .. NSections + 1
    /\ tails \in [Class -> [Piece -> Nat]]
    /\ request \in [class : Class \cup {None}, code : AllCodes,
                    old : Piece \cup {NoPiece}, new : Piece \cup {NoPiece},
                    collected : BOOLEAN]
    /\ phase \in {"idle", "pages", "copy", "mark", "sweep", "crash"}

\* The free lists are exact while no sweep is rebuilding them: a piece is in
\* the list of its section's size class once if it is free, and in no list at
\* all if it is in use, of another size, or its section's page was returned
\* (stoAlloc, stoFree, piecesGetFixed, stoGcSweepFixed).
FreeListsExact ==
    phase \in {"idle", "pages", "copy"} =>
        \A c \in Class, p \in Piece :
            linked[c][p] =
                IF class[sectOf(p)] = c /\ info[p] = "FreeFirst" THEN 1 ELSE 0

\* A piece the client can reach, through its own variables or through pieces
\* in use, is in use: it was neither freed nor swept, however the collections
\* and the calls of stoResize fell (stoGcMarkRange1, stoGcSweepFixed).
NoDangling ==
    phase # "sweep" =>
        /\ roots \subseteq Busy
        /\ \A p \in Busy : refs[p] \subseteq Busy

\* A collection leaves no mark behind, also not on the free pieces that stale
\* words have marked: a mark left over would keep the next collection from
\* scanning the piece that is then there.
MarksCleared == phase \in {"idle", "pages", "copy"} => mark = {}

\* A piece that holds pointers is tagged as one that may.
PointersTagged == \A p \in Busy : refs[p] # {} => code[p] = "pointers"

\* Nobody keeps the counts of free and busy pieces up while pieces are given
\* out and freed, but by the time they decide on the growth of the heap
\* (stoNeedsMoreHeadroom) they are right: exact when pagesGet goes on after
\* its collection, and whenever they change, so that a pagesGet in the midst
\* of a sweep finds those of the sweep before and never some half made.
CountsExact ==
    \A c \in Class :
        /\ freeCount[c] = Cardinality(Available(c))
        /\ busyCount[c] = Cardinality({p \in Busy : class[sectOf(p)] = c})
HeadroomCountsExact ==
    /\ [](phase = "pages" /\ request.collected => CountsExact)
    /\ [][counts' # counts => CountsExact']_vars

\* Every call returns.
CallsReturn == phase # "idle" ~> phase \in {"idle", "crash"}

\* The pieces and the collector give the client what StoHeap promises.
Heap == INSTANCE StoHeap WITH allocated <- Busy
HeapSpec == Heap!Spec

-----------------------------------------------------------------------------
(* The inductive invariant, of which the theorems' properties are parts.   *)

Quiet == phase \in {"idle", "pages", "copy", "crash"}

\* The tags of a section's pieces exist while the section does.
TagsExist == \A p \in Piece : info[p] = "none" <=> class[sectOf(p)] = None

\* Only pieces in use have contents.
Contents == \A p \in Piece : p \notin Busy => refs[p] = {}

\* The list being built has the free pieces of the sections swept so far.
TailsExact ==
    phase = "sweep" =>
        \A c \in Class, p \in Piece :
            tails[c][p] =
                IF /\ sectOf(p) < cursor
                   /\ class[sectOf(p)] = c /\ info[p] = "FreeFirst"
                THEN 1 ELSE 0

\* The counts being made are those of the sections swept so far.
SweptOf(c, kind) ==
    {p \in Piece : sectOf(p) < cursor /\ class[sectOf(p)] = c /\ info[p] = kind}
CountsMade ==
    phase = "sweep" =>
        \A c \in Class :
            /\ freeFixed[c] = Cardinality(SweptOf(c, "FreeFirst"))
            /\ busyFixed[c] = Cardinality(SweptOf(c, "BusyFirst"))

\* Marking is a closure: what a marked piece refers to is marked or pending.
Marking ==
    phase = "mark" =>
        /\ roots \subseteq mark \cup pending
        /\ \A p \in mark \cap Busy : refs[p] \subseteq mark \cup pending

MarksExist ==
    /\ Quiet => mark = {}
    /\ \A p \in mark : class[sectOf(p)] # None
    /\ phase = "sweep" => cursor > 0 /\ \A p \in mark : sectOf(p) >= cursor

\* The pieces the sweep keeps: marked, or in a section already swept.
Kept == {p \in Busy : p \in mark \/ sectOf(p) < cursor}
KeptClosed ==
    phase = "sweep" => roots \subseteq Kept /\ \A p \in Kept : refs[p] \subseteq Kept

\* stoResize holds the piece to replace, and later the new one, all through.
RequestOK ==
    /\ phase = "idle" => request = NoRequest
    /\ request # NoRequest /\ phase # "crash" => request.class \in Class
    /\ phase = "pages" => request.class \in Class /\ request.new = NoPiece
    /\ phase \in {"mark", "sweep"} => request.new = NoPiece
    /\ request.old # NoPiece /\ phase # "crash" =>
          /\ request.old \in roots
          /\ request.code = code[request.old]
    /\ phase = "copy" =>
          /\ request.old \in Piece /\ request.new \in Piece
          /\ request.new \in roots /\ request.new # request.old
          /\ refs[request.new] = {}
          /\ code[request.new] = request.code

Inv ==
    /\ TypeOK
    /\ TagsExist /\ Contents /\ PointersTagged
    /\ FreeListsExact /\ TailsExact /\ CountsMade
    /\ Marking /\ MarksExist /\ KeptClosed /\ NoDangling
    /\ RequestOK

=============================================================================
