------------------------------ MODULE StoPages ------------------------------
(***************************************************************************)
(* The page layer of the storage manager, store.c: the page map, the heap  *)
(* limits, pagesGet with the garbage collection it may start, and pagesAdd *)
(* which grows the heap with what osAlloc returns.                         *)
(*                                                                         *)
(* The unit of address is the page.  The program is one thread; a step is  *)
(* a piece of code between two calls whose effects another step could see: *)
(* the collector, called from pagesGet, calls pagesGet again from the      *)
(* middle of its sweep when the free tree needs a page for its nodes, and  *)
(* that inner call may grow and slide the map the sweep is walking.        *)
(*                                                                         *)
(* What a section contains is abstracted to whether one of its pieces is   *)
(* reachable.  StoFixed models the pieces.                                 *)
(***************************************************************************)
EXTENDS Integers, Sequences, FiniteSets

CONSTANTS
    AddrMax,        \* bound: store is given in the pages 0 .. AddrMax
    MapEntries,     \* entries of the page map that one page holds (PgSize)
    PgGroup,        \* least number of pages asked of the OS
    GcMinGrowth,    \* least growth of a heap short of headroom
    EffNum, EffDen, \* GcEffectiveFactor: wanted share of free pages
    GrowNum, GrowDen, \* GcGrowthFactor: growth when headroom is short
    MaxRequest,     \* bound: pages of the largest section asked for
    MaxNodes,       \* bound: pages the free tree asks for
    MaxGap,         \* bound: foreign pages between two OS allocations
    Placement,      \* where osAlloc may place store: above, below, middle
    Slack,          \* pages osAlloc returns beyond the request (alignment)
    Levels,         \* the GC levels the client may set
    MapMayFail,     \* may osAlloc refuse a new page map
    GcIsFrugal      \* the frugal growth policy

Sides == {"above", "below", "middle"}
GcLevels == {"Never", "Demand", "Automatic"}

ASSUME PageConstants ==
    /\ AddrMax \in Nat
    /\ MapEntries \in Nat \ {0}
    /\ PgGroup \in Nat \ {0}
    /\ GcMinGrowth \in Nat \ {0}
    /\ EffNum \in Nat /\ EffDen \in Nat
    /\ GrowNum \in Nat /\ GrowDen \in Nat \ {0}
    /\ MaxRequest \in Nat \ {0}
    /\ MaxNodes \in Nat
    /\ MaxGap \in Nat
    /\ Placement \subseteq Sides
    /\ Slack \subseteq 0 .. AddrMax /\ Slack # {} \* the first store is within the bound
    /\ Levels \subseteq GcLevels
    /\ MapMayFail \in BOOLEAN
    /\ GcIsFrugal \in BOOLEAN

\* As many addresses again are there for page maps only, so that the bound on
\* the store never makes the OS refuse a map.
MapAddrMax == 2 * AddrMax + 1
Addr == 0 .. MapAddrMax
None == -1

\* PgBTree and PgDLL, the pages of the free tree's own nodes, are one kind.
PgKind == {"Free", "BusyFirst", "BusyFollow", "PgMap", "Node", "Foreign"}
Phases == {"idle", "collect", "sweep", "decide", "grow", "need", "put",
           "retry", "dead", "corrupt"}

VARIABLES
    heapStart, heapEnd,  \* heap limits: the pages heapStart .. heapEnd - 1
    pgMap,               \* kind of each heap page, from index 0
    pgMapSize,           \* number of pages the map describes
    pgMapAt, pgMapUses,  \* where the map itself is, and its size in pages
    found,               \* pgmapFoundFreeLastTime
    osOwned,             \* pages osAlloc has handed to the program
    sects,               \* the sections made: first page -> number of pages
    nodes,               \* pages granted to the free tree
    gcLevel,
    inGc,                \* stoGc's re-entrancy guard
    live,                \* sections with a piece in use when marking began
    marked,              \* sections that hold a marked piece
    pgno,                \* stoGcSweep's cursor
    current,             \* the section it is sweeping
    frames,              \* the calls of pagesGet in progress, innermost first
    request,             \* pagesAdd's locals
    phase

mapVars  == <<pgMap, pgMapSize, pgMapAt, pgMapUses, found>>
limits   == <<heapStart, heapEnd>>
gcVars   == <<inGc, live, marked, pgno, current>>
heldVars == <<sects, nodes>>
vars == <<limits, mapVars, osOwned, heldVars, gcLevel, gcVars, frames,
          request, phase>>

-----------------------------------------------------------------------------
(* Page map.                                                               *)

Pages(p, n) == p .. (p + n - 1)
pgAt(i) == heapStart + i
pgNo(p) == p - heapStart
isInHeap(p) == heapStart <= p /\ p < heapEnd
MapPages == Pages(pgMapAt, pgMapUses)
\* Mutant of pgLen: rounds down.
pgLenDown(n) == IF n < MapEntries THEN 1 ELSE n \div MapEntries
pgLen(n) == (n + MapEntries - 1) \div MapEntries
Greater(a, b) == IF a > b THEN a ELSE b
Least(S) == CHOOSE x \in S : \A y \in S : x <= y

pgmapMod(map, i, n, kind) ==
    [j \in DOMAIN map |-> IF j \in Pages(i, n) THEN kind ELSE map[j]]

CountOf(kinds) == Cardinality({i \in DOMAIN pgMap : pgMap[i] \in kinds})
pgmapCountFree == CountOf({"Free"})
pgmapCountDomestic == CountOf(PgKind \ {"Foreign"})

\* The index at which a scan of [lo, hi) stops: the first start of a free run
\* that is long enough or that is cut short by the end of the map.
RunStarts(lo, hi) ==
    {i \in lo .. (hi - 1) : pgMap[i] = "Free" /\ (i = lo \/ pgMap[i-1] # "Free")}
IsRun(i, n) ==
    i + n <= pgMapSize /\ \A j \in Pages(i, n) : pgMap[j] = "Free"
Stops(lo, hi, n) ==
    {i \in RunStarts(lo, hi) : i + n > pgMapSize \/ IsRun(i, n)}

\* pgmapFindFree: next fit from the place of the previous find.  A run cut
\* short by the end of the map ends the search, and leaves "found" alone.
pgmapFindFree(n) ==
    LET A == Stops(found, pgMapSize, n)
        B == Stops(0, found, n)
        S == IF A # {} THEN A ELSE B
    IN  IF S = {} THEN [at |-> None, found |-> 0]
        ELSE IF IsRun(Least(S), n)
             THEN [at |-> Least(S), found |-> Least(S)]
             ELSE [at |-> None, found |-> found]

-----------------------------------------------------------------------------
(* osAlloc.                                                                *)

OsPlaces(n, limit) ==
    LET bottom == Least(osOwned)
        top == CHOOSE p \in osOwned : \A q \in osOwned : q <= p
    IN  {b \in Addr :
            /\ b + n <= limit + 1
            /\ \/ "above" \in Placement /\ b \in top + 1 .. top + 1 + MaxGap
               \/ "below" \in Placement /\ b + n \in bottom - MaxGap .. bottom
               \/ "middle" \in Placement
                  /\ Pages(b, n) \subseteq (bottom .. top) \ osOwned}

-----------------------------------------------------------------------------
\* pagesAdd's locals: pages asked for or got, where, on which side of the heap,
\* the pages to add to the map, and the result.
NoRequest == [pages |-> 0, at |-> None, side |-> "none", added |-> 0, ok |-> FALSE]

Init ==
    /\ heapStart = IF "below" \in Placement THEN AddrMax \div 2 ELSE 0
    /\ heapEnd = heapStart + 1
    /\ pgMap = [i \in {0} |-> "PgMap"]
    /\ pgMapSize = 1
    /\ pgMapAt = heapStart
    /\ pgMapUses = 1
    /\ found = 0
    /\ \E s \in Slack : osOwned = Pages(heapStart, 1 + s)
    /\ sects = <<>>
    /\ nodes = {}
    /\ gcLevel = "Automatic"
    /\ inGc = FALSE
    /\ live = {}
    /\ marked = {}
    /\ pgno = 0
    /\ current = None
    /\ frames = <<>>
    /\ request = NoRequest
    /\ phase = "idle"

-----------------------------------------------------------------------------
(* pagesGet.                                                               *)

top == frames[1]
Frame(n, for) == [n |-> n, for |-> for, tot |-> 0, best |-> n, page |-> None]

\* Mutant of Granted: only the first page of a section is marked.
GrantedFirst(i, n, for) ==
    pgmapMod(pgMap, i, 1, IF for = "nodes" THEN "Node" ELSE "BusyFirst")

\* The page map with the n pages from index i granted: sections keep the busy
\* marks, stoAllocInner relabels its page as a node page.
Granted(i, n, for) ==
    IF for = "nodes" THEN pgmapMod(pgMap, i, n, "Node")
    ELSE pgmapMod(pgmapMod(pgMap, i, 1, "BusyFirst"), i + 1, n - 1, "BusyFollow")

\* Give the n pages at p to the caller, for a new section or for nodes of the
\* free tree.
Hand(p, n, for) ==
    IF for = "nodes"
    THEN /\ nodes' = nodes \cup Pages(p, n)
         /\ UNCHANGED sects
    ELSE /\ sects' = [s \in DOMAIN sects \cup {p} |->
                        IF s = p THEN n ELSE sects[s]]
         /\ UNCHANGED nodes

\* Where control goes when the innermost pagesGet returns: during a collection
\* that call was the free tree's, made from the middle of the sweep.
Caller == IF inGc THEN "sweep" ELSE "idle"

\* Entry of pagesGet: take a free run at once if there is one.
Enter(n, for) ==
    LET f == pgmapFindFree(n) IN
    /\ found' = f.found
    /\ IF f.at # None
       THEN /\ pgMap' = Granted(f.at, n, for)
            /\ Hand(pgAt(f.at), n, for)
            /\ UNCHANGED <<frames, phase>>
       ELSE /\ frames' = <<Frame(n, for)>> \o frames
            /\ phase' = "collect"
            /\ UNCHANGED <<pgMap, heldVars>>
    /\ UNCHANGED <<limits, pgMapSize, pgMapAt, pgMapUses, osOwned, gcLevel,
                   request>>

pagesGet(n) ==
    /\ phase = "idle"
    /\ Enter(n, "section")
    /\ UNCHANGED gcVars

\* stoGc, from pagesGet or from the client: mark, then begin the sweep; a call
\* made while a collection runs returns at once.  Any of the sections may have
\* a piece in use, and is then marked.
BeginSweep ==
    /\ inGc' = TRUE
    /\ live' \in SUBSET DOMAIN sects
    /\ marked' = live'
    /\ pgno' = 0
    /\ current' = None
    /\ phase' = "sweep"

\* Mutant of Collect: stoGc without its guard against re-entry.
CollectAgain ==
    /\ phase = "collect"
    /\ frames' = [frames EXCEPT ![1].tot = pgmapCountDomestic]
    /\ BeginSweep
    /\ UNCHANGED <<limits, mapVars, osOwned, heldVars, gcLevel, request>>

Collect ==
    /\ phase = "collect"
    /\ IF gcLevel # "Automatic"
       THEN /\ phase' = "grow"
            /\ request' = [NoRequest EXCEPT !.pages = Greater(top.best, PgGroup)]
            /\ UNCHANGED <<gcVars, frames>>
       ELSE /\ frames' = [frames EXCEPT ![1].tot = pgmapCountDomestic]
            /\ IF inGc THEN phase' = "decide" /\ UNCHANGED gcVars ELSE BeginSweep
            /\ UNCHANGED request
    /\ UNCHANGED <<limits, mapVars, osOwned, heldVars, gcLevel>>

stoGc ==
    /\ phase = "idle"
    /\ gcLevel # "Never"
    /\ BeginSweep
    /\ UNCHANGED <<limits, mapVars, osOwned, heldVars, gcLevel, frames, request>>

-----------------------------------------------------------------------------
(* stoGcSweep.                                                             *)

Sweeping == phase = "sweep" /\ pgno < pgMapSize /\ current = None

\* Mutant of SkipPage: the cursor stays on a page that is not a section.
SkipNoPage ==
    /\ Sweeping
    /\ pgMap[pgno] # "BusyFirst"
    /\ UNCHANGED vars

SkipPage ==
    /\ Sweeping
    /\ pgMap[pgno] # "BusyFirst"
    /\ pgno' = pgno + 1
    /\ UNCHANGED <<limits, mapVars, osOwned, heldVars, gcLevel, inGc, live,
                   marked, current, frames, request, phase>>

EnterSection ==
    /\ Sweeping
    /\ pgMap[pgno] = "BusyFirst"
    /\ current' = pgAt(pgno)
    /\ UNCHANGED <<limits, mapVars, osOwned, heldVars, gcLevel, inGc, live,
                   marked, pgno, frames, request, phase>>

\* The free tree needs a page for its nodes.
AskNodePage ==
    /\ Cardinality(nodes) < MaxNodes
    /\ Enter(1, "nodes")
    /\ UNCHANGED gcVars

\* piecePutMixed, freeing a piece of the section being swept, asks for one.
NodePage == phase = "sweep" /\ current # None /\ AskNodePage

\* stoAlloc and stoFree of the client ask for one, in piecePutMixed and where
\* a piece is split or the frontier is put away.
NodeForClient == phase = "idle" /\ AskNodePage

\* Mutant of LeaveSection: a section is returned though a piece is marked.
LeaveMarked ==
    /\ phase = "sweep" /\ current # None
    /\ pgno' = pgno + sects[current]
    /\ marked' = marked \ {current}
    /\ current' = None
    /\ pgMap' = pgmapMod(pgMap, pgNo(current), sects[current], "Free")
    /\ sects' = [s \in DOMAIN sects \ {current} |-> sects[s]]
    /\ UNCHANGED <<limits, pgMapSize, pgMapAt, pgMapUses, found, osOwned,
                   nodes, gcLevel, inGc, live, frames, request, phase>>

\* Mutant of LeaveSection: only the first page of a section is returned.
LeaveOnePage ==
    /\ phase = "sweep" /\ current # None
    /\ pgno' = pgno + sects[current]
    /\ marked' = marked \ {current}
    /\ current' = None
    /\ \/ UNCHANGED <<pgMap, sects>>
       \/ /\ current \notin marked
          /\ pgMap' = pgmapMod(pgMap, pgNo(current), 1, "Free")
          /\ sects' = [s \in DOMAIN sects \ {current} |-> sects[s]]
    /\ UNCHANGED <<limits, pgMapSize, pgMapAt, pgMapUses, found, osOwned,
                   nodes, gcLevel, inGc, live, frames, request, phase>>

\* Done with the section: the marks are cleared, and the pages go back to the
\* heap if no piece was marked and the section does not hold mixedFrontier.
\* The cursor moves by the pgCount read when the section was entered.
LeaveSection ==
    /\ phase = "sweep" /\ current # None
    /\ pgno' = pgno + sects[current]
    /\ marked' = marked \ {current}
    /\ current' = None
    /\ \/ UNCHANGED <<pgMap, sects>>
       \/ /\ current \notin marked
          /\ pgMap' = pgmapMod(pgMap, pgNo(current), sects[current], "Free")
          /\ sects' = [s \in DOMAIN sects \ {current} |-> sects[s]]
    /\ UNCHANGED <<limits, pgMapSize, pgMapAt, pgMapUses, found, osOwned,
                   nodes, gcLevel, inGc, live, frames, request, phase>>

EndSweep ==
    /\ phase = "sweep" /\ current = None
    /\ pgno >= pgMapSize
    /\ inGc' = FALSE
    /\ pgno' = 0
    /\ live' = {}
    /\ phase' = IF frames = <<>> THEN "idle" ELSE "decide"
    /\ UNCHANGED <<limits, mapVars, osOwned, heldVars, gcLevel, marked, current,
                   frames, request>>

-----------------------------------------------------------------------------
(* pagesGet after the collection, and pagesAdd.                            *)

Return(rest) == frames' = rest /\ phase' = Caller

\* Is the heap to grow even if the collection freed enough?  The frugal policy
\* decides by counts of pieces, which this module does not have.
NeedsHeadroom(free) ==
    IF GcIsFrugal THEN BOOLEAN ELSE {EffNum * top.tot > EffDen * free}

nBest(addAnyway) ==
    IF addAnyway /\ GrowNum * top.tot > GrowDen * (top.tot + top.n)
    THEN Greater(((GrowNum - GrowDen) * top.tot) \div GrowDen + 1, GcMinGrowth)
    ELSE top.n

Decide ==
    /\ phase = "decide"
    /\ LET f == pgmapFindFree(top.n) IN
       \E headroom \in NeedsHeadroom(pgmapCountFree) :
       LET addAnyway == top.n > pgmapCountFree \/ headroom IN
       /\ found' = f.found
       /\ IF f.at # None
          THEN pgMap' = Granted(f.at, top.n, top.for)
               /\ Hand(pgAt(f.at), top.n, top.for)
          ELSE UNCHANGED <<pgMap, heldVars>>
       /\ IF f.at # None /\ ~addAnyway
          THEN Return(Tail(frames)) /\ UNCHANGED request
          ELSE /\ frames' = [frames EXCEPT ![1].best = nBest(addAnyway),
                                ![1].page = IF f.at = None THEN None ELSE pgAt(f.at)]
               /\ request' = [NoRequest EXCEPT
                                !.pages = Greater(nBest(addAnyway), PgGroup)]
               /\ phase' = "grow"
    /\ UNCHANGED <<limits, pgMapSize, pgMapAt, pgMapUses, osOwned, gcLevel, gcVars>>

\* Mutant of GrowRefused: the request backs off below what is needed.
GrowRefusedBelow ==
    /\ phase = "grow"
    /\ IF request.pages = 0
       THEN phase' = "retry" /\ UNCHANGED request
       ELSE /\ request' = [request EXCEPT !.pages = @ \div 2]
            /\ UNCHANGED phase
    /\ UNCHANGED <<limits, mapVars, osOwned, heldVars, gcLevel, gcVars, frames>>

\* osAlloc refuses: ask for less, until less than the least is refused.
GrowRefused ==
    /\ phase = "grow"
    /\ IF request.pages <= top.n
       THEN phase' = "retry" /\ UNCHANGED request
       ELSE /\ request' = [request EXCEPT !.pages =
                              IF @ >= 2 * top.n THEN @ \div 2 ELSE @ - 1]
            /\ UNCHANGED phase
    /\ UNCHANGED <<limits, mapVars, osOwned, heldVars, gcLevel, gcVars, frames>>

\* Mutant of AddedPages: the foreign pages between are not counted.
AddedOwnPages(side, b, e) == IF side = "middle" THEN 0 ELSE e - b

\* nRequest + nForeign: the pages the map is to describe from now on.
AddedPages(side, b, e) ==
    CASE side = "above" -> e - heapEnd
      [] side = "below" -> heapStart - b
      [] side = "middle" -> 0

\* osAlloc gives the pages b .. e - 1.  The heap limits are moved first.
GrowGranted ==
    /\ phase = "grow"
    /\ \E extra \in Slack :
       \E b \in OsPlaces(request.pages + extra, AddrMax) :
       LET got == request.pages + extra
           e == b + got
           side == IF b >= heapEnd THEN "above"
                   ELSE IF e <= heapStart THEN "below" ELSE "middle"
           added == AddedPages(side, b, e)
       IN  /\ osOwned' = osOwned \cup Pages(b, got)
           /\ heapEnd' = IF side = "above" THEN e ELSE heapEnd
           /\ heapStart' = IF side = "below" THEN b ELSE heapStart
           /\ request' = [pages |-> got, at |-> b, side |-> side, added |-> added,
                          ok |-> FALSE]
    /\ phase' = "need"
    /\ UNCHANGED <<mapVars, heldVars, gcLevel, gcVars, frames>>

\* pgmapMod at index i for n pages writes past the store of a map of this size:
\* what happens next is undefined, and the model stops there.
Overruns(i, n, uses) == i + n > uses * MapEntries

\* Move the map to the page p, and free the pages it was in.
MoveMap(p, uses) ==
    /\ pgMapAt' = p
    /\ pgMapUses' = uses
    /\ pgMap' = IF isInHeap(pgMapAt) /\ isInHeap(pgMapAt + pgMapUses - 1)
                THEN pgmapMod(pgMap, pgNo(pgMapAt), pgMapUses, "Free")
                ELSE pgMap
    /\ phase' = IF /\ isInHeap(pgMapAt) /\ isInHeap(pgMapAt + pgMapUses - 1)
                   /\ Overruns(pgNo(pgMapAt), pgMapUses, uses)
                THEN "corrupt" ELSE "put"

\* pgmapNeed: a larger map, in free pages of the heap or else from the OS.
pgmapNeed ==
    /\ phase = "need"
    /\ LET uses == pgLen(pgMapSize + request.added)
           f == pgmapFindFree(uses)
       IN  IF pgMapUses >= uses
           THEN phase' = "put" /\ UNCHANGED <<pgMap, pgMapAt, pgMapUses, found, osOwned>>
           ELSE /\ found' = f.found
                /\ \/ /\ f.at # None
                      /\ MoveMap(pgAt(f.at), uses)
                      /\ UNCHANGED osOwned
                   \/ /\ f.at = None
                      /\ \E extra \in Slack : \E p \in OsPlaces(uses + extra, MapAddrMax) :
                            /\ MoveMap(p, uses)
                            /\ osOwned' = osOwned \cup Pages(p, uses + extra)
                   \/ /\ f.at = None
                      /\ MapMayFail
                      /\ phase' = "retry"
                      /\ UNCHANGED <<pgMap, pgMapAt, pgMapUses, osOwned>>
    /\ UNCHANGED <<limits, pgMapSize, heldVars, gcLevel, gcVars, frames, request>>

\* "If heap now includes page map, indicate it."
MapMarked(map) ==
    IF isInHeap(pgMapAt) /\ isInHeap(pgMapAt + pgMapUses - 1)
    THEN pgmapMod(map, pgNo(pgMapAt), pgMapUses, "PgMap")
    ELSE map

\* pgmapExtend or, for store below the heap, pgmapSlide.
Longer ==
    LET old(i) == IF request.side = "below" THEN i - request.added ELSE i
    IN  [i \in 0 .. pgMapSize + request.added - 1 |->
            IF old(i) \in 0 .. pgMapSize - 1 THEN pgMap[old(i)] ELSE "Foreign"]

\* The map is made longer, then pagesPut of the new store, then mark the map's
\* own pages if they are now in the heap.
pagesPut ==
    /\ phase = "put"
    /\ pgMapSize' = pgMapSize + request.added
    /\ pgMap' = MapMarked(pgmapMod(Longer, pgNo(request.at), request.pages, "Free"))
    /\ request' = [request EXCEPT !.ok = TRUE]
    /\ phase' = IF Overruns(pgNo(request.at), request.pages, pgMapUses)
                THEN "corrupt" ELSE "retry"
    /\ UNCHANGED <<limits, pgMapAt, pgMapUses, found, osOwned, heldVars, gcLevel,
                   gcVars, frames>>

\* The end of pagesGet: a page found before the heap grew, a page found now, or
\* failure, which stoAlloc reports and which is fatal when the free tree needs
\* the page.
Retry ==
    /\ phase = "retry"
    /\ LET f == pgmapFindFree(top.n) IN
       IF top.page # None
       THEN Return(Tail(frames)) /\ UNCHANGED <<pgMap, found, heldVars>>
       ELSE /\ found' = f.found
            /\ IF f.at # None
               THEN /\ pgMap' = Granted(f.at, top.n, top.for)
                    /\ Hand(pgAt(f.at), top.n, top.for)
                    /\ Return(Tail(frames))
               ELSE /\ IF top.for = "nodes"
                       THEN phase' = "dead" /\ UNCHANGED frames
                       ELSE Return(Tail(frames))
                    /\ UNCHANGED <<pgMap, heldVars>>
    /\ request' = NoRequest
    /\ UNCHANGED <<limits, pgMapSize, pgMapAt, pgMapUses, osOwned, gcLevel, gcVars>>

-----------------------------------------------------------------------------
(* The client.                                                             *)

\* stoCtl(StoCtl_GcLevel, level): once the level is Never it stays so.
stoCtl(level) ==
    /\ phase = "idle"
    /\ gcLevel' = IF gcLevel # "Never" THEN level ELSE gcLevel
    /\ UNCHANGED <<limits, mapVars, osOwned, heldVars, gcVars, frames, request,
                   phase>>

Allocator ==
    \/ Collect \/ SkipPage \/ EnterSection \/ NodePage \/ LeaveSection \/ EndSweep
    \/ Decide \/ GrowRefused \/ GrowGranted \/ pgmapNeed \/ pagesPut \/ Retry

Client ==
    \/ \E n \in 1 .. MaxRequest : pagesGet(n)
    \/ NodeForClient \/ stoGc
    \/ \E level \in Levels : stoCtl(level)

Next == Allocator \/ Client
Spec == Init /\ [][Next]_vars

\* A single thread, never descheduled for ever: once in the allocator it runs on.
FairSpec == Spec /\ WF_vars(Allocator)

-----------------------------------------------------------------------------
(* Properties.                                                             *)

\* The code between which the page map is consistent.
Stable == phase \in {"idle", "sweep", "collect", "decide", "grow"}

\* Every variable has its type; a frame is a call of pagesGet in progress.
TypeOK ==
    /\ heapStart \in Nat /\ heapEnd \in Nat
    /\ pgMapSize \in Nat
    /\ pgMap \in [0 .. pgMapSize - 1 -> PgKind]
    /\ pgMapAt \in Addr /\ pgMapUses \in Nat
    /\ found \in Nat
    /\ osOwned \subseteq Addr
    /\ \A s \in DOMAIN sects : s \in Addr /\ sects[s] \in 1 .. MaxRequest
    /\ nodes \subseteq Addr
    /\ gcLevel \in GcLevels
    /\ inGc \in BOOLEAN
    /\ live \subseteq Addr /\ marked \subseteq Addr
    /\ pgno \in Nat
    /\ current \in Addr \cup {None}
    /\ Len(frames) <= 2
    /\ phase \in Phases

SectionPages(s) == Pages(s, sects[s])
Held == nodes \cup UNION {SectionPages(s) : s \in DOMAIN sects}

\* A page the map calls free can be given away: the OS gave it to the program,
\* no section or free-tree node is in it, and it is not part of the map itself
\* (pgmapMod in pagesGet, pagesPut and pgmapNeed keep this together).
FreeIsUnused ==
    Stable => \A i \in DOMAIN pgMap : pgMap[i] = "Free" =>
        /\ pgAt(i) \in osOwned
        /\ pgAt(i) \notin Held \cup MapPages

\* The sections are where the map says: sectFor, which walks back from an
\* inner page to the first, finds the section of every page in use, and a page
\* marked busy belongs to a section.
SectionsMapped ==
    Stable =>
        /\ \A s \in DOMAIN sects : \A p \in SectionPages(s) :
              /\ pgNo(p) \in DOMAIN pgMap
              /\ pgMap[pgNo(p)] = IF p = s THEN "BusyFirst" ELSE "BusyFollow"
        /\ \A i \in DOMAIN pgMap : pgMap[i] = "BusyFirst" => pgAt(i) \in DOMAIN sects
        /\ \A i \in DOMAIN pgMap : pgMap[i] = "BusyFollow" =>
              \E s \in DOMAIN sects : pgAt(i) \in SectionPages(s)

\* Between two updates the page map is exact: what it calls free is free, and
\* what it calls busy is a section where the map says it is.
MapExact == FreeIsUnused /\ SectionsMapped

\* The map describes exactly the pages between the heap limits.
MapIsWhole == heapEnd - heapStart = pgMapSize

\* pagesAdd: "The page map and heap limits are updated accordingly."  Between
\* two calls the map is whole, and no update of it is past its end.
LimitsMatchMap ==
    /\ phase = "idle" => MapIsWhole
    /\ phase # "corrupt"

\* The map fits in the pages that hold it, those pages are the program's, and
\* no section shares a page with it; the part in the heap is marked as such.
MapIsSafe ==
    /\ pgMapSize <= pgMapUses * MapEntries
    /\ Stable =>
        /\ MapPages \subseteq osOwned
        /\ MapPages \cap Held = {}
        /\ \A p \in MapPages : pgNo(p) \in DOMAIN pgMap =>
              pgMap[pgNo(p)] \in {"PgMap", "Foreign"}

\* When the OS has given pagesAdd the pages it asked for, pagesGet does not
\* fail: the new run is found, wherever the search left its cursor.  It need not
\* be if the OS has refused a larger map before, which leaves heapEnd ahead of
\* the map: the next store is then entered beyond the end of the map.
GrowthSuffices ==
    phase = "retry" /\ request.ok /\ top.page = None /\ MapIsWhole =>
        pgmapFindFree(top.n).at # None

\* A collection never returns the pages of a section with a piece in use,
\* whatever happens to the map while it is swept.
LiveSectionsKept ==
    [][\A s \in live \cap DOMAIN sects : s \in DOMAIN sects']_vars

\* Every call of pagesGet and every collection returns (or the program exits).
CallsReturn == phase # "idle" ~> phase \in {"idle", "dead", "corrupt"}

=============================================================================
