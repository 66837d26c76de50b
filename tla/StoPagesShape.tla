---------------------------- MODULE StoPagesShape ----------------------------
(***************************************************************************)
(* First part of the proofs about StoPages: facts about its operators, the *)
(* shape every reachable state has wherever osAlloc places store, and from *)
(* it that the heap limits and the page map agree.  StoPagesProofs goes on *)
(* to what the map says.                                                   *)
(***************************************************************************)
EXTENDS StoPages, TLAPS, FiniteSetTheorems, SequenceTheorems, WellFoundedInduction

USE PageConstants

-----------------------------------------------------------------------------
(* Numbers and sets of numbers.                                            *)

NatLess == {p \in Nat \X Nat : p[1] < p[2]}

\* The order of the natural numbers, as a relation.
LEMMA NatLessIs ==
    /\ IsWellFoundedOn(NatLess, Nat)
    /\ \A x, y \in Nat : <<x, y>> \in NatLess <=> x < y
  BY NatLessThanWellFounded DEF OpToRel, NatLess

\* Least, the place where a scan of the map stops, is the least element.
LEMMA LeastOf ==
    ASSUME NEW S \in SUBSET Nat, S # {}
    PROVE  Least(S) \in S /\ \A y \in S : Least(S) <= y
<1>1. PICK x \in S : \A y \in S : ~ (<<y, x>> \in NatLess)
  <2>1. IsWellFoundedOn(NatLess, Nat)
    BY NatLessIs
  <2> QED  BY <2>1, WFMin
<1>2. ASSUME NEW y \in S  PROVE x <= y
  <2>1. x \in Nat /\ y \in Nat /\ <<y, x>> \notin NatLess
    BY <1>1
  <2>2. ~ (y < x)
    BY <2>1, NatLessIs
  <2> QED  BY <2>1, <2>2
<1> QED  BY <1>2 DEF Least

\* A set of pages has a last one.
LEMMA GreatestOf ==
    ASSUME NEW m \in Nat, NEW S \in SUBSET (0 .. m), S # {}
    PROVE  \E x \in S : \A y \in S : y <= x
<1> DEFINE T == {m - x : x \in S}
<1>1. T \in SUBSET Nat /\ T # {}
  <2>1. \A x \in S : m - x \in Nat
    OBVIOUS
  <2> QED  BY <2>1
<1>2. Least(T) \in T /\ \A y \in T : Least(T) <= y
  BY <1>1, LeastOf
<1>3. PICK x \in S : Least(T) = m - x
  BY <1>2
<1>4. ASSUME NEW y \in S  PROVE y <= x
  <2>1. m - y \in T
    OBVIOUS
  <2>2. m - x <= m - y
    BY <2>1, <1>2, <1>3
  <2> QED  BY <2>2
<1> QED  BY <1>4

\* Division rounds down.
LEMMA DivFloor ==
    ASSUME NEW a \in Nat, NEW b \in Nat \ {0}
    PROVE  a \div b \in Nat /\ b * (a \div b) <= a /\ a < b * (a \div b) + b
  OBVIOUS

\* pgLen: that many pages hold a map of n entries.
LEMMA MapFits ==
    ASSUME NEW n \in Nat
    PROVE  pgLen(n) \in Nat /\ n <= pgLen(n) * MapEntries
<1> DEFINE a == n + MapEntries - 1
<1>1. a \in Nat /\ a + 1 - MapEntries = n
  OBVIOUS
<1>2. pgLen(n) = a \div MapEntries
  BY DEF pgLen
<1> HIDE DEF a
<1>3. /\ pgLen(n) \in Nat
      /\ MapEntries * pgLen(n) <= a /\ a < MapEntries * pgLen(n) + MapEntries
  BY <1>1, <1>2, DivFloor
<1>4. pgLen(n) * MapEntries = MapEntries * pgLen(n) /\ MapEntries * pgLen(n) \in Nat
  BY <1>3
<1> QED  BY <1>1, <1>3, <1>4

-----------------------------------------------------------------------------
(* The searches.                                                           *)

\* pgmapFindFree gives a run of n free pages within the map, or no page; the
\* cursor is then at the run, at 0, or where it was.
LEMMA FindFree ==
    ASSUME pgMapSize \in Nat, found \in Nat, NEW n \in Nat \ {0}
    PROVE  /\ pgmapFindFree(n).found \in Nat
           /\ pgmapFindFree(n).at \in Nat \cup {None}
           /\ pgmapFindFree(n).at = None => pgmapFindFree(n).found \in {0, found}
           /\ pgmapFindFree(n).at # None =>
                /\ pgmapFindFree(n).found = pgmapFindFree(n).at
                /\ pgmapFindFree(n).at + n <= pgMapSize
                /\ \A j \in Pages(pgmapFindFree(n).at, n) : pgMap[j] = "Free"
<1> DEFINE A == Stops(found, pgMapSize, n)
           B == Stops(0, found, n)
           S == IF A # {} THEN A ELSE B
<1>1. S \in SUBSET Nat
  BY DEF Stops, RunStarts
<1>2. S # {} => Least(S) \in Nat
  BY <1>1, LeastOf
<1>3. pgmapFindFree(n) = IF S = {} THEN [at |-> None, found |-> 0]
                         ELSE IF IsRun(Least(S), n)
                              THEN [at |-> Least(S), found |-> Least(S)]
                              ELSE [at |-> None, found |-> found]
  BY DEF pgmapFindFree
<1> HIDE DEF S
<1>4. CASE S = {}
  BY <1>3, <1>4 DEF None
<1>5. CASE S # {} /\ IsRun(Least(S), n)
  BY <1>2, <1>3, <1>5 DEF None, IsRun
<1>6. CASE S # {} /\ ~ IsRun(Least(S), n)
  BY <1>3, <1>6 DEF None
<1> QED  BY <1>4, <1>5, <1>6

\* osAlloc gives pages the program does not have; above, they are beyond
\* everything it has, and unless it gives store below it stays above the first.
LEMMA OsPlace ==
    ASSUME osOwned \subseteq Addr, NEW q \in osOwned,
           NEW n \in Nat \ {0}, NEW limit \in Nat, NEW b \in OsPlaces(n, limit)
    PROVE  /\ b \in Nat /\ b + n <= limit + 1
           /\ Pages(b, n) \cap osOwned = {}
           /\ "below" \notin Placement => \E p \in osOwned : p <= b
           /\ Placement \subseteq {"above"} => \A p \in osOwned : p < b
<1> DEFINE bottom == Least(osOwned)
           last == CHOOSE p \in osOwned : \A r \in osOwned : r <= p
<1>1. osOwned \in SUBSET Nat /\ MapAddrMax \in Nat
  BY DEF Addr, MapAddrMax
<1>2. bottom \in osOwned /\ \A r \in osOwned : bottom <= r
  BY <1>1, LeastOf
<1>3. last \in osOwned /\ \A r \in osOwned : r <= last
  <2>1. osOwned \in SUBSET (0 .. MapAddrMax)
    BY DEF Addr
  <2>2. \E p \in osOwned : \A r \in osOwned : r <= p
    BY <1>1, <2>1, GreatestOf
  <2> QED  BY <2>2
<1>4. /\ b \in Addr /\ b + n <= limit + 1
      /\ \/ "above" \in Placement /\ b \in last + 1 .. last + 1 + MaxGap
         \/ "below" \in Placement /\ b + n \in bottom - MaxGap .. bottom
         \/ "middle" \in Placement /\ Pages(b, n) \subseteq (bottom .. last) \ osOwned
  BY DEF OsPlaces
<1> HIDE DEF bottom, last
<1>5. b \in Nat
  BY <1>4 DEF Addr, MapAddrMax
<1>6. bottom \in Nat /\ last \in Nat
  BY <1>1, <1>2, <1>3
<1>7. CASE "above" \in Placement /\ b \in last + 1 .. last + 1 + MaxGap
  BY <1>1, <1>2, <1>3, <1>4, <1>5, <1>6, <1>7 DEF Pages
<1>8. CASE "below" \in Placement /\ b + n \in bottom - MaxGap .. bottom
  BY <1>1, <1>2, <1>3, <1>4, <1>5, <1>6, <1>8 DEF Pages
<1>9. CASE "middle" \in Placement /\ Pages(b, n) \subseteq (bottom .. last) \ osOwned
  <2>1. b \in Pages(b, n)
    BY <1>5 DEF Pages
  <2> QED  BY <1>1, <1>2, <1>4, <1>5, <1>6, <1>9, <2>1
<1> QED  BY <1>4, <1>7, <1>8, <1>9

\* A count of pages of the map is a number.
LEMMA CountType ==
    ASSUME NEW kinds, pgMapSize \in Nat, DOMAIN pgMap = 0 .. pgMapSize - 1
    PROVE  CountOf(kinds) \in Nat
<1>1. IsFiniteSet(0 .. pgMapSize - 1)
  BY FS_Interval
<1>2. IsFiniteSet({i \in DOMAIN pgMap : pgMap[i] \in kinds})
  BY <1>1, FS_Subset
<1> QED  BY <1>2, FS_CardinalityType DEF CountOf

-----------------------------------------------------------------------------
(* The shape of a reachable state.                                         *)

Frames == [n : 1 .. MaxRequest, for : {"section", "nodes"}, tot : Nat,
           best : Int, page : Int]
Requests == [pages : Nat, at : Int, side : Sides \cup {"none"}, added : Nat,
             ok : BOOLEAN]

\* The calls the client has made: at most one, for a section or for nodes.
Outer(fs) == Len(fs) <= 1

\* Which calls of pagesGet are in progress.  During a collection the innermost
\* one is the free tree's, unless the sweep itself has control.
Control ==
    /\ phase = "idle" => ~inGc /\ frames = <<>>
    /\ phase = "sweep" => inGc /\ Outer(frames)
    /\ phase \notin {"idle", "sweep"} =>
          /\ frames # <<>>
          /\ IF inGc THEN frames[1].for = "nodes" /\ Outer(Tail(frames))
             ELSE Outer(frames)

\* The pages by which the heap limits are ahead of the map.
Added == IF phase \in {"need", "put"} THEN request.added ELSE 0

Limits ==
    /\ heapStart \in osOwned
    /\ heapEnd - 1 \in osOwned
    /\ heapStart < heapEnd
    /\ pgMapSize + Added <= heapEnd - heapStart

\* pagesAdd is not asked for less than the innermost call needs.
Asked ==
    /\ phase = "collect" => top.best >= top.n
    /\ phase \in {"grow", "need", "put", "retry"} => request.pages >= top.n

Shape ==
    /\ heapStart \in Nat /\ heapEnd \in Nat
    /\ pgMapSize \in Nat /\ pgMap \in [0 .. pgMapSize - 1 -> PgKind]
    /\ pgMapAt \in Addr /\ pgMapUses \in Nat
    /\ found \in Nat
    /\ osOwned \subseteq Addr
    /\ frames \in Seq(Frames)
    /\ request \in Requests
    /\ phase \in Phases /\ gcLevel \in GcLevels /\ inGc \in BOOLEAN
    /\ Control
    /\ Limits
    /\ Asked

\* Changing the kind of some pages of a map.
LEMMA ModType ==
    ASSUME NEW D, NEW map \in [D -> PgKind], NEW i, NEW n, NEW kind \in PgKind
    PROVE  /\ pgmapMod(map, i, n, kind) \in [D -> PgKind]
           /\ \A j \in D : pgmapMod(map, i, n, kind)[j] =
                              IF j \in Pages(i, n) THEN kind ELSE map[j]
  BY DEF pgmapMod

\* Granting pages changes their kinds only.
LEMMA GrantedType ==
    ASSUME NEW D, pgMap \in [D -> PgKind], NEW i, NEW n, NEW for
    PROVE  Granted(i, n, for) \in [D -> PgKind]
<1>1. \A kind \in {"Node", "BusyFirst", "BusyFollow"} : kind \in PgKind
  BY DEF PgKind
<1>2. pgmapMod(pgMap, i, n, "Node") \in [D -> PgKind]
  BY <1>1, ModType
<1>3. pgmapMod(pgMap, i, 1, "BusyFirst") \in [D -> PgKind]
  BY <1>1, ModType
<1>4. pgmapMod(pgmapMod(pgMap, i, 1, "BusyFirst"), i + 1, n - 1, "BusyFollow")
         \in [D -> PgKind]
  BY <1>1, <1>3, ModType
<1> QED  BY <1>2, <1>4 DEF Granted

\* A call of pagesGet that has just begun.
LEMMA FrameType ==
    ASSUME NEW n \in 1 .. MaxRequest, NEW for \in {"section", "nodes"}
    PROVE  /\ Frame(n, for) \in Frames /\ Frame(n, for).for = for
           /\ Frame(n, for).n = n /\ Frame(n, for).best = n
  BY DEF Frame, Frames, None

\* Beginning a call.
LEMMA PushFrame ==
    ASSUME NEW S, NEW fs \in Seq(S), NEW f \in S
    PROVE  /\ <<f>> \o fs \in Seq(S)
           /\ <<f>> \o fs # <<>>
           /\ (<<f>> \o fs)[1] = f
           /\ Len(<<f>> \o fs) = Len(fs) + 1
           /\ Tail(<<f>> \o fs) = fs
  OBVIOUS

\* Changing the locals of the innermost call.
LEMMA Retop ==
    ASSUME NEW S, NEW fs \in Seq(S), fs # <<>>, NEW f \in S,
           NEW gs, gs = [fs EXCEPT ![1] = f]
    PROVE  /\ gs \in Seq(S) /\ gs # <<>> /\ gs[1] = f
           /\ Len(gs) = Len(fs) /\ Tail(gs) = Tail(fs)
           /\ \A i \in 2 .. Len(fs) : gs[i] = fs[i]
<1>1. gs \in Seq(S) /\ Len(gs) = Len(fs) /\ gs # <<>> /\ gs[1] = f
  OBVIOUS
<1>2. \A i \in 2 .. Len(fs) : gs[i] = fs[i]
  OBVIOUS
<1>3. Tail(gs) = Tail(fs)
  <2>1. Tail(gs) \in Seq(S) /\ Tail(fs) \in Seq(S)
    BY <1>1
  <2>2. Len(Tail(gs)) = Len(Tail(fs))
    BY <1>1
  <2>3. \A i \in 1 .. Len(Tail(fs)) : Tail(gs)[i] = Tail(fs)[i]
    BY <1>1, <1>2
  <2> QED  BY <2>1, <2>2, <2>3
<1> QED  BY <1>1, <1>2, <1>3

\* The first state has it.
LEMMA ShapeInit == Init => Shape
<1> SUFFICES ASSUME Init  PROVE Shape
  OBVIOUS
<1>1. AddrMax \div 2 \in Nat /\ AddrMax \div 2 <= AddrMax
  OBVIOUS
<1>2. heapStart \in Nat /\ heapStart <= AddrMax /\ heapEnd = heapStart + 1
  BY <1>1 DEF Init
<1>3. PICK s \in Slack : osOwned = Pages(heapStart, 1 + s)
  BY DEF Init
<1>4. s \in Nat /\ s <= AddrMax
  OBVIOUS
<1>5. osOwned \subseteq Addr /\ heapStart \in osOwned
  BY <1>2, <1>3, <1>4 DEF Pages, Addr, MapAddrMax
<1>6. pgMap \in [0 .. pgMapSize - 1 -> PgKind] /\ pgMapSize = 1
  BY DEF Init, PgKind
<1>7. Limits
  BY <1>2, <1>5, <1>6 DEF Limits, Init, Added
<1>8. Control
  BY DEF Control, Init, Outer
<1>9. request \in Requests
  BY DEF Init, NoRequest, Requests, None
<1>10. pgMapAt \in Addr /\ pgMapUses \in Nat /\ found \in Nat
  BY <1>5 DEF Init
<1>11. frames \in Seq(Frames) /\ phase \in Phases /\ gcLevel \in GcLevels
       /\ inGc \in BOOLEAN
  BY EmptySeq DEF Init, Phases, GcLevels
<1> QED
  BY <1>2, <1>5, <1>6, <1>7, <1>8, <1>9, <1>10, <1>11 DEF Shape, Asked, Init

\* Entering pagesGet, from the client or from the sweep.
LEMMA ShapeEnter ==
    ASSUME Shape, NEW n \in 1 .. MaxRequest, NEW for \in {"section", "nodes"},
           Enter(n, for), inGc' = inGc,
           phase = "idle" \/ (for = "nodes" /\ phase = "sweep")
    PROVE  Shape'
<1> DEFINE f == pgmapFindFree(n)
<1>1. n \in Nat \ {0} /\ f.found \in Nat
  BY FindFree DEF Shape
<1>2. UNCHANGED <<limits, pgMapSize, pgMapAt, pgMapUses, osOwned, gcLevel, request>>
      /\ found' = f.found
  BY DEF Enter
<1> HIDE DEF f
<1>3. CASE f.at # None
  <2>1. pgMap' = Granted(f.at, n, for) /\ UNCHANGED <<frames, phase>>
    BY <1>3 DEF Enter, f
  <2>2. pgMap' \in [0 .. pgMapSize - 1 -> PgKind]
    BY <2>1, GrantedType DEF Shape
  <2>3. Control' /\ Limits' /\ Asked'
    BY <1>2, <2>1 DEF Shape, Control, Outer, Limits, Added, Asked, limits
  <2> QED  BY <1>1, <1>2, <2>1, <2>2, <2>3 DEF Shape, limits
<1>4. CASE f.at = None
  <2>1. frames' = <<Frame(n, for)>> \o frames /\ phase' = "collect" /\ pgMap' = pgMap
    BY <1>4 DEF Enter, f
  <2>2. /\ frames' \in Seq(Frames) /\ frames' # <<>>
        /\ frames'[1].for = for /\ Len(frames') = Len(frames) + 1
        /\ Tail(frames') = frames
    BY <2>1, FrameType, PushFrame DEF Shape
  <2>3. Control'
    <3>1. CASE phase = "idle"
      <4>1. ~inGc' /\ Len(frames') = 1
        BY <3>1, <2>2 DEF Shape, Control
      <4> QED  BY <2>1, <2>2, <4>1 DEF Control, Outer
    <3>2. CASE phase = "sweep"
      <4>1. inGc' /\ for = "nodes" /\ Outer(Tail(frames'))
        BY <3>2, <2>2 DEF Shape, Control
      <4> QED  BY <2>1, <2>2, <3>2, <4>1 DEF Control, Outer
    <3> QED  BY <3>1, <3>2
  <2>4. Limits' /\ Asked'
    <3>1. top' = Frame(n, for)
      BY <2>1, FrameType, PushFrame DEF Shape, top
    <3>2. top'.best >= top'.n
      BY <3>1, FrameType
    <3> QED  BY <1>2, <2>1, <3>2 DEF Shape, Limits, Added, Asked, limits
  <2> QED  BY <1>1, <1>2, <2>1, <2>2, <2>3, <2>4 DEF Shape, limits, Phases
<1> QED  BY <1>3, <1>4

\* Returning from the innermost pagesGet.
LEMMA ControlReturn ==
    ASSUME Shape, phase \notin {"idle", "sweep"}, inGc' = inGc,
           Return(Tail(frames))
    PROVE  Control' /\ frames' \in Seq(Frames) /\ phase' \in {"idle", "sweep"}
<1>1. frames # <<>> /\ Tail(frames) \in Seq(Frames)
      /\ Len(Tail(frames)) = Len(frames) - 1
  BY DEF Shape, Control
<1>2. CASE inGc
  BY <1>1, <1>2 DEF Shape, Control, Return, Caller, Outer
<1>3. CASE ~inGc
  <2>1. Len(Tail(frames)) = 0
    BY <1>1, <1>3 DEF Shape, Control, Outer
  <2>2. Tail(frames) = <<>>
    BY <1>1, <2>1, EmptySeq
  <2> QED  BY <1>1, <1>3, <2>2 DEF Shape, Control, Return, Caller, Outer
<1> QED  BY <1>2, <1>3 DEF Shape

\* Beginning a sweep; the calls in progress keep who they are for.
LEMMA ControlSweep ==
    ASSUME Shape, ~inGc, BeginSweep, Outer(frames')
    PROVE  Control'
  BY DEF BeginSweep, Control

\* The innermost call of pagesGet.
LEMMA TopType ==
    ASSUME Shape, phase \notin {"idle", "sweep"}
    PROVE  top \in Frames /\ top.n \in Nat \ {0}
<1>1. frames # <<>> /\ frames \in Seq(Frames)
  BY DEF Shape, Control
<1>2. frames[1] \in Frames
  BY <1>1
<1> QED  BY <1>2 DEF top, Frames

\* Asking for another number of pages.
LEMMA AskedType ==
    ASSUME NEW r \in Requests, NEW g \in Nat
    PROVE  /\ [r EXCEPT !.pages = g] \in Requests
           /\ [r EXCEPT !.pages = g].pages = g
           /\ [r EXCEPT !.pages = g].ok = r.ok
  BY DEF Requests

\* No call of pagesAdd.
LEMMA NoRequestType == NoRequest \in Requests /\ NoRequest.ok = FALSE
  BY DEF NoRequest, Requests, None

\* What the heap is asked to grow by is a number.
LEMMA AskType ==
    ASSUME NEW n \in Int
    PROVE  /\ Greater(n, PgGroup) \in Nat \ {0} /\ Greater(n, PgGroup) >= n
           /\ [NoRequest EXCEPT !.pages = Greater(n, PgGroup)] \in Requests
           /\ [NoRequest EXCEPT !.pages = Greater(n, PgGroup)].pages >= n
<1>1. Greater(n, PgGroup) \in Nat \ {0} /\ Greater(n, PgGroup) >= n
  BY DEF Greater
<1> QED  BY <1>1, NoRequestType, AskedType

\* A heap that is to grow grows by no less than the innermost call needs.
LEMMA nBestType ==
    ASSUME Shape, phase \notin {"idle", "sweep"}, NEW any
    PROVE  nBest(any) \in Int /\ nBest(any) >= top.n
<1> DEFINE t == top.tot
           n == top.n
           d == (GrowNum - GrowDen) * t
           q == d \div GrowDen
<1>1. t \in Nat /\ n \in Nat
  BY TopType DEF Frames
<1>2. d \in Int /\ q \in Int
  BY <1>1
<1>3. CASE GrowNum * t > GrowDen * (t + n)
  <2>1. d = GrowNum * t - GrowDen * t /\ GrowDen * (t + n) = GrowDen * t + GrowDen * n
    BY <1>1
  <2>2. GrowNum * t \in Int /\ GrowDen * t \in Int /\ GrowDen * n \in Nat
    BY <1>1
  <2>3. d > GrowDen * n /\ d \in Nat
    BY <1>2, <1>3, <2>1, <2>2
  <2> HIDE DEF d, t, n
  <2>4. GrowDen * q + GrowDen > d /\ q \in Nat
    BY <2>3, DivFloor
  <2>5. GrowDen * (q + 1) > GrowDen * n
    BY <1>2, <2>2, <2>3, <2>4
  <2>6. q + 1 > n
    BY <1>1, <2>4, <2>5
  <2> QED  BY <1>1, <2>4, <2>6 DEF nBest, Greater, d, t, n
<1>4. CASE ~ (GrowNum * t > GrowDen * (t + n))
  BY <1>1, <1>4 DEF nBest
<1> QED  BY <1>3, <1>4

\* The collection that pagesGet starts keeps the shape.
LEMMA ShapeCollect == ASSUME Shape, Collect  PROVE Shape'
<1>1. phase = "collect" /\ frames # <<>> /\ frames \in Seq(Frames)
  BY DEF Shape, Collect, Control
<1>2. UNCHANGED <<limits, mapVars, osOwned, gcLevel>>
  BY DEF Collect
<1>3. CASE gcLevel # "Automatic"
  <2>1. UNCHANGED <<inGc, frames>> /\ phase' = "grow"
        /\ request' = [NoRequest EXCEPT !.pages = Greater(top.best, PgGroup)]
    BY <1>3 DEF Collect, gcVars
  <2>2. top.best \in Int /\ top.n \in Nat /\ top' = top
    BY <1>1, <2>1, TopType DEF Frames, top
  <2>3. request' \in Requests /\ request'.pages >= top.best
    BY <2>1, <2>2, AskType, AskedType, NoRequestType
  <2>4. Control'
    BY <1>1, <2>1 DEF Shape, Control
  <2>5. Limits'
    BY <1>1, <1>2, <2>1 DEF Shape, Limits, Added, limits, mapVars
  <2>6. request'.pages \in Nat /\ top.best >= top.n
    BY <1>1, <2>3 DEF Requests, Shape, Asked
  <2>7. Asked'
    BY <2>1, <2>2, <2>3, <2>6 DEF Asked
  <2> QED  BY <1>2, <2>1, <2>3, <2>4, <2>5, <2>7 DEF Shape, Phases, limits, mapVars
<1>4. CASE gcLevel = "Automatic"
  <2> DEFINE t == [top EXCEPT !.tot = pgmapCountDomestic]
  <2>1. frames' = [frames EXCEPT ![1] = t] /\ request' = request
    BY <1>1, <1>4 DEF Collect, top
  <2>2. t \in Frames /\ t.for = top.for
    <3>1. pgmapCountDomestic \in Nat
      BY CountType DEF pgmapCountDomestic, Shape
    <3> QED  BY <1>1, <3>1, TopType DEF Frames
  <2> HIDE DEF t
  <2>3. /\ frames' \in Seq(Frames) /\ frames' # <<>> /\ frames'[1].for = frames[1].for
        /\ Tail(frames') = Tail(frames) /\ Len(frames') = Len(frames)
        /\ \A i \in 2 .. Len(frames) : frames'[i] = frames[i]
    BY <1>1, <2>1, <2>2, Retop DEF top
  <2>4. Outer(frames) => Outer(frames')
    BY <1>1, <2>3 DEF Outer
  <2>5. phase' \in {"sweep", "decide"} /\ inGc' \in BOOLEAN /\ Control'
    BY <1>1, <1>4, <2>3, <2>4 DEF Collect, BeginSweep, Shape, Control, gcVars
  <2>6. Limits' /\ Asked'
    BY <1>1, <1>2, <2>5 DEF Shape, Limits, Added, Asked, limits, mapVars
  <2> QED  BY <1>2, <2>1, <2>3, <2>5, <2>6 DEF Shape, Phases, limits, mapVars
<1> QED  BY <1>3, <1>4

\* So do the steps of the sweep, the client's collection and its choice of level.
LEMMA ShapeSweep ==
    ASSUME Shape, SkipPage \/ EnterSection \/ LeaveSection \/ EndSweep \/ stoGc
                  \/ \E level \in Levels : stoCtl(level)
    PROVE  Shape'
<1>1. UNCHANGED <<limits, pgMapSize, pgMapAt, pgMapUses, found, osOwned, frames, request>>
      /\ phase \in {"idle", "sweep"} /\ phase' \in {"idle", "sweep", "decide"}
  BY DEF SkipPage, EnterSection, Sweeping, LeaveSection, EndSweep, stoGc, stoCtl, BeginSweep,
         mapVars
<1>2. pgMap' \in [0 .. pgMapSize - 1 -> PgKind]
  <2>1. CASE LeaveSection
    <3>1. "Free" \in PgKind
      BY DEF PgKind
    <3>2. pgmapMod(pgMap, pgNo(current), sects[current], "Free")
             \in [0 .. pgMapSize - 1 -> PgKind]
      BY <3>1, ModType DEF Shape
    <3> QED  BY <2>1, <3>2 DEF LeaveSection, Shape
  <2>2. CASE ~ LeaveSection
    BY <2>2 DEF SkipPage, EnterSection, EndSweep, stoGc, stoCtl, mapVars, Shape
  <2> QED  BY <2>1, <2>2
<1>3. gcLevel' \in GcLevels /\ inGc' \in BOOLEAN
  BY DEF SkipPage, EnterSection, LeaveSection, EndSweep, stoGc, stoCtl, BeginSweep, Shape,
         gcVars
<1>4. Control'
  <2>1. CASE SkipPage \/ EnterSection \/ LeaveSection
    BY <2>1 DEF SkipPage, EnterSection, Sweeping, LeaveSection, Shape, Control, Outer
  <2>2. CASE EndSweep
    BY <2>2 DEF EndSweep, Shape, Control, Outer
  <2>3. CASE stoGc
    BY <2>3 DEF stoGc, BeginSweep, Shape, Control, Outer
  <2>4. CASE \E level \in Levels : stoCtl(level)
    BY <2>4 DEF stoCtl, gcVars, Shape, Control, Outer
  <2> QED  BY <2>1, <2>2, <2>3, <2>4
<1>5. Limits' /\ Asked'
  BY <1>1 DEF Shape, Limits, Added, Asked, limits
<1> QED  BY <1>1, <1>2, <1>3, <1>4, <1>5 DEF Shape, Phases, limits

\* The search after the collection keeps the shape.
LEMMA ShapeDecide == ASSUME Shape, Decide  PROVE Shape'
<1> DEFINE f == pgmapFindFree(top.n)
<1>1. /\ phase = "decide" /\ frames # <<>> /\ frames \in Seq(Frames)
      /\ top \in Frames /\ top.n \in Nat \ {0} /\ inGc' = inGc
      /\ UNCHANGED <<limits, pgMapSize, pgMapAt, pgMapUses, osOwned, gcLevel>>
  BY TopType DEF Shape, Decide, Control, gcVars
<1>2. f.found \in Nat /\ f.at \in Int
  BY <1>1, FindFree DEF Shape, None
<1> HIDE DEF f
<1>3. PICK any :
         /\ found' = f.found
         /\ IF f.at # None
            THEN pgMap' = Granted(f.at, top.n, top.for)
            ELSE pgMap' = pgMap
         /\ \/ Return(Tail(frames)) /\ request' = request
            \/ /\ frames' = [frames EXCEPT ![1].best = nBest(any),
                                ![1].page = IF f.at = None THEN None ELSE pgAt(f.at)]
               /\ request' = [NoRequest EXCEPT !.pages = Greater(nBest(any), PgGroup)]
               /\ phase' = "grow"
  BY DEF Decide, f
<1>4. pgMap' \in [0 .. pgMapSize - 1 -> PgKind]
  <2>1. pgMap \in [0 .. pgMapSize - 1 -> PgKind]
    BY DEF Shape
  <2>2. Granted(f.at, top.n, top.for) \in [0 .. pgMapSize - 1 -> PgKind]
    BY <2>1, GrantedType
  <2> QED  BY <1>3, <2>1, <2>2
<1>5. CASE Return(Tail(frames)) /\ request' = request
  <2>1. Control' /\ frames' \in Seq(Frames) /\ phase' \in {"idle", "sweep"}
    BY <1>1, <1>5, ControlReturn
  <2>2. Limits' /\ Asked'
    BY <1>1, <2>1 DEF Shape, Limits, Added, Asked, limits
  <2> QED  BY <1>1, <1>2, <1>3, <1>4, <1>5, <2>1, <2>2 DEF Shape, Phases, limits
<1>6. CASE ~ (Return(Tail(frames)) /\ request' = request)
  <2> DEFINE page == IF f.at = None THEN None ELSE pgAt(f.at)
             t == [top EXCEPT !.best = nBest(any), !.page = page]
  <2>1. /\ frames' = [frames EXCEPT ![1] = t]
        /\ request' = [NoRequest EXCEPT !.pages = Greater(nBest(any), PgGroup)]
        /\ phase' = "grow"
    BY <1>1, <1>3, <1>6 DEF top
  <2>2. t \in Frames /\ t.for = top.for /\ t.n = top.n
    <3>1. page \in Int /\ nBest(any) \in Int
      BY <1>1, <1>2, nBestType DEF None, pgAt, Shape
    <3> HIDE DEF page
    <3> QED  BY <1>1, <3>1 DEF Frames
  <2> HIDE DEF t
  <2>3. /\ frames' \in Seq(Frames) /\ frames' # <<>> /\ frames'[1] = t
        /\ Tail(frames') = Tail(frames) /\ Len(frames') = Len(frames)
        /\ \A i \in 2 .. Len(frames) : frames'[i] = frames[i]
    <3> PICK fs, gs : fs = frames /\ gs = frames'
      OBVIOUS
    <3>1. fs \in Seq(Frames) /\ fs # <<>> /\ t \in Frames /\ gs = [fs EXCEPT ![1] = t]
      BY <1>1, <2>1, <2>2
    <3>2. /\ gs \in Seq(Frames) /\ gs # <<>> /\ gs[1] = t
          /\ Len(gs) = Len(fs) /\ Tail(gs) = Tail(fs)
          /\ \A i \in 2 .. Len(fs) : gs[i] = fs[i]
      BY <3>1, Retop
    <3> QED  BY <3>2
  <2>4. Outer(frames) => Outer(frames')
    BY <1>1, <2>2, <2>3 DEF Outer, top
  <2>5. Control'
    BY <1>1, <2>1, <2>2, <2>3, <2>4 DEF Shape, Control, top
  <2>6. request' \in Requests /\ request'.pages >= top.n
    <3>1. nBest(any) \in Int /\ nBest(any) >= top.n
      BY <1>1, nBestType
    <3>2. request' \in Requests /\ request'.pages >= nBest(any) /\ request'.pages \in Int
      BY <2>1, <3>1, AskType DEF Requests
    <3> QED  BY <1>1, <3>1, <3>2
  <2>7. Asked'
    BY <2>1, <2>2, <2>3, <2>6 DEF Asked, top
  <2>8. Limits'
    BY <1>1, <2>1 DEF Shape, Limits, Added, limits
  <2> QED  BY <1>1, <1>2, <1>3, <1>4, <2>1, <2>3, <2>5, <2>6, <2>7, <2>8
           DEF Shape, Phases, limits
<1> QED  BY <1>5, <1>6

\* So does a refusal by osAlloc.
LEMMA ShapeRefused == ASSUME Shape, GrowRefused  PROVE Shape'
<1>1. /\ phase = "grow" /\ top.n \in Nat \ {0} /\ request \in Requests
      /\ request.pages \in Nat /\ request.pages >= top.n
  BY TopType DEF Shape, GrowRefused, Asked, Requests
<1>2. UNCHANGED <<limits, mapVars, osOwned, gcLevel, inGc, frames>>
      /\ phase' \in {"grow", "retry"}
  BY <1>1 DEF GrowRefused, gcVars
<1>3. request' \in Requests /\ request'.pages >= top.n
  <2> DEFINE p == IF request.pages >= 2 * top.n THEN request.pages \div 2
                  ELSE request.pages - 1
  <2>1. CASE request.pages <= top.n
    BY <1>1, <2>1 DEF GrowRefused
  <2>2. CASE ~ (request.pages <= top.n)
    <3>1. request' = [request EXCEPT !.pages = p]
      BY <2>2 DEF GrowRefused
    <3>2. p \in Nat /\ p >= top.n
      BY <1>1, <2>2
    <3> HIDE DEF p
    <3> QED  BY <1>1, <3>1, <3>2, AskedType
  <2> QED  BY <2>1, <2>2
<1>4. Control' /\ Limits'
  BY <1>1, <1>2 DEF Shape, Control, Limits, Added, Outer, limits, mapVars
<1>5. Asked'
  BY <1>2, <1>3 DEF Asked, top
<1> QED  BY <1>2, <1>3, <1>4, <1>5 DEF Shape, Phases, limits, mapVars

\* What GrowGranted does with the store it is given: whatever side of the heap
\* it is on, the limits afterwards are at pages the program has, and they move
\* apart by the pages to be added to the map.
LEMMA Granting ==
    ASSUME Shape, GrowGranted
    PROVE  \E got \in Nat \ {0}, b \in Nat, side \in Sides, added \in Nat :
              /\ got >= request.pages
              /\ b \in OsPlaces(got, AddrMax)
              /\ b + got <= AddrMax + 1 /\ Pages(b, got) \cap osOwned = {}
              /\ side = IF b >= heapEnd THEN "above"
                        ELSE IF b + got <= heapStart THEN "below" ELSE "middle"
              /\ osOwned' = osOwned \cup Pages(b, got)
              /\ heapEnd' = IF side = "above" THEN b + got ELSE heapEnd
              /\ heapStart' = IF side = "below" THEN b ELSE heapStart
              /\ heapEnd' \in Nat /\ heapStart' \in Nat
              /\ request' = [pages |-> got, at |-> b, side |-> side,
                             added |-> added, ok |-> FALSE]
              /\ heapEnd' - heapStart' = heapEnd - heapStart + added
              /\ heapStart' <= b /\ b + got <= heapEnd'
              /\ side = "above" => added = b + got - heapEnd
<1>1. /\ phase = "grow" /\ top.n \in Nat \ {0}
      /\ request.pages \in Nat /\ request.pages >= top.n
  BY TopType DEF Shape, GrowGranted, Asked, Requests
<1>2. PICK extra \in Slack, b \in Addr :
         LET got == request.pages + extra
             e == b + got
             side == IF b >= heapEnd THEN "above"
                     ELSE IF e <= heapStart THEN "below" ELSE "middle"
             added == AddedPages(side, b, e)
         IN  /\ b \in OsPlaces(request.pages + extra, AddrMax)
             /\ osOwned' = osOwned \cup Pages(b, got)
             /\ heapEnd' = IF side = "above" THEN e ELSE heapEnd
             /\ heapStart' = IF side = "below" THEN b ELSE heapStart
             /\ request' = [pages |-> got, at |-> b, side |-> side, added |-> added,
                            ok |-> FALSE]
  BY DEF GrowGranted, OsPlaces
<1> DEFINE got == request.pages + extra
           side == IF b >= heapEnd THEN "above"
                   ELSE IF b + got <= heapStart THEN "below" ELSE "middle"
           added == AddedPages(side, b, b + got)
<1>3. got \in Nat \ {0} /\ got >= request.pages
  BY <1>1
<1>4. /\ osOwned' = osOwned \cup Pages(b, got)
      /\ heapEnd' = IF side = "above" THEN b + got ELSE heapEnd
      /\ heapStart' = IF side = "below" THEN b ELSE heapStart
      /\ request' = [pages |-> got, at |-> b, side |-> side, added |-> added, ok |-> FALSE]
      /\ b \in OsPlaces(got, AddrMax)
  BY <1>2
<1> HIDE DEF got
<1>5. /\ heapStart \in Nat /\ heapEnd \in Nat /\ heapStart < heapEnd
      /\ heapStart \in osOwned /\ heapEnd - 1 \in osOwned /\ osOwned \subseteq Addr
  BY DEF Shape, Limits
<1>6. b \in Nat /\ b + got <= AddrMax + 1 /\ Pages(b, got) \cap osOwned = {}
  BY <1>3, <1>4, <1>5, OsPlace
<1>7. b < heapEnd => b + got < heapEnd
  <2>1. b < heapEnd /\ b + got >= heapEnd => heapEnd - 1 \in Pages(b, got)
    BY <1>3, <1>5, <1>6 DEF Pages
  <2> QED  BY <1>3, <1>5, <1>6, <2>1
<1>8. b + got > heapStart => heapStart < b
  <2>1. heapStart < b + got /\ b <= heapStart => heapStart \in Pages(b, got)
    BY <1>3, <1>5, <1>6 DEF Pages
  <2> QED  BY <1>3, <1>5, <1>6, <2>1
<1>9. side \in Sides
  BY DEF Sides
<1>10. /\ added \in Nat /\ heapEnd' - heapStart' = heapEnd - heapStart + added
       /\ heapStart' <= b /\ b + got <= heapEnd'
       /\ side = "above" => added = b + got - heapEnd
       /\ heapEnd' \in Nat /\ heapStart' \in Nat
  <2>1. CASE b >= heapEnd
    BY <1>3, <1>4, <1>5, <1>6, <2>1 DEF AddedPages
  <2>2. CASE b < heapEnd /\ b + got <= heapStart
    BY <1>3, <1>4, <1>5, <1>6, <2>2 DEF AddedPages
  <2>3. CASE b < heapEnd /\ b + got > heapStart
    BY <1>3, <1>4, <1>5, <1>6, <1>7, <1>8, <2>3 DEF AddedPages
  <2> QED  BY <1>3, <1>5, <1>6, <2>1, <2>2, <2>3
<1> HIDE DEF side, added
<1>11. side = IF b >= heapEnd THEN "above"
              ELSE IF b + got <= heapStart THEN "below" ELSE "middle"
  BY DEF side
<1> QED  BY <1>3, <1>4, <1>6, <1>9, <1>10, <1>11

\* Growing the heap keeps the shape.
LEMMA ShapeGranted == ASSUME Shape, GrowGranted  PROVE Shape'
<1>1. PICK got \in Nat \ {0}, b \in Nat, side \in Sides, added \in Nat :
         /\ got >= request.pages
         /\ b + got <= AddrMax + 1
         /\ osOwned' = osOwned \cup Pages(b, got)
         /\ heapEnd' = IF side = "above" THEN b + got ELSE heapEnd
         /\ heapStart' = IF side = "below" THEN b ELSE heapStart
         /\ heapEnd' \in Nat /\ heapStart' \in Nat
         /\ request' = [pages |-> got, at |-> b, side |-> side,
                        added |-> added, ok |-> FALSE]
         /\ heapEnd' - heapStart' = heapEnd - heapStart + added
  BY Granting
<1>2. /\ phase = "grow" /\ phase' = "need" /\ inGc' = inGc
      /\ UNCHANGED <<mapVars, gcLevel, frames>>
  BY DEF GrowGranted, gcVars
<1>3. /\ heapStart \in Nat /\ heapEnd \in Nat /\ heapStart < heapEnd
      /\ heapStart \in osOwned /\ heapEnd - 1 \in osOwned /\ osOwned \subseteq Addr
      /\ pgMapSize \in Nat /\ pgMapSize <= heapEnd - heapStart
  BY <1>2 DEF Shape, Limits, Added
<1>4. osOwned' \subseteq Addr /\ b \in osOwned' /\ b + got - 1 \in osOwned'
  BY <1>1, <1>3 DEF Pages, Addr, MapAddrMax
<1>5. request' \in Requests /\ request'.pages = got /\ request'.added = added
  BY <1>1 DEF Requests
<1>6. Limits'
  BY <1>1, <1>2, <1>3, <1>4, <1>5 DEF Limits, Added, mapVars
<1>7. top.n \in Nat /\ request.pages \in Nat /\ request.pages >= top.n
  BY <1>2, TopType DEF Shape, Asked, Requests
<1>8. Asked'
  BY <1>1, <1>2, <1>5, <1>7 DEF Asked, top
<1>9. Control'
  BY <1>2 DEF Shape, Control
<1> QED  BY <1>1, <1>2, <1>4, <1>5, <1>6, <1>8, <1>9 DEF Shape, Phases, mapVars

\* Where pgmapNeed puts a larger map: in free pages of the heap, or in store the
\* program did not have.
LEMMA Needing ==
    ASSUME Shape, pgmapNeed
    PROVE  LET uses == pgLen(pgMapSize + request.added) IN
           /\ uses \in Nat /\ pgMapSize + request.added <= uses * MapEntries
           /\ found' \in Nat /\ found' \in {found, pgmapFindFree(uses).found}
           /\ \/ /\ pgMapUses >= uses /\ phase' = "put"
                 /\ UNCHANGED <<pgMap, pgMapAt, pgMapUses, osOwned, found>>
              \/ /\ uses > pgMapUses
                 /\ \E p \in Addr :
                      /\ MoveMap(p, uses)
                      /\ heapStart <= p /\ p + uses <= heapStart + pgMapSize
                      /\ \A i \in Pages(pgNo(p), uses) : pgMap[i] = "Free"
                 /\ osOwned' = osOwned
              \/ /\ uses > pgMapUses
                 /\ \E p \in Addr, n \in Nat :
                      /\ MoveMap(p, uses)
                      /\ n >= uses /\ p \in OsPlaces(n, MapAddrMax)
                      /\ p + n <= MapAddrMax + 1 /\ Pages(p, n) \cap osOwned = {}
                      /\ osOwned' = osOwned \cup Pages(p, n)
                 /\ found' = pgmapFindFree(uses).found
                 /\ pgmapFindFree(uses).at = None
              \/ /\ MapMayFail /\ phase' = "retry"
                 /\ UNCHANGED <<pgMap, pgMapAt, pgMapUses, osOwned>>
<1> DEFINE uses == pgLen(pgMapSize + request.added)
           f == pgmapFindFree(uses)
<1>1. /\ pgMapSize \in Nat /\ pgMapUses \in Nat /\ request.added \in Nat /\ found \in Nat
      /\ heapStart \in Nat /\ heapEnd \in Nat /\ osOwned \subseteq Addr
      /\ heapStart \in osOwned /\ heapEnd - 1 \in osOwned
      /\ pgMapSize + request.added <= heapEnd - heapStart
  BY DEF Shape, Requests, Limits, Added, pgmapNeed
<1>2. uses \in Nat /\ pgMapSize + request.added <= uses * MapEntries
  BY <1>1, MapFits
<1>3. \/ /\ pgMapUses >= uses /\ phase' = "put"
         /\ UNCHANGED <<pgMap, pgMapAt, pgMapUses, osOwned, found>>
      \/ /\ ~ (pgMapUses >= uses)
         /\ found' = f.found
         /\ \/ f.at # None /\ MoveMap(pgAt(f.at), uses) /\ osOwned' = osOwned
            \/ /\ f.at = None
               /\ \E extra \in Slack : \E p \in OsPlaces(uses + extra, MapAddrMax) :
                     MoveMap(p, uses) /\ osOwned' = osOwned \cup Pages(p, uses + extra)
            \/ /\ MapMayFail /\ phase' = "retry"
               /\ UNCHANGED <<pgMap, pgMapAt, pgMapUses, osOwned>>
  BY DEF pgmapNeed
<1> HIDE DEF uses
<1>4. CASE pgMapUses >= uses
  BY <1>1, <1>2, <1>3, <1>4 DEF uses
<1>5. CASE ~ (pgMapUses >= uses)
  <2>1. uses \in Nat \ {0} /\ uses > pgMapUses
    BY <1>1, <1>2, <1>5
  <2>2. /\ f.found \in Nat /\ f.at \in Nat \cup {None} /\ found' = f.found
        /\ f.at # None =>
             f.at + uses <= pgMapSize /\ \A j \in Pages(f.at, uses) : pgMap[j] = "Free"
    BY <1>1, <1>3, <1>5, <2>1, FindFree
  <2> HIDE DEF f
  <2>3. CASE f.at # None /\ MoveMap(pgAt(f.at), uses) /\ osOwned' = osOwned
    <3> DEFINE p == pgAt(f.at)
    <3>1. f.at \in Nat /\ p = heapStart + f.at /\ pgNo(p) = f.at
      BY <1>1, <2>2, <2>3 DEF pgAt, pgNo
    <3>2. p \in Nat /\ heapStart <= p /\ p + uses <= heapStart + pgMapSize
      BY <1>1, <2>1, <2>2, <2>3, <3>1
    <3>3. p <= heapEnd - 1 /\ heapEnd - 1 \in Addr
      BY <1>1, <2>1, <3>2
    <3>4. p \in Addr
      BY <3>2, <3>3 DEF Addr, MapAddrMax
    <3> QED  BY <1>2, <2>1, <2>2, <2>3, <3>1, <3>2, <3>4 DEF uses, f
  <2>4. ASSUME NEW extra \in Slack, NEW p \in OsPlaces(uses + extra, MapAddrMax),
               MoveMap(p, uses), osOwned' = osOwned \cup Pages(p, uses + extra),
               f.at = None
        PROVE  \E q \in Addr, n \in Nat :
                  /\ MoveMap(q, uses)
                  /\ n >= uses /\ q \in OsPlaces(n, MapAddrMax)
                  /\ q + n <= MapAddrMax + 1 /\ Pages(q, n) \cap osOwned = {}
                  /\ osOwned' = osOwned \cup Pages(q, n)
    <3>1. uses + extra \in Nat \ {0} /\ uses + extra >= uses /\ MapAddrMax \in Nat
      BY <2>1 DEF MapAddrMax
    <3>2. p \in Nat /\ p + (uses + extra) <= MapAddrMax + 1
          /\ Pages(p, uses + extra) \cap osOwned = {}
      BY <1>1, <3>1, OsPlace
    <3>3. p \in Addr
      BY <3>1, <3>2 DEF Addr
    <3> QED  BY <2>4, <3>1, <3>2, <3>3
  <2> QED  BY <1>2, <1>3, <1>5, <2>1, <2>2, <2>3, <2>4 DEF uses, f
<1> QED  BY <1>4, <1>5

\* Making room for a larger map keeps the shape.
LEMMA ShapeNeed == ASSUME Shape, pgmapNeed  PROVE Shape'
<1> DEFINE uses == pgLen(pgMapSize + request.added)
<1>1. /\ phase = "need" /\ inGc' = inGc
      /\ UNCHANGED <<limits, pgMapSize, gcLevel, frames, request>>
  BY DEF pgmapNeed, gcVars
<1>2. uses \in Nat /\ found' \in Nat
  BY Needing
<1>3. /\ phase' \in {"put", "retry", "corrupt"} /\ pgMapUses' \in Nat /\ pgMapAt' \in Addr
      /\ pgMap' \in [0 .. pgMapSize - 1 -> PgKind]
      /\ osOwned \subseteq osOwned' /\ osOwned' \subseteq Addr
  <2>1. /\ pgMapAt \in Addr /\ pgMapUses \in Nat /\ osOwned \subseteq Addr
        /\ pgMap \in [0 .. pgMapSize - 1 -> PgKind]
    BY DEF Shape
  <2>2. ASSUME NEW p \in Addr, MoveMap(p, uses)
        PROVE  /\ pgMapAt' \in Addr /\ pgMapUses' \in Nat
               /\ phase' \in {"put", "corrupt"}
               /\ pgMap' \in [0 .. pgMapSize - 1 -> PgKind]
    <3>1. "Free" \in PgKind
      BY DEF PgKind
    <3>2. pgmapMod(pgMap, pgNo(pgMapAt), pgMapUses, "Free") \in [0 .. pgMapSize - 1 -> PgKind]
      BY <2>1, <3>1, ModType
    <3> QED  BY <1>2, <2>1, <2>2, <3>2 DEF MoveMap
  <2>3. ASSUME NEW p \in Addr, NEW n \in Nat, p + n <= MapAddrMax + 1
        PROVE  Pages(p, n) \subseteq Addr
    BY <2>3 DEF Pages, Addr, MapAddrMax
  <2> HIDE DEF uses
  <2>4. \/ /\ phase' \in {"put", "retry"}
           /\ UNCHANGED <<pgMap, pgMapAt, pgMapUses, osOwned>>
        \/ (\E p \in Addr : MoveMap(p, uses)) /\ osOwned' = osOwned
        \/ \E p \in Addr, n \in Nat : /\ MoveMap(p, uses) /\ p + n <= MapAddrMax + 1
                                     /\ osOwned' = osOwned \cup Pages(p, n)
    BY Needing DEF uses
  <2> QED  BY <2>1, <2>2, <2>3, <2>4
<1>4. /\ pgMapSize \in Nat /\ heapStart \in Nat /\ heapEnd \in Nat /\ request.added \in Nat
      /\ heapStart \in osOwned /\ heapEnd - 1 \in osOwned /\ heapStart < heapEnd
      /\ pgMapSize + request.added <= heapEnd - heapStart
  BY <1>1 DEF Shape, Limits, Added, Requests
<1>5. Limits'
  BY <1>1, <1>3, <1>4 DEF Limits, Added, limits
<1>6. Control' /\ Asked'
  BY <1>1, <1>3 DEF Shape, Control, Asked, top
<1> QED  BY <1>1, <1>2, <1>3, <1>5, <1>6 DEF Shape, Phases, limits

\* The map that pagesPut leaves: the longer map, in it the new store, and the
\* map's own pages.
LEMMA Putting ==
    ASSUME Shape, pagesPut
    PROVE  /\ pgMapSize' = pgMapSize + request.added /\ pgMapSize' \in Nat
           /\ Longer \in [0 .. pgMapSize' - 1 -> PgKind]
           /\ pgMap' \in [0 .. pgMapSize' - 1 -> PgKind]
           /\ \A i \in 0 .. pgMapSize' - 1 :
                pgMap'[i] =
                    IF /\ isInHeap(pgMapAt) /\ isInHeap(pgMapAt + pgMapUses - 1)
                       /\ i \in Pages(pgNo(pgMapAt), pgMapUses)
                    THEN "PgMap"
                    ELSE IF i \in Pages(pgNo(request.at), request.pages) THEN "Free"
                         ELSE Longer[i]
<1> DEFINE D == 0 .. pgMapSize' - 1
           freed == pgmapMod(Longer, pgNo(request.at), request.pages, "Free")
           own == pgmapMod(freed, pgNo(pgMapAt), pgMapUses, "PgMap")
<1>1. /\ pgMapSize \in Nat /\ request.added \in Nat
      /\ pgMap \in [0 .. pgMapSize - 1 -> PgKind]
      /\ "Free" \in PgKind /\ "PgMap" \in PgKind /\ "Foreign" \in PgKind
  BY DEF Shape, Requests, PgKind
<1>2. pgMapSize' = pgMapSize + request.added /\ pgMapSize' \in Nat /\ pgMap' = MapMarked(freed)
  BY <1>1 DEF pagesPut
<1>3. Longer \in [D -> PgKind]
  BY <1>1, <1>2 DEF Longer
<1> HIDE DEF D
<1>4. /\ freed \in [D -> PgKind]
      /\ \A i \in D : freed[i] = IF i \in Pages(pgNo(request.at), request.pages) THEN "Free"
                                 ELSE Longer[i]
  BY <1>1, <1>3, ModType
<1> HIDE DEF freed
<1>5. /\ own \in [D -> PgKind]
      /\ \A i \in D : own[i] = IF i \in Pages(pgNo(pgMapAt), pgMapUses) THEN "PgMap"
                               ELSE freed[i]
  BY <1>1, <1>4, ModType
<1>6. pgMap' = IF isInHeap(pgMapAt) /\ isInHeap(pgMapAt + pgMapUses - 1) THEN own ELSE freed
  BY <1>2 DEF MapMarked
<1> HIDE DEF own
<1>7. CASE isInHeap(pgMapAt) /\ isInHeap(pgMapAt + pgMapUses - 1)
  BY <1>2, <1>3, <1>4, <1>5, <1>6, <1>7 DEF D
<1>8. CASE ~ (isInHeap(pgMapAt) /\ isInHeap(pgMapAt + pgMapUses - 1))
  BY <1>2, <1>3, <1>4, <1>6, <1>8 DEF D
<1> QED  BY <1>7, <1>8

\* Extending the map keeps the shape.
LEMMA ShapePut == ASSUME Shape, pagesPut  PROVE Shape'
<1>1. /\ phase = "put" /\ phase' \in {"corrupt", "retry"} /\ inGc' = inGc
      /\ UNCHANGED <<limits, pgMapAt, pgMapUses, found, osOwned, gcLevel, frames>>
      /\ request' = [request EXCEPT !.ok = TRUE]
  BY DEF pagesPut, gcVars
<1>2. request' \in Requests /\ request'.pages = request.pages
  BY <1>1 DEF Shape, Requests
<1>3. /\ pgMapSize' = pgMapSize + request.added /\ pgMapSize' \in Nat
      /\ pgMap' \in [0 .. pgMapSize' - 1 -> PgKind]
  BY Putting
<1>4. Limits'
  <2>1. /\ heapStart \in osOwned /\ heapEnd - 1 \in osOwned /\ heapStart < heapEnd
        /\ pgMapSize + request.added <= heapEnd - heapStart
    BY <1>1 DEF Shape, Limits, Added
  <2>2. Added' = 0
    BY <1>1 DEF Added
  <2> QED  BY <1>1, <1>3, <2>1, <2>2 DEF Limits, limits
<1>5. Control' /\ Asked'
  BY <1>1, <1>2 DEF Shape, Control, Asked, top
<1> QED  BY <1>1, <1>2, <1>3, <1>4, <1>5 DEF Shape, Phases, limits

\* The last search and the return keep the shape.
LEMMA ShapeRetry == ASSUME Shape, Retry  PROVE Shape'
<1> DEFINE f == pgmapFindFree(top.n)
<1>1. /\ phase = "retry" /\ inGc' = inGc /\ request' \in Requests
      /\ UNCHANGED <<limits, pgMapSize, pgMapAt, pgMapUses, osOwned, gcLevel>>
  BY NoRequestType DEF Retry, gcVars
<1>2. f.found \in Nat /\ found \in Nat /\ found' \in {found, f.found}
  BY <1>1, TopType, FindFree DEF Shape, Retry
<1> HIDE DEF f
<1>3. pgMap' \in [0 .. pgMapSize - 1 -> PgKind]
  <2>1. pgMap \in [0 .. pgMapSize - 1 -> PgKind]
    BY DEF Shape
  <2>2. Granted(f.at, top.n, top.for) \in [0 .. pgMapSize - 1 -> PgKind]
    BY <2>1, GrantedType
  <2> QED  BY <2>1, <2>2 DEF Retry, f
<1>4. CASE Return(Tail(frames))
  <2>1. Control' /\ frames' \in Seq(Frames) /\ phase' \in {"idle", "sweep"}
    BY <1>1, <1>4, ControlReturn
  <2>2. Limits' /\ Asked'
    BY <1>1, <2>1 DEF Shape, Limits, Added, Asked, limits
  <2> QED  BY <1>1, <1>2, <1>3, <2>1, <2>2 DEF Shape, Phases, limits
<1>5. CASE ~ Return(Tail(frames))
  <2>1. frames' = frames /\ phase' = "dead"
    BY <1>5 DEF Retry
  <2>2. Control' /\ Limits' /\ Asked'
    BY <1>1, <2>1 DEF Shape, Control, Limits, Added, Asked, limits
  <2> QED  BY <1>1, <1>2, <1>3, <2>1, <2>2 DEF Shape, Phases, limits
<1> QED  BY <1>4, <1>5

\* Every step keeps the shape.
LEMMA ShapeStep == ASSUME Shape, [Next]_vars  PROVE Shape'
<1>1. ASSUME NEW n \in 1 .. MaxRequest, pagesGet(n)  PROVE Shape'
  BY <1>1, ShapeEnter DEF pagesGet, gcVars
<1>2. CASE NodePage \/ NodeForClient
  <2>1. 1 \in 1 .. MaxRequest
    OBVIOUS
  <2> QED  BY <1>2, <2>1, ShapeEnter DEF NodePage, NodeForClient, AskNodePage, gcVars
<1>3. CASE UNCHANGED vars
  BY <1>3 DEF vars, limits, mapVars, gcVars, heldVars, Shape, Control, Limits, Added, Asked, top
<1> QED
  BY <1>1, <1>2, <1>3, ShapeCollect, ShapeSweep, ShapeDecide, ShapeRefused, ShapeGranted,
     ShapeNeed, ShapePut, ShapeRetry
  DEF Next, Allocator, Client

\* The shape holds wherever osAlloc places store, and whether or not it refuses
\* a page map.
THEOREM ShapeCorrect == Spec => []Shape
  BY ShapeInit, ShapeStep, PTL DEF Spec

-----------------------------------------------------------------------------
(* The heap limits and the map.                                            *)

\* The map describes exactly the pages between the heap limits, but for those
\* that are being added to it.
Exact == pgMapSize + Added = heapEnd - heapStart

\* It has room for those before they are, and no update of it is past its end.
Fits ==
    /\ phase = "put" => heapEnd - heapStart <= pgMapUses * MapEntries
    /\ phase \in {"need", "put"} =>
          pgNo(request.at) + request.pages <= heapEnd - heapStart
    /\ phase # "corrupt"

\* The first page is the map's own.
LEMMA ExactInit == Init => Exact /\ Fits
  BY DEF Init, Exact, Fits, Added

\* The heap limits that osAlloc's answer leads to.
LEMMA GrantedLimits ==
    ASSUME Shape, GrowGranted
    PROVE  /\ phase = "grow" /\ phase' = "need" /\ pgMapSize' = pgMapSize
           /\ Added' \in Nat /\ heapEnd' - heapStart' = heapEnd - heapStart + Added'
           /\ (pgNo(request.at) + request.pages)' <= heapEnd' - heapStart'
<1>1. PICK got \in Nat \ {0}, b \in Nat, side \in Sides, added \in Nat :
         /\ heapEnd' \in Nat /\ heapStart' \in Nat
         /\ request' = [pages |-> got, at |-> b, side |-> side,
                        added |-> added, ok |-> FALSE]
         /\ heapEnd' - heapStart' = heapEnd - heapStart + added
         /\ heapStart' <= b /\ b + got <= heapEnd'
  BY Granting
<1>2. request'.pages = got /\ request'.at = b /\ request'.added = added
  BY <1>1
<1>3. phase = "grow" /\ phase' = "need" /\ pgMapSize' = pgMapSize
  BY DEF GrowGranted, mapVars
<1>4. Added' = added
  BY <1>2, <1>3 DEF Added
<1>5. (b - heapStart') + got <= heapEnd' - heapStart'
  <2>1. heapEnd' \in Nat /\ heapStart' \in Nat /\ b + got <= heapEnd'
    BY <1>1
  <2>2. \A u, v \in Nat : b + got <= v => (b - u) + got <= v - u
    OBVIOUS
  <2> QED  BY <2>1, <2>2
<1> QED  BY <1>1, <1>2, <1>3, <1>4, <1>5 DEF pgNo

\* Steps that grow nothing.
LEMMA NoGrowth ==
    ASSUME Shape, [Next]_vars, ~GrowGranted, ~pgmapNeed, ~pagesPut
    PROVE  /\ UNCHANGED <<heapStart, heapEnd, pgMapSize>>
           /\ \/ phase \notin {"need", "put"} /\ phase' \notin {"need", "put", "corrupt"}
              \/ UNCHANGED vars
<1>1. ASSUME NEW n \in 1 .. MaxRequest, pagesGet(n)
      PROVE  /\ UNCHANGED <<heapStart, heapEnd, pgMapSize>>
             /\ phase \notin {"need", "put"} /\ phase' \notin {"need", "put", "corrupt"}
  BY <1>1 DEF pagesGet, Enter, limits
<1>2. CASE NodePage \/ NodeForClient \/ Collect \/ SkipPage \/ EnterSection \/ LeaveSection
           \/ EndSweep \/ stoGc
  BY <1>2
  DEF NodePage, NodeForClient, AskNodePage, Enter, Collect, SkipPage, EnterSection, Sweeping,
      LeaveSection, EndSweep, stoGc, BeginSweep, limits, mapVars
<1>3. CASE Decide \/ GrowRefused \/ Retry
  BY <1>3 DEF Decide, GrowRefused, Retry, Return, Caller, limits, mapVars
<1>4. ASSUME NEW level \in Levels, stoCtl(level)
      PROVE  /\ UNCHANGED <<heapStart, heapEnd, pgMapSize>>
             /\ phase \notin {"need", "put"} /\ phase' \notin {"need", "put", "corrupt"}
  BY <1>4 DEF stoCtl, limits, mapVars
<1>5. CASE UNCHANGED vars
  BY <1>5 DEF vars, limits, mapVars
<1> QED  BY <1>1, <1>2, <1>3, <1>4, <1>5 DEF Next, Allocator, Client

\* A heap limit that is ahead of the map stays ahead of it.
LEMMA ExactBefore ==
    ASSUME Shape, [Next]_vars, Exact'
    PROVE  Exact
<1>1. /\ pgMapSize \in Nat /\ heapStart \in Nat /\ heapEnd \in Nat
      /\ request.added \in Nat /\ pgMapSize + Added <= heapEnd - heapStart
  BY DEF Shape, Limits, Requests
<1>2. CASE GrowGranted
  <2>1. /\ phase = "grow" /\ pgMapSize' = pgMapSize /\ Added' \in Nat
        /\ heapEnd' - heapStart' = heapEnd - heapStart + Added'
    BY <1>2, GrantedLimits
  <2>2. PICK a \in Nat : Added' = a
    BY <2>1
  <2>3. PICK l \in Int : l = heapEnd' - heapStart'
    BY <2>1, <1>1, <2>2
  <2>4. l = heapEnd - heapStart + a /\ pgMapSize + a = l
    BY <2>1, <2>2, <2>3 DEF Exact
  <2>5. pgMapSize = heapEnd - heapStart
    BY <1>1, <2>2, <2>3, <2>4
  <2> QED  BY <1>1, <2>1, <2>5 DEF Exact, Added
<1>3. CASE pgmapNeed
  <2>1. phase = "need" /\ UNCHANGED <<heapStart, heapEnd, pgMapSize, request>>
    BY <1>3 DEF pgmapNeed, limits
  <2>2. Added = request.added /\ Added' \in {0, request.added}
    BY <2>1 DEF Added
  <2>3. pgMapSize + Added' = heapEnd - heapStart
    BY <2>1 DEF Exact
  <2>4. CASE Added' = 0
    BY <1>1, <2>2, <2>3, <2>4 DEF Exact
  <2>5. CASE Added' = request.added
    BY <2>2, <2>3, <2>5 DEF Exact
  <2> QED  BY <2>2, <2>4, <2>5
<1>4. CASE pagesPut
  BY <1>1, <1>4 DEF pagesPut, limits, Exact, Added
<1>5. CASE ~GrowGranted /\ ~pgmapNeed /\ ~pagesPut
  BY <1>1, <1>5, NoGrowth DEF vars, limits, mapVars, Exact, Added
<1> QED  BY <1>2, <1>3, <1>4, <1>5

\* Making room for a larger map.
LEMMA FitsNeed ==
    ASSUME Shape, Exact, Fits, pgmapNeed
    PROVE  Fits' /\ phase' \in {"put", "retry"} /\ (phase' = "retry" => MapMayFail)
<1> DEFINE uses == pgLen(pgMapSize + request.added)
<1>1. /\ phase = "need" /\ UNCHANGED <<heapStart, heapEnd, pgMapSize, request>>
      /\ pgMapSize \in Nat /\ request.added \in Nat /\ pgMapUses \in Nat
      /\ pgMapSize + request.added = heapEnd - heapStart
      /\ heapStart \in Nat /\ heapEnd \in Nat /\ pgMapAt \in Nat
      /\ request.at \in Int /\ request.pages \in Nat
  BY DEF pgmapNeed, limits, Exact, Added, Shape, Requests, Addr, MapAddrMax
<1>2. uses \in Nat /\ heapEnd - heapStart <= uses * MapEntries
  BY <1>1, Needing
<1>3. ASSUME NEW p, MoveMap(p, uses)
      PROVE  phase' = "put" /\ pgMapUses' = uses
  <2>1. isInHeap(pgMapAt + pgMapUses - 1) =>
            pgNo(pgMapAt) + pgMapUses <= heapEnd - heapStart
    BY <1>1 DEF isInHeap, pgNo
  <2>2. uses * MapEntries \in Nat /\ pgNo(pgMapAt) \in Int
    BY <1>1, <1>2 DEF pgNo
  <2>3. isInHeap(pgMapAt + pgMapUses - 1) => ~ Overruns(pgNo(pgMapAt), pgMapUses, uses)
    BY <1>1, <1>2, <2>1, <2>2 DEF Overruns
  <2> QED  BY <1>3, <2>3 DEF MoveMap
<1>4. CASE pgMapUses >= uses /\ phase' = "put" /\ pgMapUses' = pgMapUses
  <2>1. uses * MapEntries <= pgMapUses * MapEntries
    BY <1>1, <1>2, <1>4
  <2>2. uses * MapEntries \in Nat /\ pgMapUses * MapEntries \in Nat
    BY <1>1, <1>2
  <2>3. heapEnd - heapStart <= pgMapUses * MapEntries
    BY <1>1, <1>2, <2>1, <2>2
  <2> QED  BY <1>1, <1>4, <2>3 DEF Fits, pgNo
<1>5. CASE phase' = "put" /\ pgMapUses' = uses
  BY <1>1, <1>2, <1>5 DEF Fits, pgNo
<1>6. CASE phase' = "retry" /\ MapMayFail
  BY <1>6 DEF Fits
<1> HIDE DEF uses
<1> QED  BY <1>3, <1>4, <1>5, <1>6, Needing DEF uses

\* Entering the new store in the map.
LEMMA FitsPut == ASSUME Shape, Exact, Fits, pagesPut  PROVE Fits'
<1>1. /\ phase = "put"
      /\ phase' = IF Overruns(pgNo(request.at), request.pages, pgMapUses)
                  THEN "corrupt" ELSE "retry"
  BY DEF pagesPut
<1>2. /\ heapEnd - heapStart <= pgMapUses * MapEntries
      /\ pgNo(request.at) + request.pages <= heapEnd - heapStart
      /\ pgNo(request.at) \in Int /\ request.pages \in Nat /\ pgMapUses * MapEntries \in Nat
      /\ heapEnd - heapStart \in Int
  BY <1>1 DEF Fits, Shape, Requests, pgNo
<1>3. ~ Overruns(pgNo(request.at), request.pages, pgMapUses)
  BY <1>2 DEF Overruns
<1> QED  BY <1>1, <1>3 DEF Fits

\* While the map is whole, it has room for what is added.
LEMMA FitsStep ==
    ASSUME Shape, Exact, Fits, [Next]_vars
    PROVE  Fits'
<1>1. CASE GrowGranted
  BY <1>1, GrantedLimits DEF Fits
<1>2. CASE ~GrowGranted /\ ~pgmapNeed /\ ~pagesPut
  BY <1>2, NoGrowth DEF vars, limits, mapVars, Fits, pgNo
<1> QED  BY <1>1, <1>2, FitsNeed, FitsPut

\* The map stays whole if it is never refused a larger place.
LEMMA ExactStep ==
    ASSUME ~MapMayFail, Shape, Exact, Fits, [Next]_vars
    PROVE  Exact'
<1>1. /\ pgMapSize \in Nat /\ heapStart \in Nat /\ heapEnd \in Nat /\ request.added \in Nat
  BY DEF Shape, Requests
<1>2. CASE GrowGranted
  BY <1>1, <1>2, GrantedLimits DEF Exact, Added
<1>3. CASE pgmapNeed
  <2>1. phase = "need" /\ UNCHANGED <<heapStart, heapEnd, pgMapSize, request>>
    BY <1>3 DEF pgmapNeed, limits
  <2> QED  BY <1>3, <2>1, FitsNeed DEF Exact, Added
<1>4. CASE pagesPut
  <2>1. phase' \in {"retry", "corrupt"}
    BY <1>4 DEF pagesPut
  <2> QED  BY <1>1, <1>4, <2>1 DEF pagesPut, limits, Exact, Added
<1>5. CASE ~GrowGranted /\ ~pgmapNeed /\ ~pagesPut
  BY <1>5, NoGrowth DEF vars, limits, mapVars, Exact, Added
<1> QED  BY <1>2, <1>3, <1>4, <1>5

\* As long as the map is whole, no update of it is past its end.
THEOREM FitsCorrect == Spec => [](Exact => Fits)
<1>1. Shape /\ (Exact => Fits) /\ [Next]_vars => (Exact => Fits)'
  BY ExactBefore, FitsStep
<1> QED  BY <1>1, ShapeCorrect, ExactInit, PTL DEF Spec

\* pagesAdd: wherever osAlloc places store, the page map describes exactly the
\* pages between the heap limits when pagesGet is not running, and no update of
\* it is past its end, as long as osAlloc does not refuse the map its pages.
THEOREM LimitsCorrect ==
    ASSUME ~MapMayFail
    PROVE  Spec => []LimitsMatchMap
<1>1. Shape /\ Exact /\ Fits => LimitsMatchMap
  BY DEF Shape, Exact, Fits, LimitsMatchMap, MapIsWhole, Added
<1>2. Shape /\ (Exact => Fits) /\ Exact /\ [Next]_vars => Exact'
  BY ExactStep
<1>3. Spec => []Exact
  BY <1>2, ShapeCorrect, FitsCorrect, ExactInit, PTL DEF Spec
<1> QED  BY <1>1, <1>3, FitsCorrect, ShapeCorrect, PTL
=============================================================================
