--------------------------- MODULE StoPagesProofs ---------------------------
(***************************************************************************)
(* Second part of the proofs about StoPages, for store that osAlloc never  *)
(* gives below what the program has: what the page map says is true, and a *)
(* collection leaves the sections with a piece in use alone.               *)
(***************************************************************************)
EXTENDS StoPagesShape

-----------------------------------------------------------------------------
(* The invariant.                                                          *)

\* What the program has starts with the heap, and what is held is the
\* program's; the page map is apart from what is held.
Owned ==
    /\ \A p \in osOwned : heapStart <= p
    /\ \A s \in DOMAIN sects : s \in Addr /\ sects[s] \in 1 .. MaxRequest
    /\ Held \subseteq osOwned
    /\ MapPages \subseteq osOwned \ Held

\* SectionsMapped, between updates too.
SectionsExact ==
    /\ \A s \in DOMAIN sects : \A p \in SectionPages(s) :
          /\ pgNo(p) \in DOMAIN pgMap
          /\ pgMap[pgNo(p)] = IF p = s THEN "BusyFirst" ELSE "BusyFollow"
    /\ \A i \in DOMAIN pgMap : pgMap[i] = "BusyFirst" => pgAt(i) \in DOMAIN sects
    /\ \A i \in DOMAIN pgMap : pgMap[i] = "BusyFollow" =>
          \E s \in DOMAIN sects : pgAt(i) \in SectionPages(s)

NodesExact ==
    /\ \A p \in nodes : pgNo(p) \in DOMAIN pgMap /\ pgMap[pgNo(p)] = "Node"
    /\ \A i \in DOMAIN pgMap : pgMap[i] = "Node" => pgAt(i) \in nodes

FreeExact ==
    \A i \in DOMAIN pgMap : pgMap[i] = "Free" => pgAt(i) \in osOwned \ Held

\* The pages of the map that the map itself describes are marked as its own.
MapLabelled ==
    \A p \in MapPages : pgNo(p) \in DOMAIN pgMap =>
        pgMap[pgNo(p)] \in {"PgMap", "Foreign"}

\* What the map says is true of every page it describes.
Described == SectionsExact /\ NodesExact /\ FreeExact

\* A map that has been moved is yet to be marked, all of it.
MapInHeap == isInHeap(pgMapAt) /\ isInHeap(pgMapAt + pgMapUses - 1)
Labels ==
    /\ phase \notin {"put", "corrupt"} => MapLabelled
    /\ phase = "put" => MapLabelled \/ MapInHeap

\* The new store on its way to the map is in use by nobody.
NewPages == Pages(request.at, request.pages)
Growing ==
    phase \in {"need", "put"} =>
        /\ request.side # "below"
        /\ NewPages \subseteq osOwned \ (Held \cup MapPages)
        /\ \A i \in DOMAIN pgMap : pgMap[i] = "Free" => pgAt(i) \notin NewPages

\* The map has room for what it describes, and for what is being added.
Room ==
    /\ pgMapSize <= pgMapUses * MapEntries
    /\ phase = "put" => pgMapSize + request.added <= pgMapUses * MapEntries

\* During a sweep each section with a piece in use keeps its mark until the
\* cursor has passed it, and the cursor is where the current section is.
Sweep ==
    /\ pgno \in Nat /\ live \subseteq Addr /\ marked \subseteq Addr
    /\ ~inGc => live = {} /\ current = None
    /\ inGc /\ phase # "sweep" => current # None
    /\ current # None => current \in DOMAIN sects /\ current = pgAt(pgno)
    /\ \A s \in live \cap DOMAIN sects : s \in marked \/ pgNo(s) < pgno

Inv == Owned /\ Described /\ Labels /\ Growing /\ Room /\ Sweep

-----------------------------------------------------------------------------
(* The pages held, and the page that an index of the map is for.           *)

\* A page is held by the free tree or by a section.
LEMMA HeldIs ==
    /\ \A p : p \in Held <=> p \in nodes \/ \E s \in DOMAIN sects : p \in SectionPages(s)
    /\ \A p : p \in Held' <=>
                 p \in nodes' \/ \E s \in DOMAIN sects' : p \in SectionPages(s)'
  BY DEF Held

\* pgAt and pgNo are inverse to each other, and carry runs to runs.
LEMMA AtNo ==
    ASSUME heapStart \in Nat
    PROVE  /\ \A i \in Int : pgAt(i) \in Int /\ pgNo(pgAt(i)) = i
           /\ \A p \in Int : pgNo(p) \in Int /\ pgAt(pgNo(p)) = p
           /\ \A i, j, n \in Int : pgAt(j) \in Pages(pgAt(i), n) <=> j \in Pages(i, n)
           /\ \A p, q, n \in Int : q \in Pages(p, n) <=> pgNo(q) \in Pages(pgNo(p), n)
  BY DEF pgAt, pgNo, Pages

\* The indices of the map.
LEMMA MapDomain ==
    ASSUME Shape
    PROVE  DOMAIN pgMap = 0 .. pgMapSize - 1 /\ DOMAIN pgMap \subseteq Nat
  BY DEF Shape

\* No two sections share a page: the first page of the later one would have to
\* be marked as an inner page of the other.
LEMMA SectionsApart ==
    ASSUME Shape, Owned, SectionsExact,
           NEW s \in DOMAIN sects, NEW t \in DOMAIN sects,
           NEW p \in SectionPages(s), p \in SectionPages(t)
    PROVE  s = t
<1>1. /\ s \in Int /\ t \in Int /\ p \in Int
      /\ sects[s] \in Nat \ {0} /\ sects[t] \in Nat \ {0}
  BY DEF Owned, Addr, MapAddrMax, SectionPages, Pages
<1>2. ASSUME NEW u \in DOMAIN sects, NEW v \in DOMAIN sects, u < v, v <= p,
             u \in Int, v \in Int, p \in SectionPages(u), sects[v] \in Nat \ {0},
             sects[u] \in Nat \ {0}
      PROVE  FALSE
  <2>1. v \in SectionPages(u) /\ v \in SectionPages(v)
    BY <1>1, <1>2 DEF SectionPages, Pages
  <2>2. pgMap[pgNo(v)] = "BusyFollow" /\ pgMap[pgNo(v)] = "BusyFirst"
    BY <1>2, <2>1 DEF SectionsExact
  <2> QED  BY <2>2
<1>3. s <= p /\ t <= p
  BY <1>1 DEF SectionPages, Pages
<1>4. ~ (s < t) /\ ~ (t < s)
  BY <1>1, <1>2, <1>3
<1> QED  BY <1>1, <1>4

-----------------------------------------------------------------------------
(* Granting pages, and taking them back.                                   *)

\* The pages of a free run are the program's and in use by nobody.
LEMMA FreeRun ==
    ASSUME Shape, Owned, FreeExact, MapLabelled, NEW i \in Nat, NEW n \in Nat,
           i + n <= pgMapSize, \A j \in Pages(i, n) : pgMap[j] = "Free",
           NEW p \in Pages(pgAt(i), n)
    PROVE  /\ p \in Int /\ pgNo(p) \in Pages(i, n) /\ pgNo(p) \in DOMAIN pgMap
           /\ p \in osOwned /\ p \notin Held /\ p \notin MapPages
<1>1. heapStart \in Nat /\ pgMapSize \in Nat
  BY DEF Shape
<1>2. pgAt(i) \in Int /\ p \in Int
  BY <1>1 DEF pgAt, Pages
<1>3. pgNo(p) \in Pages(i, n) /\ pgAt(pgNo(p)) = p
  BY <1>1, <1>2, AtNo
<1>4. pgNo(p) \in DOMAIN pgMap /\ pgMap[pgNo(p)] = "Free"
  BY <1>1, <1>3, MapDomain DEF Pages
<1>5. p \in osOwned \ Held
  BY <1>3, <1>4 DEF FreeExact
<1>6. p \notin MapPages
  BY <1>4 DEF MapLabelled
<1> QED  BY <1>2, <1>3, <1>4, <1>5, <1>6

\* What pagesGet does to the map for a section.
LEMMA GrantedSection ==
    ASSUME NEW D, D \subseteq Int, pgMap \in [D -> PgKind], NEW i \in Int, NEW n \in Nat \ {0}
    PROVE  \A j \in D : Granted(i, n, "section")[j] =
              IF j = i THEN "BusyFirst"
              ELSE IF j \in Pages(i, n) THEN "BusyFollow" ELSE pgMap[j]
<1>1. \A j \in D : pgmapMod(pgMap, i, 1, "BusyFirst")[j] =
                      IF j \in Pages(i, 1) THEN "BusyFirst" ELSE pgMap[j]
  BY DEF pgmapMod
<1>2. \A j \in D : Granted(i, n, "section")[j] =
          IF j \in Pages(i + 1, n - 1) THEN "BusyFollow"
          ELSE pgmapMod(pgMap, i, 1, "BusyFirst")[j]
  BY DEF Granted, pgmapMod
<1>3. ASSUME NEW j \in D
      PROVE  Granted(i, n, "section")[j] =
                 IF j = i THEN "BusyFirst"
                 ELSE IF j \in Pages(i, n) THEN "BusyFollow" ELSE pgMap[j]
  <2>1. j \in Int
    OBVIOUS
  <2>2. j \in Pages(i, 1) <=> j = i
    BY <2>1 DEF Pages
  <2>3. j \in Pages(i + 1, n - 1) <=> j \in Pages(i, n) /\ j # i
    BY <2>1 DEF Pages
  <2> QED  BY <1>1, <1>2, <2>2, <2>3
<1> QED  BY <1>3

\* A free run granted to the client as a section: the map stays true.
LEMMA GrantSection ==
    ASSUME Shape, Owned, Described, MapLabelled,
           NEW i \in Nat, NEW n \in 1 .. MaxRequest, i + n <= pgMapSize,
           \A j \in Pages(i, n) : pgMap[j] = "Free",
           pgMap' = Granted(i, n, "section"), Hand(pgAt(i), n, "section"),
           UNCHANGED <<heapStart, pgMapSize, pgMapAt, pgMapUses, osOwned>>
    PROVE  Owned' /\ Described' /\ MapLabelled'
<1> PICK a, D : a = pgAt(i) /\ D = DOMAIN pgMap
  OBVIOUS
<1>1. /\ heapStart \in Nat /\ pgMapSize \in Nat /\ osOwned \subseteq Addr
      /\ D \subseteq Nat /\ D = 0 .. pgMapSize - 1
      /\ pgMap \in [D -> PgKind] /\ n \in Nat \ {0}
  BY MapDomain DEF Shape
<1>2. \A p \in Pages(a, n) :
          /\ p \in Int /\ pgNo(p) \in Pages(i, n) /\ pgNo(p) \in D
          /\ p \in osOwned /\ p \notin Held /\ p \notin MapPages
  BY <1>1, FreeRun DEF Described
<1>3. /\ DOMAIN pgMap' = D
      /\ \A j \in D : pgMap'[j] = IF j = i THEN "BusyFirst"
                                 ELSE IF j \in Pages(i, n) THEN "BusyFollow" ELSE pgMap[j]
  <2>1. pgMap' \in [D -> PgKind]
    BY <1>1, GrantedType
  <2> QED  BY <1>1, <2>1, GrantedSection
<1>4. /\ DOMAIN sects' = DOMAIN sects \cup {a}
      /\ \A s \in DOMAIN sects' : sects'[s] = IF s = a THEN n ELSE sects[s]
      /\ nodes' = nodes
  BY DEF Hand
<1>5. a \in Int /\ a \in Pages(a, n) /\ pgNo(a) = i /\ a \notin DOMAIN sects
  <2>1. a \in Int /\ pgNo(a) = i /\ a \in Pages(a, n)
    BY <1>1, AtNo DEF Pages
  <2>2. a \in DOMAIN sects => a \in SectionPages(a)
    BY <2>1 DEF Owned, SectionPages, Pages
  <2> QED  BY <1>2, <2>1, <2>2, HeldIs
<1>6. /\ SectionPages(a)' = Pages(a, n)
      /\ \A s \in DOMAIN sects : SectionPages(s)' = SectionPages(s)
  BY <1>4, <1>5 DEF SectionPages
<1>7. /\ \A j : pgAt(j)' = pgAt(j)
      /\ \A p : pgNo(p)' = pgNo(p)
      /\ MapPages' = MapPages
  BY DEF pgAt, pgNo, MapPages
<1>8. \A p : p \in Held' <=> p \in Held \/ p \in Pages(a, n)
  BY <1>4, <1>6, HeldIs
<1>9. Owned'
  <2>1. a \in Addr
    BY <1>1, <1>2, <1>5
  <2>2. \A s \in DOMAIN sects' : s \in Addr /\ sects'[s] \in 1 .. MaxRequest
    BY <1>4, <2>1 DEF Owned
  <2> QED  BY <1>2, <1>7, <1>8, <2>2 DEF Owned
<1>10. \A j \in D : j \in Pages(i, n) <=> pgAt(j) \in Pages(a, n)
  BY <1>1 DEF pgAt, Pages
<1>11. \A j \in D : pgMap[j] # "Free" => j \notin Pages(i, n) /\ pgMap'[j] = pgMap[j]
  <2>1. i \in Pages(i, n)
    BY <1>1 DEF Pages
  <2> QED  BY <1>3, <2>1
<1>12. SectionsExact'
  <2>1. ASSUME NEW s \in DOMAIN sects', NEW p \in SectionPages(s)'
        PROVE  /\ pgNo(p) \in D
               /\ pgMap'[pgNo(p)] = IF p = s THEN "BusyFirst" ELSE "BusyFollow"
    <3>1. CASE s = a
      <4>1. p \in Pages(a, n) /\ p \in Int
        BY <1>2, <1>6, <2>1, <3>1
      <4>2. pgNo(p) \in D /\ pgNo(p) \in Pages(i, n)
        BY <1>2, <4>1
      <4>3. p = a <=> pgNo(p) = i
        BY <1>1, <1>5, <4>1 DEF pgNo
      <4> QED  BY <1>3, <3>1, <4>2, <4>3
    <3>2. CASE s # a
      <4>1. s \in DOMAIN sects /\ p \in SectionPages(s)
        BY <1>4, <1>6, <2>1, <3>2
      <4>2. pgNo(p) \in D /\ pgMap[pgNo(p)] = IF p = s THEN "BusyFirst" ELSE "BusyFollow"
        BY <4>1 DEF Described, SectionsExact
      <4> QED  BY <1>11, <4>2
    <3> QED  BY <3>1, <3>2
  <2>2. ASSUME NEW j \in D, pgMap'[j] = "BusyFirst"
        PROVE  pgAt(j) \in DOMAIN sects'
    BY <1>3, <1>4, <2>2 DEF Described, SectionsExact
  <2>3. ASSUME NEW j \in D, pgMap'[j] = "BusyFollow"
        PROVE  \E s \in DOMAIN sects' : pgAt(j) \in SectionPages(s)'
    BY <1>3, <1>4, <1>6, <1>10, <2>3 DEF Described, SectionsExact
  <2> QED  BY <1>1, <1>3, <1>7, <2>1, <2>2, <2>3 DEF SectionsExact
<1>13. NodesExact'
  BY <1>1, <1>3, <1>4, <1>7, <1>11 DEF Described, NodesExact
<1>14. FreeExact'
  <2>1. ASSUME NEW j \in D, pgMap'[j] = "Free"
        PROVE  pgAt(j) \in osOwned /\ pgAt(j) \notin Held'
    <3>1. j \notin Pages(i, n) /\ pgMap[j] = "Free"
      BY <1>1, <1>3, <2>1
    <3>2. pgAt(j) \in osOwned /\ pgAt(j) \notin Held
      BY <3>1 DEF Described, FreeExact
    <3> QED  BY <1>8, <1>10, <3>1, <3>2
  <2> QED  BY <1>1, <1>3, <1>7, <2>1 DEF FreeExact
<1>15. MapLabelled'
  BY <1>1, <1>3, <1>7, <1>11 DEF MapLabelled
<1> QED  BY <1>9, <1>12, <1>13, <1>14, <1>15 DEF Described

\* A free run granted to the free tree.
LEMMA GrantNodes ==
    ASSUME Shape, Owned, Described, MapLabelled,
           NEW i \in Nat, NEW n \in 1 .. MaxRequest, i + n <= pgMapSize,
           \A j \in Pages(i, n) : pgMap[j] = "Free",
           pgMap' = Granted(i, n, "nodes"), Hand(pgAt(i), n, "nodes"),
           UNCHANGED <<heapStart, pgMapSize, pgMapAt, pgMapUses, osOwned>>
    PROVE  Owned' /\ Described' /\ MapLabelled'
<1> PICK a, D : a = pgAt(i) /\ D = DOMAIN pgMap
  OBVIOUS
<1>1. /\ heapStart \in Nat /\ pgMapSize \in Nat /\ D \subseteq Nat /\ D = 0 .. pgMapSize - 1
      /\ pgMap \in [D -> PgKind] /\ n \in Nat \ {0}
  BY MapDomain DEF Shape
<1>2. \A p \in Pages(a, n) :
          /\ p \in Int /\ pgNo(p) \in Pages(i, n) /\ pgNo(p) \in D
          /\ p \in osOwned /\ p \notin Held /\ p \notin MapPages
  BY <1>1, FreeRun DEF Described
<1>3. /\ DOMAIN pgMap' = D
      /\ \A j \in D : pgMap'[j] = IF j \in Pages(i, n) THEN "Node" ELSE pgMap[j]
  BY DEF Granted, pgmapMod
<1>4. sects' = sects /\ nodes' = nodes \cup Pages(a, n)
  BY DEF Hand
<1>5. /\ \A j : pgAt(j)' = pgAt(j)
      /\ \A p : pgNo(p)' = pgNo(p)
      /\ \A s : SectionPages(s)' = SectionPages(s)
      /\ MapPages' = MapPages
  BY <1>4 DEF pgAt, pgNo, MapPages, SectionPages
<1>6. \A p : p \in Held' <=> p \in Held \/ p \in Pages(a, n)
  BY <1>4, <1>5, HeldIs
<1>7. Owned'
  BY <1>2, <1>4, <1>5, <1>6 DEF Owned
<1>8. \A j \in D : j \in Pages(i, n) <=> pgAt(j) \in Pages(a, n)
  BY <1>1 DEF pgAt, Pages
<1>9. \A j \in D : pgMap[j] # "Free" => pgMap'[j] = pgMap[j]
  BY <1>3
<1>10. SectionsExact'
  BY <1>1, <1>3, <1>4, <1>5, <1>9 DEF Described, SectionsExact
<1>11. NodesExact'
  <2>1. ASSUME NEW p \in nodes'  PROVE pgNo(p) \in D /\ pgMap'[pgNo(p)] = "Node"
    BY <1>2, <1>3, <1>4, <1>9, <2>1 DEF Described, NodesExact
  <2>2. ASSUME NEW j \in D, pgMap'[j] = "Node"  PROVE pgAt(j) \in nodes'
    BY <1>3, <1>4, <1>8, <2>2 DEF Described, NodesExact
  <2> QED  BY <1>1, <1>3, <1>5, <2>1, <2>2 DEF NodesExact
<1>12. FreeExact'
  <2>1. ASSUME NEW j \in D, pgMap'[j] = "Free"
        PROVE  pgAt(j) \in osOwned /\ pgAt(j) \notin Held'
    <3>1. j \notin Pages(i, n) /\ pgMap[j] = "Free"
      BY <1>1, <1>3, <2>1
    <3>2. pgAt(j) \in osOwned /\ pgAt(j) \notin Held
      BY <3>1 DEF Described, FreeExact
    <3> QED  BY <1>6, <1>8, <3>1, <3>2
  <2> QED  BY <1>1, <1>3, <1>5, <2>1 DEF FreeExact
<1>13. MapLabelled'
  BY <1>1, <1>3, <1>5, <1>9 DEF MapLabelled
<1> QED  BY <1>7, <1>10, <1>11, <1>12, <1>13 DEF Described

\* Whoever gets it.
LEMMA GrantKeeps ==
    ASSUME Shape, Owned, Described, MapLabelled,
           NEW n \in 1 .. MaxRequest, NEW for \in {"section", "nodes"},
           pgmapFindFree(n).at # None,
           pgMap' = Granted(pgmapFindFree(n).at, n, for),
           Hand(pgAt(pgmapFindFree(n).at), n, for),
           UNCHANGED <<heapStart, pgMapSize, pgMapAt, pgMapUses, osOwned>>
    PROVE  Owned' /\ Described' /\ MapLabelled'
<1>1. PICK i : i = pgmapFindFree(n).at
  OBVIOUS
<1>2. i \in Nat /\ i + n <= pgMapSize /\ \A j \in Pages(i, n) : pgMap[j] = "Free"
  <2>1. n \in Nat \ {0}
    OBVIOUS
  <2> QED  BY <1>1, <2>1, FindFree DEF Shape
<1> QED  BY <1>1, <1>2, GrantSection, GrantNodes

\* Pages of a section that goes back to the heap are in use by nobody.
LEMMA ReleaseKeeps ==
    ASSUME Shape, Owned, Described, MapLabelled, NEW c \in DOMAIN sects,
           pgMap' = pgmapMod(pgMap, pgNo(c), sects[c], "Free"),
           sects' = [s \in DOMAIN sects \ {c} |-> sects[s]],
           UNCHANGED <<heapStart, pgMapSize, pgMapAt, pgMapUses, osOwned, nodes>>
    PROVE  Owned' /\ Described' /\ MapLabelled'
<1> PICK i, n, D : i = pgNo(c) /\ n = sects[c] /\ D = DOMAIN pgMap
  OBVIOUS
<1>1. /\ heapStart \in Nat /\ D \subseteq Nat /\ D = 0 .. pgMapSize - 1
      /\ n \in Nat \ {0} /\ c \in Int
  BY MapDomain DEF Shape, Owned, Addr, MapAddrMax
<1>2. /\ DOMAIN pgMap' = D
      /\ \A j \in D : pgMap'[j] = IF j \in Pages(i, n) THEN "Free" ELSE pgMap[j]
  BY DEF pgmapMod
<1>3. DOMAIN sects' = DOMAIN sects \ {c} /\ \A s \in DOMAIN sects' : sects'[s] = sects[s]
  OBVIOUS
<1>4. /\ \A j : pgAt(j)' = pgAt(j)
      /\ \A p : pgNo(p)' = pgNo(p)
      /\ \A s \in DOMAIN sects' : SectionPages(s)' = SectionPages(s)
      /\ MapPages' = MapPages
  BY <1>3 DEF pgAt, pgNo, MapPages, SectionPages
<1>5. SectionPages(c) = Pages(c, n)
  BY DEF SectionPages
<1>6. \A j \in D : j \in Pages(i, n) <=> pgAt(j) \in SectionPages(c)
  BY <1>1, <1>5 DEF pgAt, pgNo, Pages
<1>7. \A s \in DOMAIN sects' : SectionPages(s) \cap SectionPages(c) = {}
  BY <1>3, SectionsApart DEF Described
<1>8. nodes \cap SectionPages(c) = {}
  <2>1. ASSUME NEW p \in nodes, p \in SectionPages(c)  PROVE FALSE
    BY <2>1 DEF Described, NodesExact, SectionsExact
  <2> QED  BY <2>1
<1>9. \A p : p \in Held' <=> p \in Held /\ p \notin SectionPages(c)
  BY <1>3, <1>4, <1>7, <1>8, HeldIs
<1>10. Owned'
  BY <1>3, <1>4, <1>9 DEF Owned
<1>11. \A p \in Int : pgNo(p) \in D => pgAt(pgNo(p)) = p
  BY <1>1, AtNo
<1>12. SectionsExact'
  <2>1. ASSUME NEW s \in DOMAIN sects', NEW p \in SectionPages(s)'
        PROVE  /\ pgNo(p) \in D
               /\ pgMap'[pgNo(p)] = IF p = s THEN "BusyFirst" ELSE "BusyFollow"
    <3>1. s \in DOMAIN sects /\ p \in SectionPages(s) /\ p \notin SectionPages(c)
      BY <1>3, <1>4, <1>7, <2>1
    <3>2. p \in Int
      BY <3>1 DEF SectionPages, Pages, Owned
    <3>3. pgNo(p) \in D /\ pgMap[pgNo(p)] = IF p = s THEN "BusyFirst" ELSE "BusyFollow"
      BY <3>1 DEF Described, SectionsExact
    <3> QED  BY <1>2, <1>6, <1>11, <3>1, <3>2, <3>3
  <2>2. ASSUME NEW j \in D, pgMap'[j] = "BusyFirst"
        PROVE  pgAt(j) \in DOMAIN sects'
    <3>1. j \notin Pages(i, n) /\ pgMap[j] = "BusyFirst"
      BY <1>2, <2>2
    <3>2. pgAt(j) \in DOMAIN sects /\ pgAt(j) \notin SectionPages(c)
      BY <1>6, <3>1 DEF Described, SectionsExact
    <3>3. c \in SectionPages(c)
      BY <1>1, <1>5 DEF Pages
    <3> QED  BY <1>3, <3>2, <3>3
  <2>3. ASSUME NEW j \in D, pgMap'[j] = "BusyFollow"
        PROVE  \E s \in DOMAIN sects' : pgAt(j) \in SectionPages(s)'
    <3>1. j \notin Pages(i, n) /\ pgMap[j] = "BusyFollow"
      BY <1>2, <2>3
    <3>2. PICK s \in DOMAIN sects : pgAt(j) \in SectionPages(s)
      BY <3>1 DEF Described, SectionsExact
    <3>3. s # c
      BY <1>6, <3>1, <3>2
    <3> QED  BY <1>3, <1>4, <3>2, <3>3
  <2> QED  BY <1>1, <1>2, <1>4, <2>1, <2>2, <2>3 DEF SectionsExact
<1>13. NodesExact'
  <2>1. ASSUME NEW p \in nodes  PROVE pgNo(p) \in D /\ pgMap'[pgNo(p)] = "Node"
    <3>1. pgNo(p) \in D /\ pgMap[pgNo(p)] = "Node" /\ p \notin SectionPages(c)
      BY <1>8 DEF Described, NodesExact
    <3>2. p \in osOwned
      BY HeldIs DEF Owned
    <3>4. p \in Int
      BY <3>2 DEF Shape, Addr, MapAddrMax
    <3> QED  BY <1>2, <1>6, <1>11, <3>1, <3>4
  <2>2. ASSUME NEW j \in D, pgMap'[j] = "Node"  PROVE pgAt(j) \in nodes
    BY <1>2, <2>2 DEF Described, NodesExact
  <2> QED  BY <1>1, <1>2, <1>4, <2>1, <2>2 DEF NodesExact
<1>14. FreeExact'
  <2>1. ASSUME NEW j \in D, pgMap'[j] = "Free"
        PROVE  pgAt(j) \in osOwned /\ pgAt(j) \notin Held'
    <3>1. CASE j \in Pages(i, n)
      <4>1. pgAt(j) \in SectionPages(c)
        BY <1>6, <3>1
      <4> QED  BY <1>9, <4>1, HeldIs DEF Owned
    <3>2. CASE j \notin Pages(i, n)
      <4>1. pgAt(j) \in osOwned /\ pgAt(j) \notin Held
        BY <1>2, <2>1, <3>2 DEF Described, FreeExact
      <4> QED  BY <1>9, <4>1
    <3> QED  BY <3>1, <3>2
  <2> QED  BY <1>1, <1>2, <1>4, <2>1 DEF FreeExact
<1>15. MapLabelled'
  <2>1. ASSUME NEW p \in MapPages, pgNo(p) \in D
        PROVE  pgMap'[pgNo(p)] \in {"PgMap", "Foreign"}
    <3>1. p \in Int /\ p \notin SectionPages(c)
      BY HeldIs DEF Owned, Shape, Addr, MapAddrMax
    <3>2. pgMap[pgNo(p)] \in {"PgMap", "Foreign"}
      BY <2>1 DEF MapLabelled
    <3> QED  BY <1>2, <1>6, <1>11, <2>1, <3>1, <3>2
  <2> QED  BY <1>2, <1>4, <2>1 DEF MapLabelled
<1> QED  BY <1>10, <1>12, <1>13, <1>14, <1>15 DEF Described

-----------------------------------------------------------------------------
(* The invariant is kept: the search and the sweep.                        *)

\* The map, the sections and the limits stay.
LEMMA SameMap ==
    ASSUME Owned, Described,
           UNCHANGED <<heapStart, pgMap, pgMapAt, pgMapUses, osOwned, sects, nodes>>
    PROVE  Owned' /\ Described' /\ (MapLabelled => MapLabelled')
<1>1. /\ \A j : pgAt(j)' = pgAt(j)
      /\ \A p : pgNo(p)' = pgNo(p)
      /\ \A s : SectionPages(s)' = SectionPages(s)
      /\ MapPages' = MapPages /\ Held' = Held
  BY DEF pgAt, pgNo, SectionPages, MapPages, Held
<1>2. Owned'
  BY <1>1 DEF Owned
<1>3. SectionsExact' /\ NodesExact' /\ FreeExact'
  BY <1>1 DEF Described, SectionsExact, NodesExact, FreeExact
<1>4. MapLabelled => MapLabelled'
  BY <1>1 DEF MapLabelled
<1> QED  BY <1>2, <1>3, <1>4 DEF Described

\* The sweep stays, and no section goes while it lasts.
LEMMA SameSweep ==
    ASSUME Sweep, UNCHANGED <<heapStart, inGc, live, marked, pgno, current>>,
           inGc => sects' = sects, inGc /\ phase' # "sweep" => current # None
    PROVE  Sweep'
  BY DEF Sweep, pgAt, pgNo

\* Away from the growth of the heap.
LEMMA Quiet ==
    ASSUME Inv, Owned', Described', MapLabelled', Sweep',
           UNCHANGED <<pgMapSize, pgMapUses>>, phase' \notin {"need", "put"}
    PROVE  Inv'
  BY DEF Inv, Labels, Growing, Room

\* At first the only page of the heap is the map, and nothing is made yet.
LEMMA InvInit == "below" \notin Placement /\ Init => Inv
<1> SUFFICES ASSUME "below" \notin Placement, Init  PROVE Inv
  OBVIOUS
<1>1. heapStart = 0 /\ heapEnd = 1 /\ pgMapSize = 1 /\ pgMapAt = 0 /\ pgMapUses = 1
      /\ DOMAIN pgMap = {0} /\ pgMap[0] = "PgMap" /\ phase = "idle"
  BY DEF Init
<1>2. PICK s \in Slack : osOwned = Pages(0, 1 + s)
  BY <1>1 DEF Init
<1>3. DOMAIN sects = {} /\ nodes = {} /\ Held = {}
  BY HeldIs DEF Init
<1>4. 0 \in osOwned /\ \A p \in osOwned : 0 <= p
  <2>1. s \in Nat
    BY PageConstants
  <2> QED  BY <1>2, <2>1 DEF Pages
<1>5. MapPages = {0}
  BY <1>1 DEF MapPages, Pages
<1>6. Owned
  BY <1>1, <1>3, <1>4, <1>5 DEF Owned
<1>7. Described
  BY <1>1, <1>3 DEF Described, SectionsExact, NodesExact, FreeExact
<1>8. Labels /\ Growing /\ Room
  <2>1. MapLabelled
    BY <1>1, <1>5 DEF MapLabelled, pgNo
  <2> QED  BY <1>1, <2>1, PageConstants DEF Labels, Growing, Room
<1>9. Sweep
  BY <1>1 DEF Sweep, Init
<1> QED  BY <1>6, <1>7, <1>8, <1>9 DEF Inv

\* Entering pagesGet.
LEMMA InvEnter ==
    ASSUME Shape, Inv, NEW n \in 1 .. MaxRequest, NEW for \in {"section", "nodes"},
           Enter(n, for), UNCHANGED gcVars,
           phase = "idle" \/ (for = "nodes" /\ phase = "sweep" /\ current # None)
    PROVE  Inv'
<1>1. /\ UNCHANGED <<heapStart, pgMapSize, pgMapAt, pgMapUses, osOwned>>
      /\ UNCHANGED <<inGc, live, marked, pgno, current>>
      /\ phase \in {"idle", "sweep"} /\ phase' \in {phase, "collect"}
  BY DEF Enter, limits, gcVars
<1>2. Owned /\ Described /\ MapLabelled /\ Sweep
  BY <1>1 DEF Inv, Labels
<1>3. inGc => for = "nodes"
  BY DEF Shape, Control
<1>4. CASE pgmapFindFree(n).at # None
  <2>1. /\ pgMap' = Granted(pgmapFindFree(n).at, n, for)
        /\ Hand(pgAt(pgmapFindFree(n).at), n, for) /\ phase' = phase
    BY <1>4 DEF Enter
  <2>2. Owned' /\ Described' /\ MapLabelled'
    BY <1>1, <1>2, <1>4, <2>1, GrantKeeps
  <2>3. inGc => sects' = sects
    BY <1>3, <2>1 DEF Hand
  <2>4. Sweep'
    BY <1>1, <1>2, <2>1, <2>3, SameSweep DEF Sweep
  <2> QED  BY <1>1, <2>2, <2>4, Quiet
<1>5. CASE pgmapFindFree(n).at = None
  <2>1. UNCHANGED <<pgMap, sects, nodes>>
    BY <1>5 DEF Enter, heldVars
  <2>2. inGc => current # None
    BY <1>2 DEF Sweep, Shape, Control
  <2>3. Sweep'
    BY <1>1, <1>2, <2>1, <2>2, SameSweep
  <2> QED  BY <1>1, <1>2, <2>1, <2>3, SameMap, Quiet
<1> QED  BY <1>4, <1>5

\* Steps that only move the sweep.
LEMMA InvSweep ==
    ASSUME Shape, Inv, Collect \/ stoGc \/ SkipPage \/ EnterSection \/ EndSweep
    PROVE  Inv'
<1>1. /\ UNCHANGED <<heapStart, pgMap, pgMapSize, pgMapAt, pgMapUses, osOwned, sects, nodes>>
      /\ phase \in {"idle", "sweep", "collect"}
      /\ phase' \in {"idle", "sweep", "decide", "grow"}
  BY DEF Collect, stoGc, BeginSweep, SkipPage, EnterSection, Sweeping, EndSweep, limits, mapVars,
         heldVars
<1>2. Owned' /\ Described' /\ MapLabelled'
  BY <1>1, SameMap DEF Inv, Labels
<1>3. Sweep /\ SectionsExact /\ Owned /\ heapStart \in Nat
  BY DEF Inv, Described, Shape
<1>4. ASSUME BeginSweep, ~inGc  PROVE Sweep'
  <2>1. live' \subseteq Addr
    BY <1>3, <1>4 DEF BeginSweep, Owned
  <2> QED  BY <1>1, <1>4, <2>1 DEF BeginSweep, Sweep
<1>5. ASSUME Collect  PROVE Sweep'
  <2>1. phase = "collect"
    BY <1>5 DEF Collect
  <2>2. CASE UNCHANGED <<inGc, live, marked, pgno, current>>
    BY <1>1, <1>3, <2>1, <2>2, SameSweep DEF Sweep
  <2>3. CASE ~ UNCHANGED <<inGc, live, marked, pgno, current>>
    BY <1>4, <1>5, <2>3 DEF Collect, gcVars
  <2> QED  BY <2>2, <2>3
<1>6. ASSUME stoGc  PROVE Sweep'
  BY <1>4, <1>6 DEF stoGc, Shape, Control
<1>7. ASSUME SkipPage  PROVE Sweep'
  <2>1. \A s \in live \cap DOMAIN sects : pgNo(s) \in Int
    BY <1>3 DEF Owned, Addr, MapAddrMax, pgNo
  <2> QED  BY <1>1, <1>3, <1>7, <2>1 DEF SkipPage, Sweeping, Sweep, pgNo
<1>8. ASSUME EnterSection  PROVE Sweep'
  <2>1. pgno \in DOMAIN pgMap /\ pgMap[pgno] = "BusyFirst"
    BY <1>3, <1>8, MapDomain DEF EnterSection, Sweeping, Sweep, Shape
  <2>2. pgAt(pgno) \in DOMAIN sects
    BY <1>3, <2>1 DEF SectionsExact
  <2> QED  BY <1>1, <1>3, <1>8, <2>2 DEF EnterSection, Sweeping, Sweep, pgAt, pgNo, Shape, Control
<1>9. ASSUME EndSweep  PROVE Sweep'
  BY <1>1, <1>3, <1>9 DEF EndSweep, Sweep
<1> QED  BY <1>1, <1>2, <1>5, <1>6, <1>7, <1>8, <1>9, Quiet

\* A section is left, and perhaps returned.
LEMMA InvLeave == ASSUME Shape, Inv, LeaveSection  PROVE Inv'
<1>1. /\ UNCHANGED <<heapStart, pgMapSize, pgMapAt, pgMapUses, osOwned, nodes>>
      /\ UNCHANGED <<inGc, live>> /\ phase = "sweep" /\ phase' = "sweep" /\ current # None
      /\ pgno' = pgno + sects[current] /\ marked' = marked \ {current} /\ current' = None
  BY DEF LeaveSection, limits
<1>2. Owned /\ Described /\ MapLabelled /\ Sweep
  BY <1>1 DEF Inv, Labels
<1>3. /\ current \in DOMAIN sects /\ sects[current] \in Nat \ {0}
      /\ pgno \in Nat /\ pgNo(current) = pgno
  <2>1. current \in DOMAIN sects /\ current = pgAt(pgno) /\ pgno \in Nat /\ heapStart \in Nat
    BY <1>1, <1>2 DEF Sweep, Shape
  <2> QED  BY <1>2, <2>1 DEF Owned, pgAt, pgNo
<1>4. ASSUME UNCHANGED <<pgMap, sects>>
      PROVE  Owned' /\ Described' /\ MapLabelled' /\ DOMAIN sects' \subseteq DOMAIN sects
  BY <1>1, <1>2, <1>4, SameMap
<1>5. ASSUME pgMap' = pgmapMod(pgMap, pgNo(current), sects[current], "Free"),
             sects' = [s \in DOMAIN sects \ {current} |-> sects[s]]
      PROVE  Owned' /\ Described' /\ MapLabelled' /\ DOMAIN sects' \subseteq DOMAIN sects
  <2>1. PICK c : c = current
    OBVIOUS
  <2> QED  BY <1>1, <1>2, <1>3, <1>5, <2>1, ReleaseKeeps
<1>6. Owned' /\ Described' /\ MapLabelled' /\ DOMAIN sects' \subseteq DOMAIN sects
  BY <1>4, <1>5 DEF LeaveSection
<1>7. ASSUME NEW s \in live' \cap DOMAIN sects'
      PROVE  s \in marked' \/ pgNo(s)' < pgno'
  <2>1. s \in live \cap DOMAIN sects /\ pgNo(s)' = pgNo(s) /\ pgNo(s) \in Int
    BY <1>1, <1>2, <1>6 DEF Owned, Addr, MapAddrMax, Shape, pgNo
  <2>2. s = current \/ s \in marked' \/ pgNo(s) < pgno
    BY <1>1, <1>2, <2>1 DEF Sweep
  <2> QED  BY <1>1, <1>3, <2>1, <2>2
<1>8. Sweep'
  BY <1>1, <1>2, <1>3, <1>7 DEF Sweep, Shape, Control
<1> QED  BY <1>1, <1>6, <1>8, Quiet

-----------------------------------------------------------------------------
(* The invariant is kept: the growth of the heap.                          *)

\* The search after the collection.
LEMMA InvDecide == ASSUME Shape, Inv, Decide  PROVE Inv'
<1>1. /\ UNCHANGED <<heapStart, pgMapSize, pgMapAt, pgMapUses, osOwned>>
      /\ UNCHANGED <<inGc, live, marked, pgno, current>>
      /\ phase = "decide" /\ phase' \in {"idle", "sweep", "grow"}
      /\ IF pgmapFindFree(top.n).at # None
         THEN /\ pgMap' = Granted(pgmapFindFree(top.n).at, top.n, top.for)
              /\ Hand(pgAt(pgmapFindFree(top.n).at), top.n, top.for)
         ELSE UNCHANGED <<pgMap, sects, nodes>>
  BY DEF Decide, Return, Caller, limits, gcVars, heldVars
<1>2. Owned /\ Described /\ MapLabelled /\ Sweep
  BY <1>1 DEF Inv, Labels
<1>3. PICK n, for : n = top.n /\ for = top.for
  OBVIOUS
<1>4. n \in 1 .. MaxRequest /\ for \in {"section", "nodes"} /\ (inGc => for = "nodes")
  BY <1>1, <1>3, TopType DEF Frames, Shape, Control, top
<1>5. Owned' /\ Described' /\ MapLabelled'
  BY <1>1, <1>2, <1>3, <1>4, GrantKeeps, SameMap
<1>6. inGc => sects' = sects
  BY <1>1, <1>3, <1>4 DEF Hand
<1>7. Sweep'
  BY <1>1, <1>2, <1>6, SameSweep DEF Sweep
<1> QED  BY <1>1, <1>5, <1>7, Quiet

\* The end of pagesGet.
LEMMA InvRetry == ASSUME Shape, Inv, Retry  PROVE Inv'
<1>1. /\ UNCHANGED <<heapStart, pgMapSize, pgMapAt, pgMapUses, osOwned>>
      /\ UNCHANGED <<inGc, live, marked, pgno, current>>
      /\ phase = "retry" /\ phase' \in {"idle", "sweep", "dead"}
      /\ \/ /\ pgmapFindFree(top.n).at # None
            /\ pgMap' = Granted(pgmapFindFree(top.n).at, top.n, top.for)
            /\ Hand(pgAt(pgmapFindFree(top.n).at), top.n, top.for)
         \/ UNCHANGED <<pgMap, sects, nodes>>
  BY DEF Retry, Return, Caller, limits, gcVars, heldVars
<1>2. Owned /\ Described /\ MapLabelled /\ Sweep
  BY <1>1 DEF Inv, Labels
<1>3. PICK n, for : n = top.n /\ for = top.for
  OBVIOUS
<1>4. n \in 1 .. MaxRequest /\ for \in {"section", "nodes"} /\ (inGc => for = "nodes")
  BY <1>1, <1>3, TopType DEF Frames, Shape, Control, top
<1>5. Owned' /\ Described' /\ MapLabelled'
  BY <1>1, <1>2, <1>3, <1>4, GrantKeeps, SameMap
<1>6. inGc => sects' = sects
  BY <1>1, <1>3, <1>4 DEF Hand
<1>7. Sweep'
  BY <1>1, <1>2, <1>6, SameSweep DEF Sweep
<1> QED  BY <1>1, <1>5, <1>7, Quiet

\* osAlloc refuses.
LEMMA InvRefused == ASSUME Shape, Inv, GrowRefused  PROVE Inv'
<1>1. /\ UNCHANGED <<heapStart, pgMap, pgMapSize, pgMapAt, pgMapUses, osOwned, sects, nodes>>
      /\ UNCHANGED <<inGc, live, marked, pgno, current>>
      /\ phase = "grow" /\ phase' \in {"grow", "retry"}
  BY DEF GrowRefused, limits, mapVars, heldVars, gcVars
<1>2. Owned' /\ Described' /\ MapLabelled'
  BY <1>1, SameMap DEF Inv, Labels
<1>3. Sweep'
  BY <1>1, SameSweep DEF Inv, Sweep
<1> QED  BY <1>1, <1>2, <1>3, Quiet

\* osAlloc gives store: it is above the start of the heap, where nobody is.
LEMMA InvGranted ==
    ASSUME "below" \notin Placement, Shape, Inv, GrowGranted
    PROVE  Inv'
<1>1. PICK got \in Nat \ {0}, b \in Nat, side \in Sides, added \in Nat :
         /\ b \in OsPlaces(got, AddrMax) /\ Pages(b, got) \cap osOwned = {}
         /\ side = IF b >= heapEnd THEN "above"
                   ELSE IF b + got <= heapStart THEN "below" ELSE "middle"
         /\ osOwned' = osOwned \cup Pages(b, got)
         /\ heapStart' = IF side = "below" THEN b ELSE heapStart
         /\ request' = [pages |-> got, at |-> b, side |-> side, added |-> added, ok |-> FALSE]
  BY Granting
<1>2. /\ UNCHANGED <<pgMap, pgMapSize, pgMapAt, pgMapUses, sects, nodes>>
      /\ UNCHANGED <<inGc, live, marked, pgno, current>>
      /\ phase = "grow" /\ phase' = "need"
  BY DEF GrowGranted, mapVars, heldVars, gcVars
<1>3. /\ Owned /\ SectionsExact /\ NodesExact /\ FreeExact /\ MapLabelled /\ Sweep /\ Room
      /\ heapStart \in Nat /\ heapEnd \in Nat /\ osOwned \subseteq Addr /\ heapStart \in osOwned
  BY <1>2 DEF Inv, Described, Labels, Shape, Limits
<1>4. heapStart <= b
  <2>1. \E p \in osOwned : p <= b
    BY <1>1, <1>3, OsPlace, PageConstants
  <2>2. PICK p \in osOwned : p <= b
    BY <2>1
  <2>3. p \in Int /\ heapStart <= p
    BY <1>3 DEF Owned, Addr, MapAddrMax
  <2> QED  BY <1>3, <2>2, <2>3
<1>5. side # "below" /\ heapStart' = heapStart
  BY <1>1, <1>3, <1>4
<1>6. /\ \A j : pgAt(j)' = pgAt(j)
      /\ \A p : pgNo(p)' = pgNo(p)
      /\ \A s : SectionPages(s)' = SectionPages(s)
      /\ MapPages' = MapPages /\ Held' = Held
  BY <1>2, <1>5 DEF pgAt, pgNo, SectionPages, MapPages, Held
<1>7. \A p \in Pages(b, got) : heapStart <= p
  BY <1>3, <1>4 DEF Pages
<1>8. Owned'
  BY <1>1, <1>2, <1>3, <1>5, <1>6, <1>7 DEF Owned
<1>9. Described'
  BY <1>1, <1>2, <1>3, <1>6 DEF Described, SectionsExact, NodesExact, FreeExact
<1>10. MapLabelled'
  BY <1>2, <1>3, <1>6 DEF MapLabelled
<1>11. Sweep'
  BY <1>2, <1>3, <1>5, SameSweep DEF Sweep
<1>12. Growing'
  <2>1. NewPages' = Pages(b, got) /\ request'.side = side
    BY <1>1 DEF NewPages
  <2>2. Pages(b, got) \subseteq osOwned' \ (Held' \cup MapPages')
    BY <1>1, <1>3, <1>6 DEF Owned
  <2>3. \A i \in DOMAIN pgMap : pgMap[i] = "Free" => pgAt(i) \notin Pages(b, got)
    BY <1>1, <1>3 DEF FreeExact
  <2> QED  BY <1>2, <1>5, <1>6, <2>1, <2>2, <2>3 DEF Growing
<1>13. Room' /\ Labels'
  BY <1>2, <1>3, <1>10 DEF Room, Labels
<1> QED  BY <1>8, <1>9, <1>11, <1>12, <1>13 DEF Inv

\* The map moves to pages in use by nobody, and those it was in become free.
LEMMA MoveKeeps ==
    ASSUME Shape, Inv, phase = "need",
           NEW p \in Addr, NEW uses \in Nat, uses > pgMapUses,
           pgMapSize + request.added <= uses * MapEntries,
           MoveMap(p, uses),
           UNCHANGED <<limits, pgMapSize, heldVars, gcVars, request>>,
           NEW given, osOwned' = osOwned \cup given,
           \A q \in given : heapStart <= q,
           \A q \in Pages(p, uses) : q \in osOwned' /\ q \notin Held /\ q \notin NewPages,
           \/ heapStart <= p /\ p + uses <= heapStart + pgMapSize
           \/ \A q \in Pages(p, uses) : q \notin osOwned
    PROVE  Inv'
<1> PICK D, old : D = DOMAIN pgMap /\ old = MapPages
  OBVIOUS
<1>1. /\ UNCHANGED <<heapStart, heapEnd, pgMapSize, sects, nodes, request>>
      /\ UNCHANGED <<inGc, live, marked, pgno, current>>
      /\ pgMapAt' = p /\ pgMapUses' = uses /\ phase' \in {"put", "corrupt"}
  BY DEF MoveMap, limits, heldVars, gcVars
<1>2. /\ Owned /\ SectionsExact /\ NodesExact /\ FreeExact /\ MapLabelled
      /\ Growing /\ Room /\ Sweep
      /\ heapStart \in Nat /\ heapEnd \in Nat /\ pgMapSize \in Nat /\ osOwned \subseteq Addr
      /\ pgMapAt \in Nat /\ pgMapUses \in Nat /\ request.added \in Nat
      /\ pgMap \in [D -> PgKind] /\ D = 0 .. pgMapSize - 1
      /\ pgMapSize + request.added <= heapEnd - heapStart
  BY MapDomain DEF Inv, Described, Labels, Shape, Limits, Added, Requests, Addr, MapAddrMax
<1>3. /\ \A j : pgAt(j)' = pgAt(j)
      /\ \A q : pgNo(q)' = pgNo(q)
      /\ \A s : SectionPages(s)' = SectionPages(s)
      /\ MapPages' = Pages(p, uses) /\ Held' = Held /\ NewPages' = NewPages
  BY <1>1 DEF pgAt, pgNo, SectionPages, MapPages, Held, NewPages
<1>4. old \subseteq osOwned /\ \A q \in old : q \notin Held
  BY <1>2 DEF Owned
<1>5. \A j \in D : j \in Pages(pgNo(pgMapAt), pgMapUses) => pgAt(j) \in old
  BY <1>2 DEF pgNo, pgAt, MapPages, Pages
<1>6. /\ DOMAIN pgMap' = D
      /\ \A j \in D : pgMap'[j] = pgMap[j] \/ (pgMap'[j] = "Free" /\ pgAt(j) \in old)
  <2>1. CASE pgMap' = pgMap
    BY <1>2, <2>1
  <2>2. CASE pgMap' = pgmapMod(pgMap, pgNo(pgMapAt), pgMapUses, "Free")
    BY <1>2, <1>5, <2>2 DEF pgmapMod
  <2> QED  BY <2>1, <2>2 DEF MoveMap
<1>7. \A j \in D : pgAt(j) \notin old => pgMap'[j] = pgMap[j]
  BY <1>6
<1>8. \A q \in osOwned : q \in Int /\ pgAt(pgNo(q)) = q
  BY <1>2 DEF Addr, MapAddrMax, pgAt, pgNo
<1>9. Owned'
  BY <1>1, <1>2, <1>3 DEF Owned
<1>10. SectionsExact'
  <2>1. ASSUME NEW s \in DOMAIN sects, NEW q \in SectionPages(s)
        PROVE  /\ pgNo(q) \in D
               /\ pgMap'[pgNo(q)] = IF q = s THEN "BusyFirst" ELSE "BusyFollow"
    <3>1. q \in osOwned /\ q \notin old
      BY <1>2, <1>4, HeldIs DEF Owned
    <3> QED  BY <1>2, <1>7, <1>8, <3>1 DEF SectionsExact
  <2>2. ASSUME NEW j \in D, pgMap'[j] \in {"BusyFirst", "BusyFollow"}
        PROVE  pgMap[j] = pgMap'[j]
    BY <1>6, <2>2
  <2> QED  BY <1>1, <1>2, <1>3, <1>6, <2>1, <2>2 DEF SectionsExact
<1>11. NodesExact'
  <2>1. ASSUME NEW q \in nodes  PROVE pgNo(q) \in D /\ pgMap'[pgNo(q)] = "Node"
    <3>1. q \in osOwned /\ q \notin old
      BY <1>2, <1>4, HeldIs DEF Owned
    <3> QED  BY <1>2, <1>7, <1>8, <3>1 DEF NodesExact
  <2> QED  BY <1>1, <1>2, <1>3, <1>6, <2>1 DEF NodesExact
<1>12. FreeExact'
  <2>1. ASSUME NEW j \in D, pgMap'[j] = "Free"
        PROVE  pgAt(j) \in osOwned /\ pgAt(j) \notin Held
    BY <1>2, <1>4, <1>6, <2>1 DEF FreeExact
  <2> QED  BY <1>1, <1>3, <1>6, <2>1 DEF FreeExact
<1>13. Labels'
  <2>1. CASE heapStart <= p /\ p + uses <= heapStart + pgMapSize
    <3>1. isInHeap(p)' /\ isInHeap(p + uses - 1)'
      BY <1>1, <1>2, <2>1 DEF isInHeap, Addr, MapAddrMax
    <3> QED  BY <1>1, <3>1 DEF Labels, MapInHeap
  <2>2. CASE \A q \in Pages(p, uses) : q \notin osOwned
    <3>1. ASSUME NEW q \in Pages(p, uses), pgNo(q) \in D
          PROVE  pgMap'[pgNo(q)] \in {"PgMap", "Foreign"}
      <4>1. q \in Int /\ pgAt(pgNo(q)) = q /\ q \notin osOwned /\ q \notin old /\ q \notin Held
        BY <1>2, <1>4, <2>2 DEF Addr, MapAddrMax, Pages, pgAt, pgNo
      <4>2. pgMap'[pgNo(q)] = pgMap[pgNo(q)] /\ pgMap[pgNo(q)] \in PgKind
        BY <1>2, <1>7, <3>1, <4>1
      <4>3. pgMap[pgNo(q)] # "Free"
        BY <1>2, <3>1, <4>1 DEF FreeExact
      <4>4. pgMap[pgNo(q)] # "Node"
        BY <1>2, <3>1, <4>1, HeldIs DEF NodesExact
      <4>5. pgMap[pgNo(q)] # "BusyFollow"
        BY <1>2, <3>1, <4>1, HeldIs DEF SectionsExact
      <4>6. pgMap[pgNo(q)] # "BusyFirst"
        <5>1. q \in DOMAIN sects => q \in SectionPages(q)
          BY <1>2, <4>1 DEF Owned, SectionPages, Pages
        <5> QED  BY <1>2, <3>1, <4>1, <5>1, HeldIs DEF SectionsExact
      <4> QED  BY <4>2, <4>3, <4>4, <4>5, <4>6 DEF PgKind
    <3>2. MapLabelled'
      BY <1>3, <1>6, <3>1 DEF MapLabelled
    <3> QED  BY <1>1, <3>2 DEF Labels
  <2> QED  BY <2>1, <2>2
<1>14. Growing'
  <2>1. NewPages \subseteq osOwned /\ \A q \in NewPages : q \notin Held /\ q \notin old
    BY <1>2 DEF Growing
  <2>2. \A j \in D : pgMap'[j] = "Free" => pgAt(j) \notin NewPages
    BY <1>2, <1>6, <2>1 DEF Growing
  <2> QED  BY <1>1, <1>2, <1>3, <1>6, <2>1, <2>2 DEF Growing
<1>15. Room'
  <2>1. MapEntries \in Nat
    BY PageConstants
  <2>2. uses * MapEntries \in Nat
    BY <2>1
  <2> QED  BY <1>1, <1>2, <2>2 DEF Room
<1>16. Sweep'
  <2>1. inGc /\ phase' # "sweep" => current # None
    BY <1>2 DEF Sweep
  <2> QED  BY <1>1, <1>2, <2>1, SameSweep
<1> QED  BY <1>9, <1>10, <1>11, <1>12, <1>13, <1>14, <1>15, <1>16 DEF Inv, Described

\* Room for the larger map, in the heap or from the OS, or none.
LEMMA InvNeed ==
    ASSUME "below" \notin Placement, Shape, Inv, pgmapNeed
    PROVE  Inv'
<1> PICK uses : uses = pgLen(pgMapSize + request.added)
  OBVIOUS
<1>1. /\ phase = "need"
      /\ UNCHANGED <<limits, pgMapSize, heldVars, gcVars, request>>
      /\ UNCHANGED <<heapStart, pgMapSize, sects, nodes, request>>
      /\ UNCHANGED <<inGc, live, marked, pgno, current>>
  BY DEF pgmapNeed, limits, heldVars, gcVars
<1>2. /\ Owned /\ Described /\ MapLabelled /\ Growing /\ Room /\ Sweep
      /\ heapStart \in Nat /\ osOwned \subseteq Addr /\ heapStart \in osOwned
      /\ pgMapSize \in Nat /\ request.added \in Nat /\ pgMapUses \in Nat
  BY <1>1 DEF Inv, Labels, Shape, Limits, Requests
<1>3. /\ uses \in Nat /\ pgMapSize + request.added <= uses * MapEntries
      /\ \/ /\ pgMapUses >= uses /\ phase' = "put"
            /\ UNCHANGED <<pgMap, pgMapAt, pgMapUses, osOwned>>
         \/ /\ uses > pgMapUses
            /\ \E p \in Addr :
                  /\ MoveMap(p, uses)
                  /\ heapStart <= p /\ p + uses <= heapStart + pgMapSize
                  /\ \A i \in Pages(pgNo(p), uses) : pgMap[i] = "Free"
            /\ osOwned' = osOwned
         \/ /\ uses > pgMapUses
            /\ \E p \in Addr, n \in Nat :
                  /\ MoveMap(p, uses)
                  /\ n >= uses /\ p \in OsPlaces(n, MapAddrMax)
                  /\ p + n <= MapAddrMax + 1 /\ Pages(p, n) \cap osOwned = {}
                  /\ osOwned' = osOwned \cup Pages(p, n)
         \/ /\ phase' = "retry" /\ UNCHANGED <<pgMap, pgMapAt, pgMapUses, osOwned>>
  BY <1>1, Needing
<1>4. ASSUME UNCHANGED <<pgMap, pgMapAt, pgMapUses, osOwned>>,
             phase' = "retry" \/ (phase' = "put" /\ pgMapUses >= uses)
      PROVE  Inv'
  <2>1. Owned' /\ Described' /\ MapLabelled'
    BY <1>1, <1>2, <1>4, SameMap
  <2>2. Sweep'
    BY <1>1, <1>2, <1>4, SameSweep DEF Sweep
  <2>3. Growing'
    <3>1. NewPages' = NewPages /\ MapPages' = MapPages /\ Held' = Held
          /\ \A j : pgAt(j)' = pgAt(j)
      BY <1>1, <1>4 DEF NewPages, MapPages, Held, SectionPages, pgAt
    <3> QED  BY <1>1, <1>2, <1>4, <3>1 DEF Growing
  <2>4. Room'
    <3>1. MapEntries \in Nat
      BY PageConstants
    <3>2. pgMapUses >= uses => uses * MapEntries <= pgMapUses * MapEntries
      BY <1>2, <1>3, <3>1
    <3>3. uses * MapEntries \in Nat /\ pgMapUses * MapEntries \in Nat
      BY <1>2, <1>3, <3>1
    <3> QED  BY <1>1, <1>2, <1>3, <1>4, <3>2, <3>3 DEF Room
  <2>5. Labels'
    BY <2>1 DEF Labels
  <2> QED  BY <2>1, <2>2, <2>3, <2>4, <2>5 DEF Inv
<1>5. ASSUME NEW p \in Addr, uses > pgMapUses, MoveMap(p, uses), osOwned' = osOwned,
             heapStart <= p, p + uses <= heapStart + pgMapSize,
             \A i \in Pages(pgNo(p), uses) : pgMap[i] = "Free"
      PROVE  Inv'
  <2>1. ASSUME NEW q \in Pages(p, uses)
        PROVE  q \in osOwned /\ q \notin Held /\ q \notin NewPages
    <3>1. PICK i : i = pgNo(q)
      OBVIOUS
    <3>2. p \in Nat /\ q \in Int /\ i \in Pages(pgNo(p), uses) /\ pgAt(i) = q
          /\ i \in 0 .. pgMapSize - 1
      BY <1>2, <1>3, <1>5, <3>1 DEF Addr, MapAddrMax, Pages, pgNo, pgAt
    <3>3. i \in DOMAIN pgMap /\ pgMap[i] = "Free"
      BY <1>5, <3>2, MapDomain
    <3> QED  BY <1>1, <1>2, <3>2, <3>3 DEF Described, FreeExact, Growing
  <2>2. \A q \in Pages(p, uses) : q \in osOwned' /\ q \notin Held /\ q \notin NewPages
    BY <1>5, <2>1
  <2>3. PICK given : given = {}
    OBVIOUS
  <2>4. osOwned' = osOwned \cup given /\ \A q \in given : heapStart <= q
    BY <1>5, <2>3
  <2> QED  BY <1>1, <1>3, <1>5, <2>2, <2>4, MoveKeeps
<1>6. ASSUME NEW p \in Addr, NEW n \in Nat, uses > pgMapUses, MoveMap(p, uses), n >= uses,
             p \in OsPlaces(n, MapAddrMax), Pages(p, n) \cap osOwned = {},
             osOwned' = osOwned \cup Pages(p, n)
      PROVE  Inv'
  <2>1. heapStart <= p
    <3>1. n \in Nat \ {0} /\ MapAddrMax \in Nat
      BY <1>2, <1>3, <1>6, PageConstants DEF MapAddrMax
    <3>2. \E q \in osOwned : q <= p
      BY <1>2, <1>6, <3>1, OsPlace, PageConstants
    <3>3. PICK q \in osOwned : q <= p
      BY <3>2
    <3>4. q \in Int /\ heapStart <= q /\ p \in Int
      BY <1>2 DEF Owned, Addr, MapAddrMax
    <3> QED  BY <1>2, <3>3, <3>4
  <2>2. \A q \in Pages(p, n) : heapStart <= q
    BY <1>2, <2>1 DEF Pages, Addr, MapAddrMax
  <2>3. \A q \in Pages(p, uses) : q \in Pages(p, n)
    BY <1>3, <1>6 DEF Pages, Addr, MapAddrMax
  <2>4. \A q \in Pages(p, uses) : q \notin osOwned /\ q \in osOwned'
    BY <1>6, <2>3
  <2>5. \A q \in Pages(p, uses) : q \notin Held /\ q \notin NewPages
    BY <1>1, <1>2, <2>4 DEF Owned, Growing
  <2> QED  BY <1>1, <1>3, <1>6, <2>2, <2>4, <2>5, MoveKeeps
<1> QED  BY <1>3, <1>4, <1>5, <1>6

\* The new store and the map's own pages are entered in the map.
LEMMA InvPut == ASSUME Shape, Inv, pagesPut  PROVE Inv'
<1> PICK D, E : D = DOMAIN pgMap /\ E = DOMAIN pgMap'
  OBVIOUS
<1>1. /\ phase = "put" /\ phase' \in {"corrupt", "retry"}
      /\ UNCHANGED <<heapStart, pgMapAt, pgMapUses, osOwned, sects, nodes>>
      /\ UNCHANGED <<inGc, live, marked, pgno, current>>
  BY DEF pagesPut, limits, heldVars, gcVars
<1>2. /\ Owned /\ SectionsExact /\ NodesExact /\ FreeExact /\ Growing /\ Room /\ Sweep
      /\ MapLabelled \/ MapInHeap
      /\ heapStart \in Nat /\ pgMapSize \in Nat /\ osOwned \subseteq Addr
      /\ pgMapAt \in Nat /\ pgMapUses \in Nat
      /\ request.added \in Nat /\ request.at \in Int /\ request.pages \in Nat
      /\ pgMap \in [D -> PgKind] /\ D = 0 .. pgMapSize - 1
  BY <1>1, MapDomain DEF Inv, Described, Labels, Shape, Requests, Addr, MapAddrMax
<1>3. /\ \A j : pgAt(j)' = pgAt(j)
      /\ \A q : pgNo(q)' = pgNo(q)
      /\ \A s : SectionPages(s)' = SectionPages(s)
      /\ MapPages' = MapPages /\ Held' = Held
  BY <1>1 DEF pgAt, pgNo, SectionPages, MapPages, Held
<1>4. /\ pgMapSize' = pgMapSize + request.added /\ E = 0 .. pgMapSize + request.added - 1
      /\ D \subseteq E
      /\ \A i \in E : pgMap'[i] =
             IF MapInHeap /\ i \in Pages(pgNo(pgMapAt), pgMapUses) THEN "PgMap"
             ELSE IF i \in Pages(pgNo(request.at), request.pages) THEN "Free" ELSE Longer[i]
  <2>1. /\ pgMapSize' = pgMapSize + request.added
        /\ pgMap' \in [0 .. pgMapSize' - 1 -> PgKind]
        /\ \A i \in 0 .. pgMapSize' - 1 : pgMap'[i] =
             IF /\ isInHeap(pgMapAt) /\ isInHeap(pgMapAt + pgMapUses - 1)
                /\ i \in Pages(pgNo(pgMapAt), pgMapUses)
             THEN "PgMap"
             ELSE IF i \in Pages(pgNo(request.at), request.pages) THEN "Free" ELSE Longer[i]
    BY Putting
  <2>2. D \subseteq E /\ E = 0 .. pgMapSize + request.added - 1
    BY <1>2, <2>1
  <2> QED  BY <2>1, <2>2 DEF MapInHeap
<1>5. \A i \in E : Longer[i] = IF i \in D THEN pgMap[i] ELSE "Foreign"
  <2>1. request.side # "below"
    BY <1>1, <1>2 DEF Growing
  <2> QED  BY <1>2, <1>4, <2>1 DEF Longer
<1>6. ASSUME NEW i \in E
      PROVE  /\ i \in Pages(pgNo(pgMapAt), pgMapUses) <=> pgAt(i) \in MapPages
             /\ i \in Pages(pgNo(request.at), request.pages) <=> pgAt(i) \in NewPages
  <2>1. i \in Int /\ pgMapAt \in Int /\ pgMapUses \in Int
        /\ request.at \in Int /\ request.pages \in Int /\ heapStart \in Nat
    BY <1>2, <1>4
  <2>2. pgNo(pgAt(i)) = i /\ pgAt(i) \in Int
    BY <2>1, AtNo
  <2> QED  BY <2>1, <2>2, AtNo DEF MapPages, NewPages
<1>7. ASSUME NEW i \in E
      PROVE  pgMap'[i] = IF MapInHeap /\ pgAt(i) \in MapPages THEN "PgMap"
                         ELSE IF pgAt(i) \in NewPages THEN "Free"
                         ELSE IF i \in D THEN pgMap[i] ELSE "Foreign"
  BY <1>4, <1>5, <1>6
<1>8. \A q \in osOwned : q \in Int /\ pgAt(pgNo(q)) = q
  BY <1>2 DEF Addr, MapAddrMax, pgAt, pgNo
<1>9. NewPages \subseteq osOwned /\ \A q \in NewPages : q \notin Held /\ q \notin MapPages
  BY <1>1, <1>2 DEF Growing
<1>10. ASSUME NEW q \in Held, pgNo(q) \in D
       PROVE  pgNo(q) \in E /\ pgMap'[pgNo(q)] = pgMap[pgNo(q)]
  <2>1. q \in osOwned /\ q \notin MapPages /\ q \notin NewPages
    BY <1>2, <1>9 DEF Owned
  <2> QED  BY <1>4, <1>7, <1>8, <1>10, <2>1
<1>11. Owned'
  BY <1>1, <1>2, <1>3 DEF Owned
<1>12. SectionsExact'
  <2>1. ASSUME NEW s \in DOMAIN sects, NEW q \in SectionPages(s)
        PROVE  /\ pgNo(q) \in E
               /\ pgMap'[pgNo(q)] = IF q = s THEN "BusyFirst" ELSE "BusyFollow"
    BY <1>2, <1>10, HeldIs DEF SectionsExact
  <2>2. ASSUME NEW j \in E, pgMap'[j] \in {"BusyFirst", "BusyFollow"}
        PROVE  j \in D /\ pgMap[j] = pgMap'[j]
    BY <1>7, <2>2
  <2> QED  BY <1>1, <1>2, <1>3, <1>4, <2>1, <2>2 DEF SectionsExact
<1>13. NodesExact'
  <2>1. ASSUME NEW q \in nodes  PROVE pgNo(q) \in E /\ pgMap'[pgNo(q)] = "Node"
    BY <1>2, <1>10, HeldIs DEF NodesExact
  <2>2. ASSUME NEW j \in E, pgMap'[j] = "Node"  PROVE pgAt(j) \in nodes
    <3>1. j \in D /\ pgMap[j] = "Node"
      BY <1>7, <2>2
    <3> QED  BY <1>2, <3>1 DEF NodesExact
  <2> QED  BY <1>1, <1>3, <1>4, <2>1, <2>2 DEF NodesExact
<1>14. FreeExact'
  <2>1. ASSUME NEW j \in E, pgMap'[j] = "Free"
        PROVE  pgAt(j) \in osOwned /\ pgAt(j) \notin Held
    <3>1. pgAt(j) \in NewPages \/ (j \in D /\ pgMap[j] = "Free")
      BY <1>7, <2>1
    <3> QED  BY <1>2, <1>9, <3>1 DEF FreeExact
  <2> QED  BY <1>1, <1>3, <1>4, <2>1 DEF FreeExact
<1>15. MapLabelled'
  <2>1. ASSUME NEW q \in MapPages, pgNo(q) \in E
        PROVE  pgMap'[pgNo(q)] \in {"PgMap", "Foreign"}
    <3>1. pgAt(pgNo(q)) = q /\ q \notin NewPages
      BY <1>2, <1>8, <1>9 DEF Owned
    <3>2. MapInHeap => pgMap'[pgNo(q)] = "PgMap"
      BY <1>7, <2>1, <3>1
    <3>3. ~MapInHeap => pgMap'[pgNo(q)] = IF pgNo(q) \in D THEN pgMap[pgNo(q)] ELSE "Foreign"
      BY <1>7, <2>1, <3>1
    <3> QED  BY <1>2, <3>2, <3>3 DEF MapLabelled
  <2> QED  BY <1>3, <1>4, <2>1 DEF MapLabelled
<1>16. Room' /\ Labels' /\ Growing'
  BY <1>1, <1>2, <1>4, <1>15 DEF Room, Labels, Growing
<1>17. Sweep'
  <2>1. inGc /\ phase' # "sweep" => current # None
    BY <1>1, <1>2 DEF Sweep
  <2> QED  BY <1>1, <1>2, <2>1, SameSweep
<1> QED  BY <1>11, <1>12, <1>13, <1>14, <1>16, <1>17 DEF Inv, Described

\* Every step keeps the invariant.
LEMMA InvStep ==
    ASSUME "below" \notin Placement, Shape, Inv, [Next]_vars
    PROVE  Inv'
<1>1. ASSUME NEW n \in 1 .. MaxRequest, pagesGet(n)  PROVE Inv'
  BY <1>1, InvEnter DEF pagesGet
<1>2. CASE NodePage \/ NodeForClient
  <2>1. 1 \in 1 .. MaxRequest
    BY PageConstants
  <2> QED  BY <1>2, <2>1, InvEnter DEF NodePage, NodeForClient, AskNodePage
<1>3. ASSUME NEW level \in Levels, stoCtl(level)  PROVE Inv'
  <2>1. /\ UNCHANGED <<heapStart, pgMap, pgMapSize, pgMapAt, pgMapUses, osOwned, sects, nodes>>
        /\ UNCHANGED <<inGc, live, marked, pgno, current, phase>> /\ phase = "idle"
    BY <1>3 DEF stoCtl, limits, mapVars, heldVars, gcVars
  <2>2. Owned' /\ Described' /\ MapLabelled'
    BY <2>1, SameMap DEF Inv, Labels
  <2>3. Sweep'
    BY <2>1, SameSweep DEF Inv, Sweep, Shape, Control
  <2> QED  BY <2>1, <2>2, <2>3, Quiet
<1>4. CASE UNCHANGED vars
  BY <1>4 DEF vars, limits, mapVars, heldVars, gcVars, Inv, Owned, Described, SectionsExact,
              NodesExact, FreeExact, Labels, MapLabelled, MapInHeap, Growing, Room, Sweep,
              Held, MapPages, NewPages, SectionPages, pgAt, pgNo, isInHeap
<1> QED
  BY <1>1, <1>2, <1>3, <1>4, InvSweep, InvLeave, InvDecide, InvRefused, InvGranted, InvNeed,
     InvPut, InvRetry
  DEF Next, Allocator, Client

-----------------------------------------------------------------------------
(* Theorems.                                                               *)

\* The invariant holds in every reachable state.
THEOREM InvCorrect ==
    ASSUME "below" \notin Placement
    PROVE  Spec => []Inv
  BY ShapeCorrect, InvInit, InvStep, PTL DEF Spec

\* Every variable keeps its type, and no more than two calls of pagesGet are
\* ever in progress: the client's, and the one the free tree makes.
THEOREM TypeCorrect ==
    ASSUME "below" \notin Placement
    PROVE  Spec => []TypeOK
<1>1. Shape /\ Inv => TypeOK
  <2> SUFFICES ASSUME Shape, Inv  PROVE TypeOK
    OBVIOUS
  <2>1. nodes \subseteq Addr
    BY HeldIs DEF Inv, Owned, Shape
  <2>2. Len(frames) <= 2
    BY DEF Shape, Control, Outer
  <2>3. current \in Addr \cup {None}
    BY DEF Inv, Sweep, Owned
  <2> QED  BY <2>1, <2>2, <2>3 DEF TypeOK, Shape, Inv, Owned, Sweep
<1> QED  BY <1>1, ShapeCorrect, InvCorrect, PTL

\* Between two updates what the page map calls free is the program's and in use
\* by nobody, and what it calls busy is a section where it says so.
THEOREM MapExactCorrect ==
    ASSUME "below" \notin Placement
    PROVE  Spec => []MapExact
<1>1. Shape /\ Inv => MapExact
  <2> SUFFICES ASSUME Shape, Inv  PROVE MapExact
    OBVIOUS
  <2>1. SectionsMapped
    BY DEF Inv, Described, SectionsExact, SectionsMapped
  <2>2. ASSUME Stable, NEW i \in DOMAIN pgMap, pgMap[i] = "Free"
        PROVE  pgAt(i) \in osOwned /\ pgAt(i) \notin Held \cup MapPages
    <3>1. MapLabelled /\ FreeExact /\ Owned
      BY <2>2 DEF Inv, Labels, Described, Stable
    <3>2. pgNo(pgAt(i)) = i
      BY <2>2, MapDomain, AtNo DEF Shape
    <3> QED  BY <2>2, <3>1, <3>2 DEF FreeExact, MapLabelled
  <2> QED  BY <2>1, <2>2 DEF MapExact, FreeIsUnused
<1> QED  BY <1>1, ShapeCorrect, InvCorrect, PTL

\* The map fits where it is, in pages of the program's that no section has.
THEOREM MapIsSafeCorrect ==
    ASSUME "below" \notin Placement
    PROVE  Spec => []MapIsSafe
<1>1. Inv => MapIsSafe
  BY DEF Inv, MapIsSafe, Owned, Labels, MapLabelled, Room, Stable
<1> QED  BY <1>1, InvCorrect, PTL

\* A collection leaves every section with a piece in use where it is, though a
\* page taken for the free tree moves and lengthens the map in mid-sweep.
THEOREM LiveCorrect ==
    ASSUME "below" \notin Placement
    PROVE  Spec => LiveSectionsKept
<1>1. ASSUME Shape, Inv, [Next]_vars, NEW s \in live \cap DOMAIN sects
      PROVE  s \in DOMAIN sects'
  <2>1. ASSUME NEW p, NEW n, NEW for, Hand(p, n, for)  PROVE s \in DOMAIN sects'
    BY <1>1, <2>1 DEF Hand
  <2>2. ASSUME NEW n, NEW for, Enter(n, for)  PROVE s \in DOMAIN sects'
    BY <1>1, <2>1, <2>2 DEF Enter, heldVars
  <2>3. CASE LeaveSection
    <3>1. current # None
      BY <2>3 DEF LeaveSection
    <3>2. heapStart \in Nat /\ current = pgAt(pgno) /\ pgno \in Nat
      BY <1>1, <3>1 DEF Inv, Sweep, Shape
    <3>3. s \in marked \/ pgNo(s) < pgno
      BY <1>1 DEF Inv, Sweep
    <3>4. s = current => s \in marked
      <4>1. pgNo(current) = pgno /\ ~ (pgno < pgno)
        BY <3>2, AtNo
      <4> QED  BY <3>3, <4>1
    <3> QED  BY <1>1, <2>3, <3>4 DEF LeaveSection
  <2>4. CASE Decide \/ Retry
    BY <1>1, <2>1, <2>4 DEF Decide, Retry, heldVars
  <2>5. CASE UNCHANGED sects
    BY <1>1, <2>5
  <2> QED
    BY <1>1, <2>2, <2>3, <2>4, <2>5
    DEF Next, Allocator, Client, pagesGet, NodePage, NodeForClient, AskNodePage, Collect,
        SkipPage, EnterSection, EndSweep, GrowRefused, GrowGranted, pgmapNeed, pagesPut, stoGc, stoCtl, heldVars, vars
<1>2. Shape /\ Inv /\ [Next]_vars =>
          [\A s \in live \cap DOMAIN sects : s \in DOMAIN sects']_vars
  BY <1>1
<1> QED  BY <1>2, ShapeCorrect, InvCorrect, PTL DEF Spec, LiveSectionsKept

-----------------------------------------------------------------------------
(* What the OS gives is found.                                             *)

\* A run of free pages at the end of the map, long enough and not before the
\* cursor, makes the search succeed: the first run it stops at cannot be one
\* that the end of the map cuts short.
LEMMA LastRunFound ==
    ASSUME pgMapSize \in Nat, found \in Nat, NEW n \in Nat \ {0},
           NEW last \in Nat, found <= last, last + n <= pgMapSize,
           \A j \in last .. pgMapSize - 1 : pgMap[j] = "Free"
    PROVE  pgmapFindFree(n).at # None
<1> DEFINE free(i) == i \in found .. last /\ \A j \in i .. last : pgMap[j] = "Free"
           I == {i \in Nat : free(i)}
           A == Stops(found, pgMapSize, n)
<1>1. PICK first \in I : \A y \in I : first <= y
  <2>1. last \in I
    OBVIOUS
  <2>2. Least(I) \in I /\ \A y \in I : Least(I) <= y
    BY <2>1, LeastOf
  <2> QED  BY <2>2
<1>2. /\ first \in Nat /\ found <= first /\ first <= last
      /\ \A j \in first .. last : pgMap[j] = "Free"
  BY <1>1
<1>3. first = found \/ pgMap[first - 1] # "Free"
  <2> SUFFICES ASSUME first # found, pgMap[first - 1] = "Free"  PROVE FALSE
    OBVIOUS
  <2>1. first - 1 \in found .. last /\ first - 1 \in Nat
    BY <1>2
  <2>2. \A j \in first - 1 .. last : pgMap[j] = "Free"
    <3>1. \A j \in first - 1 .. last : j = first - 1 \/ j \in first .. last
      BY <1>2
    <3> QED  BY <1>2, <3>1
  <2>3. first - 1 \in I
    BY <2>1, <2>2
  <2> QED  BY <1>1, <1>2, <2>3
<1>4. IsRun(first, n)
  <2>1. first + n <= pgMapSize
    BY <1>2
  <2>2. \A j \in Pages(first, n) : j \in first .. last \/ j \in last .. pgMapSize - 1
    BY <1>2, <2>1 DEF Pages
  <2> QED  BY <1>2, <2>1, <2>2 DEF IsRun
<1>5. first \in A
  <2>1. first \in found .. (pgMapSize - 1) /\ pgMap[first] = "Free"
    BY <1>2
  <2> QED  BY <1>3, <1>4, <2>1 DEF Stops, RunStarts
<1>6. A \in SUBSET Nat /\ \A i \in A : i + n > pgMapSize \/ IsRun(i, n)
  BY DEF Stops, RunStarts
<1>7. Least(A) \in A /\ Least(A) <= first
  BY <1>5, <1>6, LeastOf
<1>8. IsRun(Least(A), n) /\ Least(A) \in Nat
  BY <1>2, <1>6, <1>7
<1>9. A # {}
  BY <1>5
<1>10. pgmapFindFree(n).at = Least(A)
  BY <1>8, <1>9 DEF pgmapFindFree
<1> QED  BY <1>8, <1>10 DEF None

\* Store given above the heap ends the map, and the search has not passed it.
Last ==
    /\ found <= pgMapSize
    /\ phase \in {"grow", "need"} => ~request.ok
    /\ phase \in {"need", "put"} =>
          /\ pgNo(request.at) >= pgMapSize
          /\ pgNo(request.at) + request.pages = pgMapSize + request.added
    /\ phase = "retry" /\ request.ok =>
          /\ found <= pgNo(request.at)
          /\ pgNo(request.at) + request.pages = pgMapSize
          /\ \A i \in Pages(pgNo(request.at), request.pages) : pgMap[i] = "Free"

\* A request that is made is not yet granted.
LEMMA AskedNotOk ==
    ASSUME NEW g
    PROVE  ~ [NoRequest EXCEPT !.pages = g].ok
<1>1. PICK r \in Requests : r = NoRequest /\ ~r.ok
  BY NoRequestType
<1>2. [r EXCEPT !.pages = g].ok = r.ok
  BY DEF Requests
<1> QED  BY <1>1, <1>2

\* At first the cursor is at the start of the map.
LEMMA LastInit == Init => Last
  BY DEF Init, Last, NoRequest

\* A search leaves its cursor within the map.
LEMMA CursorStays ==
    ASSUME Shape, Last, NEW n \in Nat \ {0},
           found' \in {found, pgmapFindFree(n).found}, pgMapSize' = pgMapSize
    PROVE  found' <= pgMapSize'
<1>1. pgMapSize \in Nat /\ found \in Nat /\ found <= pgMapSize
  BY DEF Shape, Last
<1>2. pgmapFindFree(n).found <= pgMapSize
  <2>1. CASE pgmapFindFree(n).at = None
    BY <1>1, <2>1, FindFree
  <2>2. CASE pgmapFindFree(n).at # None
    BY <1>1, <2>2, FindFree
  <2> QED  BY <2>1, <2>2
<1> QED  BY <1>1, <1>2

\* Away from the growth of the heap only the cursor matters.
LEMMA LastOther ==
    ASSUME found' <= pgMapSize', phase' \notin {"need", "put"},
           phase' \in {"grow", "retry"} => ~request'.ok
    PROVE  Last'
  BY DEF Last

\* The store is beyond the end of the heap, which is the end of the map.
LEMMA LastGranted ==
    ASSUME Placement \subseteq {"above"}, Shape, Exact, Last, GrowGranted
    PROVE  Last'
<1>1. PICK got \in Nat \ {0}, b \in Nat, side \in Sides, added \in Nat :
         /\ b \in OsPlaces(got, AddrMax)
         /\ side = IF b >= heapEnd THEN "above"
                   ELSE IF b + got <= heapStart THEN "below" ELSE "middle"
         /\ heapEnd' = IF side = "above" THEN b + got ELSE heapEnd
         /\ heapStart' = IF side = "below" THEN b ELSE heapStart
         /\ request' = [pages |-> got, at |-> b, side |-> side, added |-> added, ok |-> FALSE]
         /\ heapEnd' - heapStart' = heapEnd - heapStart + added
  BY Granting
<1>2. phase = "grow" /\ phase' = "need" /\ UNCHANGED <<pgMapSize, found>>
  BY DEF GrowGranted, mapVars
<1>3. /\ osOwned \subseteq Addr /\ heapStart \in osOwned /\ heapEnd - 1 \in osOwned
      /\ heapStart \in Nat /\ heapEnd \in Nat /\ pgMapSize \in Nat
      /\ pgMapSize = heapEnd - heapStart /\ found <= pgMapSize
  BY <1>2 DEF Shape, Limits, Exact, Added, Last
<1>4. b >= heapEnd
  <2>1. \A p \in osOwned : p < b
    BY <1>1, <1>3, OsPlace, PageConstants
  <2> QED  BY <1>3, <2>1
<1>5. side = "above" /\ heapEnd' = b + got /\ heapStart' = heapStart
  BY <1>1, <1>4
<1>6. b - heapStart >= pgMapSize /\ (b - heapStart) + got = pgMapSize + added
  BY <1>1, <1>3, <1>4, <1>5
<1>7. /\ pgNo(request.at)' = b - heapStart
      /\ request'.pages = got /\ request'.added = added /\ ~request'.ok
  BY <1>1, <1>5 DEF pgNo
<1> QED  BY <1>2, <1>3, <1>6, <1>7 DEF Last

\* The map is moved, if at all, before the store is entered in it.
LEMMA LastNeed ==
    ASSUME Shape, Exact, Last, pgmapNeed
    PROVE  Last'
<1> PICK uses : uses = pgLen(pgMapSize + request.added)
  OBVIOUS
<1>1. phase = "need" /\ UNCHANGED <<heapStart, pgMapSize, request>>
  BY DEF pgmapNeed, limits
<1>2. phase' \in {"put", "retry", "corrupt"} /\ ~request.ok
  BY <1>1 DEF pgmapNeed, MoveMap, Last
<1>3. found' <= pgMapSize'
  <2>1. /\ uses \in Nat /\ pgMapUses \in Nat
        /\ (found' = found \/ (uses > pgMapUses /\ found' = pgmapFindFree(uses).found))
    BY Needing DEF pgmapNeed, Shape
  <2>2. uses > pgMapUses => uses \in Nat \ {0}
    BY <2>1
  <2>3. CASE found' = found
    BY <1>1, <2>3 DEF Last
  <2>4. CASE uses > pgMapUses /\ found' = pgmapFindFree(uses).found
    BY <1>1, <2>2, <2>4, CursorStays
  <2> QED  BY <2>1, <2>3, <2>4
<1>4. pgNo(request.at)' = pgNo(request.at)
  BY <1>1 DEF pgNo
<1> QED  BY <1>1, <1>2, <1>3, <1>4 DEF Last

\* The end of the map is the store just given.
LEMMA LastPut ==
    ASSUME Shape, Inv, Last, pagesPut
    PROVE  Last'
<1>1. /\ phase = "put" /\ phase' \in {"corrupt", "retry"}
      /\ UNCHANGED <<heapStart, found>>
      /\ request' = [request EXCEPT !.ok = TRUE]
  BY DEF pagesPut, limits
<1>2. request'.at = request.at /\ request'.pages = request.pages
  BY <1>1 DEF Shape, Requests
<1>3. /\ pgNo(request.at) >= pgMapSize /\ found <= pgMapSize
      /\ pgNo(request.at) + request.pages = pgMapSize + request.added
      /\ pgMapSize \in Nat /\ found \in Nat /\ request.added \in Nat
      /\ request.pages \in Nat /\ request.at \in Int /\ heapStart \in Nat
      /\ pgMapAt \in Nat /\ pgMapUses \in Nat
      /\ \A q \in NewPages : q \notin MapPages
  BY <1>1 DEF Last, Shape, Requests, Inv, Growing, Addr, MapAddrMax
<1>4. pgNo(request.at) \in Int
  BY <1>3 DEF pgNo
<1>5. pgMapSize' = pgMapSize + request.added
  BY Putting
<1>6. ASSUME NEW i \in Pages(pgNo(request.at), request.pages)  PROVE pgMap'[i] = "Free"
  <2>1. i \in 0 .. pgMapSize' - 1
    BY <1>3, <1>4, <1>5 DEF Pages
  <2>2. i \notin Pages(pgNo(pgMapAt), pgMapUses)
    <3>1. i \in Int /\ pgAt(i) \in Int /\ pgNo(pgAt(i)) = i
      BY <1>3, <2>1, AtNo
    <3>2. pgAt(i) \in NewPages
      <4> PICK at, n : at = request.at /\ n = request.pages
        OBVIOUS
      <4>1. pgAt(i) \in Pages(at, n)
        BY <1>3, <1>6, <3>1 DEF pgAt, pgNo, Pages
      <4> QED  BY <4>1 DEF NewPages
    <3>3. pgAt(i) \notin MapPages
      BY <1>3, <3>2
    <3> QED  BY <1>3, <3>1, <3>3, AtNo DEF MapPages
  <2> QED  BY <2>1, <2>2, Putting
<1>7. pgNo(request.at)' = pgNo(request.at)
  BY <1>1, <1>2 DEF pgNo
<1>8. found' <= pgMapSize' /\ found' <= pgNo(request.at)
  BY <1>1, <1>3, <1>4, <1>5
<1> QED  BY <1>1, <1>2, <1>3, <1>5, <1>6, <1>7, <1>8 DEF Last

\* Every step keeps it.
LEMMA LastStep ==
    ASSUME Placement \subseteq {"above"}, Shape, Exact, Inv, Last, [Next]_vars
    PROVE  Last'
<1>1. ASSUME NEW n \in 1 .. MaxRequest, NEW for, Enter(n, for),
             phase \in {"idle", "sweep"}
      PROVE  Last'
  <2>1. n \in Nat \ {0} /\ found' = pgmapFindFree(n).found /\ pgMapSize' = pgMapSize
        /\ phase' \in {phase, "collect"}
    BY <1>1 DEF Enter
  <2> QED  BY <1>1, <2>1, CursorStays, LastOther
<1>2. ASSUME NEW n \in 1 .. MaxRequest, pagesGet(n)  PROVE Last'
  BY <1>1, <1>2 DEF pagesGet
<1>3. CASE NodePage \/ NodeForClient
  <2>1. 1 \in 1 .. MaxRequest
    BY PageConstants
  <2> QED  BY <1>1, <1>3, <2>1 DEF NodePage, NodeForClient, AskNodePage
<1>4. CASE Decide
  <2>1. top.n \in Nat \ {0}
    BY <1>4, TopType DEF Decide
  <2>2. /\ found' = pgmapFindFree(top.n).found /\ pgMapSize' = pgMapSize
        /\ phase' \in {"idle", "sweep", "grow"}
    BY <1>4 DEF Decide, Return, Caller
  <2>3. phase' = "grow" => ~request'.ok
    BY <1>4, AskedNotOk DEF Decide, Return, Caller
  <2> QED  BY <2>1, <2>2, <2>3, CursorStays, LastOther
<1>5. CASE Retry
  <2>1. top.n \in Nat \ {0}
    BY <1>5, TopType DEF Retry
  <2>2. /\ found' \in {found, pgmapFindFree(top.n).found} /\ pgMapSize' = pgMapSize
        /\ phase' \in {"idle", "sweep", "dead"}
    BY <1>5 DEF Retry, Return, Caller
  <2> QED  BY <2>1, <2>2, CursorStays, LastOther
<1>6. CASE Collect \/ GrowRefused \/ SkipPage \/ EnterSection \/ LeaveSection \/ EndSweep \/ stoGc
           \/ \E level \in Levels : stoCtl(level)
  <2>1. /\ found' = found /\ pgMapSize' = pgMapSize
        /\ phase' \in {"idle", "sweep", "decide", "grow", "retry"}
    BY <1>6 DEF Collect, GrowRefused, SkipPage, EnterSection, Sweeping, LeaveSection, EndSweep,
                stoGc, stoCtl, BeginSweep, mapVars
  <2>2. found' <= pgMapSize'
    BY <2>1 DEF Last
  <2>3. phase' \in {"grow", "retry"} => ~request'.ok
    <3>1. CASE Collect
      BY <3>1, AskedNotOk DEF Collect, BeginSweep
    <3>2. CASE GrowRefused
      BY <3>2 DEF GrowRefused, Last, Shape, Requests
    <3>3. CASE ~ (Collect \/ GrowRefused)
      BY <1>6, <3>3 DEF SkipPage, EnterSection, Sweeping, LeaveSection, EndSweep,
                        stoGc, stoCtl, BeginSweep
    <3> QED  BY <3>1, <3>2, <3>3
  <2> QED  BY <2>1, <2>2, <2>3, LastOther
<1>7. CASE UNCHANGED vars
  BY <1>7 DEF vars, limits, mapVars, Last, pgNo
<1> QED
  BY <1>2, <1>3, <1>4, <1>5, <1>6, <1>7, LastGranted, LastNeed, LastPut DEF Next, Allocator, Client

\* Once the OS has given the pages asked for, above the heap, pagesGet does not
\* fail: they are found, wherever the search left its cursor, as long as the map
\* has never been refused the pages it needed.
THEOREM GrowthCorrect ==
    ASSUME Placement \subseteq {"above"}
    PROVE  Spec => []GrowthSuffices
<1>1. Spec => []Inv
  BY InvCorrect
<1>2. Shape /\ Inv /\ (Exact => Last) /\ [Next]_vars => (Exact => Last)'
  BY ExactBefore, LastStep
<1>3. Spec => [](Exact => Last)
  BY <1>1, <1>2, ShapeCorrect, LastInit, PTL DEF Spec
<1>4. Shape /\ (Exact => Last) => GrowthSuffices
  <2> SUFFICES ASSUME Shape, Last, phase = "retry", request.ok
               PROVE  pgmapFindFree(top.n).at # None
    BY DEF GrowthSuffices, MapIsWhole, Exact, Added, Shape
  <2>1. /\ pgMapSize \in Nat /\ found \in Nat /\ found <= pgNo(request.at)
        /\ pgNo(request.at) + request.pages = pgMapSize
        /\ request.pages \in Nat /\ request.pages >= top.n
        /\ request.at \in Int /\ heapStart \in Nat
        /\ \A i \in Pages(pgNo(request.at), request.pages) : pgMap[i] = "Free"
    BY DEF Shape, Last, Asked, Requests
  <2>2. top.n \in Nat \ {0}
    BY TopType
  <2>3. PICK last : last = pgNo(request.at)
    OBVIOUS
  <2>4. last \in Nat /\ last + top.n <= pgMapSize
    BY <2>1, <2>2, <2>3 DEF pgNo
  <2>5. \A j \in last .. pgMapSize - 1 : pgMap[j] = "Free"
    BY <2>1, <2>3, <2>4 DEF Pages
  <2> QED  BY <2>1, <2>2, <2>3, <2>4, <2>5, LastRunFound
<1> QED  BY <1>3, <1>4, ShapeCorrect, PTL
=============================================================================
