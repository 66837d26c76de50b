--------------------------- MODULE StoMixedProofs ---------------------------
(***************************************************************************)
(* Proofs about StoMixed: as long as no collection comes while a piece is  *)
(* linked, the pieces of a section stay in a row, the free tree has every  *)
(* free piece once and no two of them are neighbours, no piece the client  *)
(* can reach is taken, and a collection leaves no section that could go.   *)
(***************************************************************************)
EXTENDS StoMixedPieces

-----------------------------------------------------------------------------
(* Heaps in order: what the calls and the sweep do to them.                *)

\* The free pieces of a heap between two links.
LEMMA FreeIs ==
    ASSUME NEW h \in Heaps
    PROVE  FreeIn(h, None) = h.isFree /\ h.isFree \ {None} = h.isFree /\ h.isFree \subseteq Addr
  BY NoneIs DEF FreeIn, Heaps

\* Another tag for the piece p.
LEMMA RetagIs ==
    ASSUME NEW h \in Heaps, Tiled(h), NEW p \in StartsOf(h), NEW kind \in {"FreeFirst", "BusyFirst"}
    PROVE  LET g == [h EXCEPT !.tag[p] = kind] IN
           /\ g \in Heaps /\ Tiled(g) /\ StartsOf(g) = StartsOf(h)
           /\ g.sects = h.sects /\ g.this = h.this /\ g.isFree = h.isFree /\ g.tree = h.tree
           /\ g.frontier = h.frontier
           /\ \A x \in Addr : g.tag[x] = IF x = p THEN kind ELSE h.tag[x]
<1> DEFINE tag == [h.tag EXCEPT ![p] = kind]
           g == [h EXCEPT !.tag = tag]
<1>1. p \in Addr /\ h.this[p] # 0
  BY DEF StartsOf, Heaps
<1>2. tag \in [Addr -> Kinds] /\ \A x \in Addr : tag[x] = IF x = p THEN kind ELSE h.tag[x]
  BY <1>1 DEF Heaps, Kinds
<1>3. [h EXCEPT !.tag[p] = kind] = g
  OBVIOUS
<1> HIDE DEF tag
<1>4. /\ g \in Heaps /\ g.sects = h.sects /\ g.this = h.this /\ g.prev = h.prev
      /\ g.isFree = h.isFree /\ g.tree = h.tree /\ g.frontier = h.frontier /\ g.tag = tag
  BY <1>2 DEF Heaps
<1>5. \A x \in Addr : g.tag[x] = "Follow" <=> h.tag[x] = "Follow"
  BY <1>1, <1>2, <1>4 DEF Tiled
<1>6. Tiled(g) /\ StartsOf(g) = StartsOf(h)
  BY <1>4, <1>5, SameTiles
<1> QED  BY <1>2, <1>3, <1>4, <1>6

\* g is h in which the piece p, in use before, waits for piecePutMixed.
IsFreed(g, h, p) ==
    /\ Pending(g, p, None)
    /\ StartsOf(g) = StartsOf(h) /\ g.sects = h.sects /\ g.this = h.this
    /\ g.isFree = h.isFree /\ g.frontier = h.frontier /\ p \notin h.isFree
    /\ \A x \in Addr : g.tag[x] = IF x = p THEN "FreeFirst" ELSE h.tag[x]

\* A piece in use is freed.
LEMMA FreedIs ==
    ASSUME NEW h, Good(h, None, None), NEW p \in StartsOf(h), h.tag[p] = "BusyFirst", NEW g,
           g = [h EXCEPT !.tag[p] = "FreeFirst"]
    PROVE  IsFreed(g, h, p)
<1>1. h \in Heaps /\ Tiled(h) /\ StartsOf(h) \subseteq Addr
  BY DEF Good, StartsOf
<1>2. /\ g \in Heaps /\ Tiled(g) /\ StartsOf(g) = StartsOf(h)
      /\ g.sects = h.sects /\ g.this = h.this /\ g.isFree = h.isFree /\ g.tree = h.tree
      /\ g.frontier = h.frontier
      /\ \A x \in Addr : g.tag[x] = IF x = p THEN "FreeFirst" ELSE h.tag[x]
  BY <1>1, RetagIs
<1>3. FreeIn(h, None) = h.isFree /\ h.isFree \ {None} = h.isFree
  BY <1>1, FreeIs
<1>4. p \notin h.isFree \cup {h.frontier, None}
  BY <1>3 DEF Good, Sound
<1>5. h.isFree \ {p} = h.isFree
  BY <1>4
<1>6. Sound(g, g.isFree \cup {p}, None)
  <2>1. Sound(h, h.isFree, None)
    BY <1>3 DEF Good
  <2> QED  BY <2>1, <1>1, <1>2, <1>4, NoneIs DEF Sound
<1>7. Pending(g, p, None)
  BY <1>2, <1>3, <1>5, <1>6 DEF Good, Pending, Apart
<1> QED  BY <1>2, <1>4, <1>7 DEF IsFreed

\* The frontier is given up: it waits for piecePutMixed, or is given away.
LEMMA FrontierIs ==
    ASSUME NEW h, Good(h, None, None), NEW f, f = h.frontier, f # None, NEW g,
           g = [h EXCEPT !.frontier = None]
    PROVE  /\ Pending(g, f, None) /\ Good(g, None, f)
           /\ StartsOf(g) = StartsOf(h) /\ g.sects = h.sects /\ g.this = h.this
           /\ g.isFree = h.isFree /\ g.frontier = None /\ g.tag = h.tag
<1>1. /\ h \in Heaps /\ Tiled(h) /\ FreeIn(h, None) = h.isFree /\ h.isFree \ {None} = h.isFree
      /\ Sound(h, h.isFree, None)
  BY FreeIs DEF Good
<1>2. /\ g \in Heaps /\ g.sects = h.sects /\ g.this = h.this /\ g.prev = h.prev
      /\ g.isFree = h.isFree /\ g.tree = h.tree /\ g.frontier = None /\ g.tag = h.tag
  BY <1>1 DEF Heaps
<1>3. Tiled(g) /\ StartsOf(g) = StartsOf(h)
  BY <1>1, <1>2, SameTiles
<1>4. f \in StartsOf(h) \ h.isFree /\ h.isFree \ {f} = h.isFree
  BY <1>1 DEF Sound
<1>5. Sound(g, g.isFree \cup {f}, None) /\ Sound(g, g.isFree, f)
  BY <1>1, <1>2, <1>3, <1>4, NoneIs DEF Sound
<1>6. Apart(g, g.isFree) /\ TreeFor(g.tree, g.this, g.isFree)
  BY <1>1, <1>2 DEF Good, Apart
<1>7. Pending(g, f, None)
  BY <1>2, <1>3, <1>4, <1>5, <1>6 DEF Pending
<1>8. FreeIn(g, None) = g.isFree /\ g.isFree \ {None} = g.isFree
  BY <1>2, FreeIs
<1>9. Good(g, None, f)
  BY <1>2, <1>3, <1>5, <1>6, <1>8 DEF Good
<1> QED  BY <1>2, <1>3, <1>7, <1>9

\* g is h with the piece f, which is given away, cut: the rest is no one's.
IsCut(g, h, f, n) ==
    /\ IsSplit(g, h, f, n, f + n)
    /\ g \in Heaps /\ Tiled(g) /\ g.isFree = h.isFree /\ g.tree = h.tree
    /\ TreeFor(g.tree, g.this, g.isFree)
    /\ Apart(g, g.isFree)
    /\ f \in StartsOf(h) /\ f \notin h.isFree /\ h.frontier # f
    /\ Sound(h, h.isFree, f)

\* mxmemSplit of a piece that is given away.
LEMMA CutIs ==
    ASSUME NEW h, NEW f, f # None, Good(h, None, f), NEW n \in Nat \ {0}, n < h.this[f], NEW g,
           g = mxmemSplit(h, f, n)
    PROVE  IsCut(g, h, f, n)
<1>1. /\ h \in Heaps /\ Tiled(h) /\ FreeIn(h, None) = h.isFree /\ h.isFree \ {None} = h.isFree
      /\ Sound(h, h.isFree, f)
  BY FreeIs DEF Good
<1>2. f \in StartsOf(h) \ h.isFree /\ h.frontier # f
  BY <1>1 DEF Sound
<1>3. IsSplit(g, h, f, n, f + n) /\ Tiled(g)
  BY <1>1, <1>2, SplitIs, SplitTiled
<1>4. g \in Heaps /\ g.isFree = h.isFree /\ g.tree = h.tree
  BY <1>2, <1>3 DEF IsSplit
<1>5. \A x \in h.isFree : g.this[x] = h.this[x]
  <2>1. h.isFree \subseteq StartsOf(h) /\ StartsOf(h) \subseteq Addr
    BY <1>1 DEF Sound, StartsOf
  <2> QED  BY <2>1, <1>2, <1>3 DEF IsSplit
<1>6. TreeFor(g.tree, g.this, g.isFree)
  BY <1>1, <1>4, <1>5, SameTree DEF Good
<1>7. Apart(g, g.isFree)
  BY <1>1, <1>4, <1>5 DEF Good, Apart
<1> QED  BY <1>1, <1>2, <1>3, <1>4, <1>6, <1>7 DEF IsCut

\* The rest becomes the frontier, or there is no rest worth a piece.
LEMMA FromFrontierIs ==
    ASSUME NEW h \in Heaps, NEW h0, h0 = [h EXCEPT !.frontier = None], NEW f, f # None,
           Good(h0, None, f), NEW n \in Nat \ {0}, n <= h.this[f], NEW g,
           g = FromFrontier(h, f, n)
    PROVE  /\ Good(g, None, f)
           /\ g.sects = h.sects /\ StartsOf(h) \subseteq StartsOf(g) /\ f \in StartsOf(g)
           /\ \A x \in StartsOf(h) : g.tag[x] = h.tag[x]
<1>1. /\ h0 \in Heaps /\ h0.sects = h.sects /\ h0.this = h.this /\ h0.prev = h.prev
      /\ h0.isFree = h.isFree /\ h0.tree = h.tree /\ h0.frontier = None /\ h0.tag = h.tag
      /\ StartsOf(h0) = StartsOf(h)
  BY DEF Heaps, Good, StartsOf
<1>2. FreeIn(h0, None) = h0.isFree /\ Sound(h0, h0.isFree, f) /\ f \in StartsOf(h0)
  BY <1>1, FreeIs DEF Good, Sound
<1>3. CASE ~ shdSplit(h.this[f], n)
  <2>1. g = h0
    BY <1>3 DEF FromFrontier
  <2> QED  BY <2>1, <1>1, <1>2
<1>4. CASE shdSplit(h.this[f], n)
  <2> DEFINE r == f + n
  <2>1. PICK m : m = mxmemSplit(h0, f, n)
    OBVIOUS
  <2>2. f \in Addr /\ f \in Nat /\ h.this[f] \in Nat /\ n < h0.this[f]
    BY <1>1, <1>2, <1>4, Numbers DEF shdSplit, StartsOf, Heaps
  <2>3. /\ IsSplit(m, h0, f, n, r)
        /\ m \in Heaps /\ Tiled(m) /\ m.isFree = h0.isFree /\ m.tree = h0.tree
        /\ TreeFor(m.tree, m.this, m.isFree)
        /\ Apart(m, m.isFree) /\ f \notin h0.isFree
    <3>1. IsCut(m, h0, f, n)
      BY <2>1, <2>2, CutIs
    <3> QED  BY <3>1 DEF IsCut
  <2>4. /\ r \in Addr \ StartsOf(h) /\ f < r
        /\ m.sects = h.sects
        /\ \A x \in Addr : m.tag[x] = IF x = r THEN "FreeFirst" ELSE h.tag[x]
        /\ StartsOf(m) = StartsOf(h) \cup {r}
    BY <2>3, <1>1 DEF IsSplit
  <2> HIDE DEF r
  <2>5. g = [m EXCEPT !.frontier = r]
    <3>1. g = [mxmemSplit(h, f, n) EXCEPT !.frontier = r]
      BY <1>4 DEF FromFrontier, r
    <3>2. SetBehind(h, f + n, h.this[f] - n) = SetBehind(h0, f + n, h0.this[f] - n)
      BY <1>1 DEF SetBehind
    <3>3. m = [mxmemSplit(h, f, n) EXCEPT !.frontier = None]
      BY <2>1, <3>2, <1>1 DEF mxmemSplit, Heaps
    <3> QED  BY <3>1, <3>3 DEF mxmemSplit, Heaps
  <2>6. /\ g \in Heaps /\ g.sects = m.sects /\ g.this = m.this /\ g.prev = m.prev
        /\ g.isFree = m.isFree /\ g.tree = m.tree /\ g.frontier = r /\ g.tag = m.tag
    BY <2>3, <2>4, <2>5 DEF Heaps
  <2>7. Tiled(g) /\ StartsOf(g) = StartsOf(m)
    BY <2>3, <2>6, SameTiles
  <2>8. FreeIn(g, None) = g.isFree /\ g.isFree \ {None} = g.isFree
    BY <2>6, FreeIs
  <2>9. Sound(g, g.isFree, f)
    <3>1. StartsOf(h) \subseteq Addr
      BY DEF StartsOf
    <3> QED  BY <3>1, <2>2, <2>3, <2>4, <2>6, <2>7, <1>1, <1>2, NoneIs DEF Sound
  <2>10. Good(g, None, f)
    BY <2>3, <2>6, <2>7, <2>8, <2>9 DEF Good, Apart
  <2>11. StartsOf(h) \subseteq Addr /\ r \notin StartsOf(h)
    BY <2>4 DEF StartsOf
  <2> QED  BY <2>4, <2>6, <2>7, <2>10, <2>11, <1>1, <1>2
<1> QED  BY <1>3, <1>4

\* The first piece of a list of the tree: a free piece of the size of the list.
LEMMA HeadIs ==
    ASSUME NEW h, Good(h, None, None), NEW k \in Sizes(h), NEW p, p = Head(h.tree[k])
    PROVE  p \in h.isFree /\ h.this[p] = k
<1>1. TreeFor(h.tree, h.this, h.isFree)
  BY FreeIs DEF Good
<1>2. p \in ToSet(h.tree[k])
  <2>1. h.tree[k] \in Seq(Addr) /\ h.tree[k] # <<>>
    BY <1>1, TreeTyped DEF TreeFor, Sizes
  <2>2. Len(h.tree[k]) \in Nat \ {0} /\ DOMAIN h.tree[k] = 1 .. Len(h.tree[k])
    BY <2>1, EmptySeq, LenProperties
  <2>3. p = h.tree[k][1]
    BY <2>1
  <2> QED  BY <2>2, <2>3 DEF ToSet
<1> QED  BY <1>1, <1>2 DEF TreeFor, Sizes

\* The heap without the piece p, which is taken from the tree.
TreeTaken(h, p) ==
    [h EXCEPT !.isFree = h.isFree \ {p}, !.tree = mxmemUnlinkFromBTree(h.tree, p)]
IsTaken(g, h, p, k) ==
    /\ Good(g, None, p) /\ p \in StartsOf(h) /\ h.this[p] = k /\ p \in h.isFree
    /\ StartsOf(g) = StartsOf(h) /\ g.sects = h.sects /\ g.this = h.this
    /\ g.isFree = h.isFree \ {p} /\ g.frontier = h.frontier /\ g.tag = h.tag

\* The best fit is taken from its list.
LEMMA TakenIs ==
    ASSUME NEW h, Good(h, None, None), NEW k \in Sizes(h), NEW p, p = Head(h.tree[k])
    PROVE  IsTaken(TreeTaken(h, p), h, p, k)
<1> DEFINE g == TreeTaken(h, p)
<1>1. /\ h \in Heaps /\ Tiled(h) /\ FreeIn(h, None) = h.isFree /\ h.isFree \ {None} = h.isFree
      /\ Sound(h, h.isFree, None) /\ TreeFor(h.tree, h.this, h.isFree)
  BY FreeIs DEF Good
<1>2. p \in h.isFree /\ h.this[p] = k
  BY HeadIs
<1>3. p \in h.isFree /\ h.this[p] = k /\ p \in StartsOf(h)
  BY <1>1, <1>2 DEF Sound
<1> DEFINE tree == mxmemUnlinkFromBTree(h.tree, p)
           free == h.isFree \ {p}
<1>4. TreeFor(tree, h.this, free) /\ tree \in FreeTrees
  <2>1. TreeFor(tree, h.this, free)
    BY <1>1, <1>3, UnlinkFromBTreeIs
  <2> QED  BY <2>1 DEF TreeFor
<1>5. free \subseteq Addr
  BY <1>1 DEF Heaps
<1> HIDE DEF tree, free, g
<1>6. /\ g \in Heaps /\ g.sects = h.sects /\ g.this = h.this /\ g.prev = h.prev
      /\ g.isFree = free /\ g.tree = tree /\ g.frontier = h.frontier /\ g.tag = h.tag
  BY <1>1, <1>4, <1>5 DEF Heaps, tree, free, g, TreeTaken
<1>7. Tiled(g) /\ StartsOf(g) = StartsOf(h)
  BY <1>1, <1>6, SameTiles
<1>8. FreeIn(g, None) = g.isFree /\ g.isFree \ {None} = g.isFree
  BY <1>6, FreeIs
<1>9. Apart(g, g.isFree)
  BY <1>1, <1>6 DEF Good, Apart, free
<1>10. Sound(g, g.isFree, p)
  <2>1. p # None /\ h.frontier # p
    BY <1>1, <1>3, NoneIs DEF Sound
  <2>2. \A x \in StartsOf(g) : g.tag[x] = "FreeFirst" <=> x \in g.isFree \cup {g.frontier, p}
    <3> TAKE x \in StartsOf(g)
    <3>1. h.tag[x] = "FreeFirst" <=> x \in h.isFree \cup {h.frontier, None}
      BY <1>1, <1>7 DEF Sound
    <3>2. x # None
      BY NoneIs
    <3> QED  BY <3>1, <3>2, <1>3, <1>6 DEF free
  <2> QED  BY <2>1, <2>2, <1>1, <1>3, <1>6, <1>7 DEF Sound, free
<1>11. Good(g, None, p)
  BY <1>4, <1>6, <1>7, <1>8, <1>9, <1>10 DEF Good
<1> QED  BY <1>3, <1>6, <1>7, <1>11 DEF free, g, IsTaken

\* The rest of a piece taken from the tree waits for piecePutMixed, which finds
\* no free piece next to it.
LEMMA RestIs ==
    ASSUME NEW h, NEW p, p # None, Good(h, None, p), NEW n \in Nat \ {0}, n < h.this[p],
           \A q \in h.isFree : q # p + h.this[p] \/ q > High(p),
           NEW r, r = p + n, NEW g, g = Freed(mxmemSplit(h, p, n), r)
    PROVE  /\ Pending(g, r, p) /\ Before(g, r) = {} /\ Behind(g, r) = {}
           /\ StartsOf(g) = StartsOf(h) \cup {r} /\ r \notin StartsOf(h) /\ r \in Addr
           /\ g.sects = h.sects /\ g.frontier = h.frontier /\ g.isFree = h.isFree \cup {r}
           /\ g.this[r] = h.this[p] - n
           /\ \A x \in Addr : g.tag[x] = IF x = r THEN "FreeFirst" ELSE h.tag[x]
<1>1. PICK m : m = mxmemSplit(h, p, n)
  OBVIOUS
<1>2. IsCut(m, h, p, n)
  BY <1>1, CutIs
<1>3. /\ IsSplit(m, h, p, n, r)
      /\ m \in Heaps /\ Tiled(m) /\ m.isFree = h.isFree /\ m.tree = h.tree
      /\ TreeFor(m.tree, m.this, m.isFree) /\ Apart(m, m.isFree)
      /\ p \in StartsOf(h) /\ p \notin h.isFree /\ h.frontier # p
      /\ Sound(h, h.isFree, p)
  BY <1>2 DEF IsCut
<1>4. /\ p \in Addr /\ p \in Nat /\ h.this[p] \in Nat \ {0} /\ h \in Heaps
      /\ StartsOf(h) \subseteq Addr /\ h.isFree \subseteq StartsOf(h) /\ PieceFits(h, p)
  BY <1>3, Numbers DEF Good, Sound, Tiled, StartsOf, Heaps
<1>5. /\ r \in Addr /\ r \notin StartsOf(h) /\ p < r /\ r <= High(p) /\ r \in Nat
      /\ m.sects = h.sects /\ m.frontier = h.frontier
      /\ \A x \in Addr : /\ m.this[x] = IF x = p THEN n
                                        ELSE IF x = r THEN h.this[p] - n ELSE h.this[x]
                         /\ m.tag[x] = IF x = r THEN "FreeFirst" ELSE h.tag[x]
      /\ m.prev[r] = n
      /\ StartsOf(m) = StartsOf(h) \cup {r}
  BY <1>3, Numbers DEF IsSplit
<1> DEFINE free == h.isFree \cup {r}
<1>6. g = [m EXCEPT !.isFree = free]
  BY <1>1, <1>3 DEF Freed
<1>7. free \subseteq Addr
  BY <1>4, <1>5
<1> HIDE DEF free
<1>8. /\ g \in Heaps /\ g.sects = m.sects /\ g.this = m.this /\ g.prev = m.prev
      /\ g.isFree = free /\ g.tree = m.tree /\ g.frontier = m.frontier /\ g.tag = m.tag
  BY <1>3, <1>6, <1>7 DEF Heaps
<1>9. Tiled(g) /\ StartsOf(g) = StartsOf(m)
  BY <1>3, <1>8, SameTiles
<1>10. g.isFree \ {r} = h.isFree /\ g.isFree \cup {r} = free
  BY <1>4, <1>5, <1>8 DEF free
<1>11. Sound(g, g.isFree \cup {r}, p)
  <2>1. /\ StartsOf(g) = StartsOf(h) \cup {r} /\ g.frontier = h.frontier
        /\ g.isFree \cup {r} = h.isFree \cup {r} /\ g.tag = m.tag
    BY <1>5, <1>8, <1>9, <1>10 DEF free
  <2>2. /\ h.frontier \in (StartsOf(h) \cup {None}) \ h.isFree
        /\ p \in StartsOf(h) \ h.isFree /\ h.frontier # p
        /\ \A x \in StartsOf(h) : h.tag[x] = "FreeFirst" <=> x \in h.isFree \cup {h.frontier, p}
    BY <1>3 DEF Sound
  <2>3. r # None /\ p # None
    BY <1>4, <1>5, NoneIs
  <2>4. /\ h.frontier \in (StartsOf(g) \cup {None}) \ (h.isFree \cup {r})
        /\ p \in StartsOf(g) \ (h.isFree \cup {r})
    BY <2>1, <2>2, <2>3, <1>5
  <2>5. \A x \in StartsOf(g) : g.tag[x] = "FreeFirst" <=> x \in h.isFree \cup {r, h.frontier, p}
    BY <2>1, <2>2, <1>4, <1>5
  <2> QED  BY <2>1, <2>2, <2>3, <2>4, <2>5, <1>4 DEF Sound
<1>12. Pending(g, r, p)
  BY <1>3, <1>5, <1>8, <1>9, <1>10, <1>11, ZenonT(30) DEF Pending, Apart
<1>13. Before(g, r) = {}
  <2>1. Low(r) = Low(p) /\ Low(p) <= p
    BY <1>4, <1>5, Geometry
  <2>2. mxmemPrev(g, r) = r - n
    BY <2>1, <1>4, <1>5, <1>8, Geometry DEF mxmemPrev, isFirst, Low
  <2>3. r - n = p /\ p \notin g.isFree
    BY <1>3, <1>4, <1>5, <1>8 DEF free
  <2> QED  BY <2>2, <2>3 DEF Before
<1>14. Behind(g, r) = {}
  <2>1. g.this[r] = h.this[p] - n /\ High(r) = High(p) /\ High(p) \in Nat
    BY <1>4, <1>5, <1>8, Geometry
  <2>2. mxmemNext(g, r) = IF r + g.this[r] > High(r) THEN None ELSE r + g.this[r]
    BY DEF mxmemNext, isLast, High
  <2>3. r + g.this[r] = p + h.this[p]
    BY <2>1, <1>4
  <2>4. p + h.this[p] <= High(p) => p + h.this[p] \notin h.isFree
    BY <1>4, <2>1
  <2>5. p + h.this[p] # r
    BY <1>4
  <2>6. mxmemNext(g, r) # None => mxmemNext(g, r) \notin g.isFree
    BY <2>1, <2>2, <2>3, <2>4, <2>5, <1>4, <1>8 DEF free
  <2> QED  BY <2>6 DEF Behind
<1>15. g.this[r] = h.this[p] - n
  BY <1>4, <1>5, <1>8
<1> QED  BY <1>5, <1>8, <1>9, <1>12, <1>13, <1>14, <1>15 DEF free

\* Without free neighbours there is nothing to merge.
LEMMA NothingToMerge ==
    ASSUME NEW h, NEW p, Before(h, p) = {}, Behind(h, p) = {}
    PROVE  Merged(h, p) = [heap |-> h, piece |-> p]
  BY DEF Merged

\* The section s of the heap is new: it is one piece, which is given away.
LEMMA WithSectionGood ==
    ASSUME NEW h, Good(h, None, None), h.frontier = None, NEW s \in Section \ h.sects, NEW g,
           g = WithSection(h, s)
    PROVE  /\ Good(g, None, First(s)) /\ g.frontier = None /\ First(s) # None
           /\ StartsOf(g) = StartsOf(h) \cup {First(s)} /\ g.this[First(s)] = Quanta
           /\ \A x \in StartsOf(h) : g.tag[x] = h.tag[x] /\ x # First(s)
<1>1. /\ h \in Heaps /\ Tiled(h) /\ FreeIn(h, None) = h.isFree /\ h.isFree \ {None} = h.isFree
      /\ Sound(h, h.isFree, None) /\ TreeFor(h.tree, h.this, h.isFree) /\ Apart(h, h.isFree)
  BY FreeIs DEF Good
<1>2. IsWithSection(g, h, s)
  BY <1>1, WithSectionIs
<1>3. /\ Tiled(g)
      /\ StartsOf(g) = StartsOf(h) \cup {First(s)} /\ First(s) \notin StartsOf(h)
      /\ \A x \in StartsOf(h) : SectionOf(x) # s
  BY <1>1, WithSectionTiled
<1>4. First(s) \in Addr /\ StartsOf(h) \subseteq Addr /\ h.isFree \subseteq StartsOf(h)
  BY <1>1, Ends DEF StartsOf, Sound
<1>5. /\ g \in Heaps /\ g.tree = h.tree /\ g.frontier = None /\ g.isFree = h.isFree
      /\ \A x \in StartsOf(h) : g.this[x] = h.this[x] /\ g.tag[x] = h.tag[x]
      /\ g.this[First(s)] = Quanta /\ g.tag[First(s)] = "FreeFirst"
  BY <1>2, <1>3, <1>4 DEF IsWithSection
<1>6. FreeIn(g, None) = g.isFree /\ g.isFree \ {None} = g.isFree
  BY <1>5, FreeIs
<1>7. TreeFor(g.tree, g.this, g.isFree)
  <2>1. \A x \in h.isFree : g.this[x] = h.this[x]
    BY <1>4, <1>5
  <2> QED  BY <2>1, <1>1, <1>5, SameTree
<1>8. Apart(g, g.isFree)
  BY <1>1, <1>4, <1>5 DEF Apart
<1>9. Sound(g, g.isFree, First(s))
  BY <1>1, <1>3, <1>4, <1>5, NoneIs DEF Sound
<1>10. Good(g, None, First(s))
  BY <1>3, <1>5, <1>6, <1>7, <1>8, <1>9 DEF Good
<1> QED  BY <1>3, <1>4, <1>5, <1>10, NoneIs

\* A section without a piece in use and without the frontier is one free piece.
LEMMA OnePiece ==
    ASSUME NEW h, Good(h, None, None), NEW s \in h.sects,
           \A x \in StartsOf(h) : SectionOf(x) = s => h.tag[x] # "BusyFirst" /\ x # h.frontier
    PROVE  /\ First(s) \in h.isFree
           /\ \A x \in StartsOf(h) : SectionOf(x) = s => x = First(s)
<1>1. /\ h \in Heaps /\ Tiled(h) /\ FreeIn(h, None) = h.isFree /\ Sound(h, h.isFree, None)
      /\ Apart(h, h.isFree)
  BY FreeIs DEF Good
<1>2. /\ s \in Section /\ First(s) \in Addr /\ SectionOf(First(s)) = s /\ h.this[First(s)] > 0
      /\ First(s) \in StartsOf(h)
  BY <1>1, Ends DEF Tiled, Heaps, StartsOf
<1>3. ASSUME NEW x \in StartsOf(h), SectionOf(x) = s  PROVE x \in h.isFree
  <2>1. x \in Addr /\ h.tag[x] \in Kinds /\ h.this[x] > 0
    BY <1>1 DEF StartsOf, Heaps
  <2>2. h.tag[x] = "FreeFirst"
    BY <2>1, <1>1, <1>3 DEF Tiled, Kinds
  <2>3. x # None
    BY <2>1, NoneIs
  <2> QED  BY <2>2, <2>3, <1>1, <1>3 DEF Sound
<1>4. ASSUME NEW x \in StartsOf(h), SectionOf(x) = s, x # First(s)  PROVE FALSE
  <2> DEFINE q == mxmemPrev(h, x)
  <2>1. \A y \in StartsOf(h) : PieceFits(h, y)
    BY <1>1 DEF Tiled
  <2>2. x # Low(x) /\ x \in Addr
    BY <1>4 DEF Low, StartsOf
  <2>3. q # None /\ q \in StartsOf(h) /\ mxmemNext(h, q) = x
    BY <2>1, <2>2, <1>1, PrevIs
  <2>4. x = q + h.this[q] /\ SectionOf(x) = SectionOf(q) /\ High(x) = High(q)
    BY <2>1, <2>2, <2>3, <1>1, NextIs, NoneIs
  <2>5. x \in h.isFree /\ q \in h.isFree
    BY <2>3, <2>4, <1>3, <1>4
  <2>6. x > High(q)
    BY <2>4, <2>5, <1>1 DEF Apart
  <2> QED  BY <2>2, <2>4, <2>6, Geometry
<1> QED  BY <1>2, <1>3, <1>4

\* Such a section can go.
LEMMA WithoutSectionGood ==
    ASSUME NEW h, Good(h, None, None), NEW s \in h.sects,
           \A x \in StartsOf(h) : SectionOf(x) = s => h.tag[x] # "BusyFirst" /\ x # h.frontier,
           NEW g, g = WithoutSection(h, s)
    PROVE  /\ InTree(h, First(s))
           /\ Good(g, None, None) /\ g.sects = h.sects \ {s} /\ g.frontier = h.frontier
           /\ StartsOf(g) = {x \in StartsOf(h) : SectionOf(x) # s}
           /\ \A x \in StartsOf(g) : g.tag[x] = h.tag[x] /\ g.this[x] = h.this[x]
<1>1. /\ h \in Heaps /\ Tiled(h) /\ FreeIn(h, None) = h.isFree /\ h.isFree \ {None} = h.isFree
      /\ Sound(h, h.isFree, None) /\ TreeFor(h.tree, h.this, h.isFree) /\ Apart(h, h.isFree)
      /\ s \in Section
  BY FreeIs DEF Good, Heaps
<1>2. First(s) \in h.isFree /\ \A x \in StartsOf(h) : SectionOf(x) = s => x = First(s)
  BY OnePiece
<1>3. InTree(h, First(s))
  BY <1>1, <1>2, InTreeIs
<1> DEFINE tree == mxmemUnlinkFromBTree(h.tree, First(s))
<1>4. TreeFor(tree, h.this, h.isFree \ {First(s)}) /\ tree \in FreeTrees
  <2>1. TreeFor(tree, h.this, h.isFree \ {First(s)})
    BY <1>1, <1>2, UnlinkFromBTreeIs
  <2> QED  BY <2>1 DEF TreeFor
<1>5. g \in Heaps /\ IsWithoutSection(g, h, s)
  BY <1>1, <1>4, WithoutSectionIs
<1>6. Tiled(g) /\ StartsOf(g) = {x \in StartsOf(h) : SectionOf(x) # s}
  BY <1>1, <1>5, WithoutSectionTiled
<1>7. /\ g.sects = h.sects \ {s} /\ g.frontier = h.frontier
      /\ g.tree = tree /\ g.isFree = {q \in h.isFree : SectionOf(q) # s}
      /\ \A x \in StartsOf(g) : g.tag[x] = h.tag[x] /\ g.this[x] = h.this[x]
  BY <1>5, <1>6 DEF IsWithoutSection, StartsOf
<1> HIDE DEF tree
<1>8. SectionOf(First(s)) = s /\ h.isFree \subseteq StartsOf(h)
  BY <1>1, Ends DEF Sound
<1>9. g.isFree = h.isFree \ {First(s)} /\ g.isFree \subseteq StartsOf(g)
  BY <1>2, <1>6, <1>7, <1>8
<1>10. FreeIn(g, None) = g.isFree /\ g.isFree \ {None} = g.isFree
  BY <1>5, FreeIs
<1>11. TreeFor(g.tree, g.this, g.isFree)
  BY <1>4, <1>7, <1>9, SameTree, SMTT(20)
<1>12. Apart(g, g.isFree)
  BY <1>1, <1>7, <1>9 DEF Apart
<1>13. Sound(g, g.isFree, None)
  <2>1. h.frontier \in StartsOf(g) \cup {None}
    BY <1>1, <1>6 DEF Sound
  <2>2. \A p \in StartsOf(g) : g.tag[p] = "FreeFirst" <=> p \in g.isFree \cup {g.frontier, None}
    BY <1>1, <1>6, <1>7, <1>8, <1>9 DEF Sound
  <2> QED  BY <2>1, <2>2, <1>1, <1>7, <1>9 DEF Sound
<1>14. Good(g, None, None)
  BY <1>5, <1>6, <1>10, <1>11, <1>12, <1>13 DEF Good
<1> QED  BY <1>3, <1>6, <1>7, <1>14

-----------------------------------------------------------------------------
(* pieceGetMixed, its first part.                                          *)

\* The same with p cut after n quanta.
Rest(h, p, n) == Freed(mxmemSplit(TreeTaken(h, p), p, n), p + n)

\* The tree may as well be set at the end.
LEMMA TreeLast ==
    ASSUME NEW h \in Heaps, NEW a, NEW t, NEW p, NEW n, NEW r
    PROVE  [Freed(mxmemSplit([h EXCEPT !.tree = a], p, n), r) EXCEPT !.tree = t]
              = Freed(mxmemSplit([h EXCEPT !.tree = t], p, n), r)
<1> DEFINE ha == [h EXCEPT !.tree = a]
           ht == [h EXCEPT !.tree = t]
<1>1. /\ ha.sects = h.sects /\ ha.this = h.this /\ ha.prev = h.prev
      /\ ha.isFree = h.isFree /\ ha.frontier = h.frontier /\ ha.tag = h.tag
      /\ ht.sects = h.sects /\ ht.this = h.this /\ ht.prev = h.prev
      /\ ht.isFree = h.isFree /\ ht.frontier = h.frontier /\ ht.tag = h.tag
  BY DEF Heaps
<1> DEFINE this == [h.this EXCEPT ![p] = n, ![p + n] = h.this[p] - n]
           prev == [SetBehind(h, p + n, h.this[p] - n) EXCEPT ![p + n] = n]
           free == IF p \in h.isFree THEN h.isFree \cup {p + n} ELSE h.isFree
           tag == [h.tag EXCEPT ![p + n] = "FreeFirst"]
<1>2. mxmemSplit(ha, p, n) = [ha EXCEPT !.this = this, !.prev = prev, !.isFree = free, !.tag = tag]
  BY <1>1 DEF mxmemSplit, SetBehind
<1>3. mxmemSplit(ht, p, n) = [ht EXCEPT !.this = this, !.prev = prev, !.isFree = free, !.tag = tag]
  BY <1>1 DEF mxmemSplit, SetBehind
<1> HIDE DEF this, prev, free, tag
<1> QED  BY <1>2, <1>3 DEF Freed, Heaps

\* The best fit, the tree without it and what becomes of the rest.
LEMMA TakeCases ==
    ASSUME Good(heap, None, None), NEW n \in 1 .. MaxRequest, TakeFromTree(n)
    PROVE  \E k \in Sizes(heap) : \E p :
              /\ p = Head(heap.tree[k]) /\ k \in Nat /\ k >= n
              /\ taken' = p /\ wanted' = n
              /\ \/ heap' = TreeTaken(heap, p) /\ limbo' = None /\ phase' = "give"
                 \/ n + 1 < k /\ Put(Rest(heap, p, n), p + n)
                 \/ /\ n + 1 < k /\ k - n \notin Sizes(Rest(heap, p, n))
                    /\ heap' = [Rest(heap, p, n) EXCEPT
                                   !.tree = SetList(Rest(heap, p, n).tree, k - n, <<p + n>>)]
                    /\ limbo' = None /\ phase' = "give"
<1> DEFINE fits == {i \in Sizes(heap) : i >= n}
           k == CHOOSE i \in fits : \A j \in fits : i <= j
           p == Head(heap.tree[k])
           un == mxmemUnlink(heap.tree, p)
           h0 == [heap EXCEPT !.isFree = heap.isFree \ {p}, !.tree = un]
           r == p + n
           h1 == Freed(mxmemSplit(h0, p, n), r)
           without == DeleteSize(un, k)
           g == Rest(heap, p, n)
           hf == [heap EXCEPT !.isFree = heap.isFree \ {p}]
<1>1. /\ heap \in Heaps /\ FreeIn(heap, None) = heap.isFree
      /\ TreeFor(heap.tree, heap.this, heap.isFree)
  BY FreeIs DEF Good
<1>2. Sizes(heap) \subseteq Nat /\ n \in Nat /\ fits # {}
  <2>1. Sizes(heap) \subseteq 1 .. Quanta
    BY <1>1, TreeTyped DEF Sizes, TreeFor
  <2>2. fits # {}
    BY DEF TakeFromTree
  <2> QED  BY <2>1, <2>2, Numbers
<1>3. k \in Sizes(heap) /\ k \in Nat /\ k >= n
  <2>1. \E i \in fits : \A j \in fits : i <= j
    BY <1>2, LeastNumber
  <2> QED  BY <1>2, <2>1
<1>11. /\ wanted' = n /\ taken' = p
       /\ IF ~ shdSplit(k, n)
          THEN /\ heap' = IF h0.tree[k] = <<>> THEN [h0 EXCEPT !.tree = DeleteSize(h0.tree, k)]
                          ELSE h0
               /\ limbo' = None
               /\ phase' = "give"
          ELSE IF ~ (h0.tree[k] = <<>>)
          THEN Put(h1, r)
          ELSE IF \E i \in Sizes(heap) : k - n <= i /\ i < k
          THEN Put([h1 EXCEPT !.tree = DeleteSize(h0.tree, k)], r)
          ELSE /\ heap' = [h1 EXCEPT !.tree = SetList(DeleteSize(h0.tree, k), k - n, <<r>>)]
               /\ limbo' = None
               /\ phase' = "give"
  BY DEF TakeFromTree
<1> HIDE DEF fits, k
<1>14. p = Head(heap.tree[k])
  OBVIOUS
<1> HIDE DEF p
<1>4. p \in heap.isFree /\ heap.this[p] = k
  BY <1>3, <1>14, HeadIs
<1> HIDE DEF h0, h1, without, g, hf, r
<1>5. /\ EntryOf(heap.tree, p) = k /\ k \in DOMAIN heap.tree
      /\ un = SetList(heap.tree, k, RemoveAt(heap.tree[k], PlaceOf(heap.tree[k], p)))
      /\ un[k] = <<>> <=> heap.tree[k] = <<p>>
  <2>1. EntryOf(heap.tree, p) = heap.this[p] /\ heap.this[p] \in DOMAIN heap.tree
    BY <1>1, <1>4, EntryIs
  <2>2. EntryOf(heap.tree, p) = k
    BY <1>4, <2>1
  <2>3. un = SetList(heap.tree, k, RemoveAt(heap.tree[k], PlaceOf(heap.tree[k], p)))
    BY <2>2 DEF mxmemUnlink
  <2>4. mxmemUnlink(heap.tree, p)[heap.this[p]] = <<>> <=> heap.tree[heap.this[p]] = <<p>>
    <3>1. Empties(heap.tree, p, heap.this[p])
      BY <1>1, <1>4, UnlinkIs
    <3> QED  BY <3>1 DEF Empties
  <2>5. un[k] = <<>> <=> heap.tree[k] = <<p>>
    BY <1>4, <2>4
  <2> QED  BY <1>4, <2>1, <2>2, <2>3, <2>5
<1>6. without = DeleteSize(heap.tree, k)
  BY <1>5 DEF DeleteSize, SetList, without
<1> HIDE DEF un
<1>7. mxmemUnlinkFromBTree(heap.tree, p) = IF un[k] = <<>> THEN without ELSE un
  BY <1>5, <1>6 DEF mxmemUnlinkFromBTree, un
<1>8. h0.tree = un
  BY <1>1 DEF Heaps, h0
<1>9. hf \in Heaps
  <2>1. heap.isFree \ {p} \subseteq Addr
    BY <1>1 DEF Heaps
  <2> QED  BY <1>1, <2>1 DEF Heaps, hf
<1>10. /\ h0 = [hf EXCEPT !.tree = un]
       /\ TreeTaken(heap, p) = [hf EXCEPT !.tree = mxmemUnlinkFromBTree(heap.tree, p)]
       /\ [h0 EXCEPT !.tree = without] = [hf EXCEPT !.tree = without]
  BY <1>1 DEF TreeTaken, Heaps, hf, h0
<1>12. CASE ~ shdSplit(k, n)
  <2>1. heap' = TreeTaken(heap, p) /\ limbo' = None /\ phase' = "give"
    BY <1>7, <1>8, <1>10, <1>11, <1>12 DEF without
  <2> QED  BY <2>1, <1>3, <1>11 DEF p
<1>13. CASE shdSplit(k, n)
  <2>1. n + 1 < k
    BY <1>2, <1>3, <1>13 DEF shdSplit
  <2>2. CASE un[k] # <<>>
    <3>1. h1 = g
      BY <2>2, <1>7, <1>10 DEF h1, g, Rest, r
    <3>2. Put(g, r)
      BY <2>2, <3>1, <1>8, <1>11, <1>13
    <3> QED  BY <3>2, <2>1, <1>3, <1>11 DEF p, g, r
  <2>3. CASE un[k] = <<>>
    <3>1. g = Freed(mxmemSplit([hf EXCEPT !.tree = without], p, n), r)
      BY <2>3, <1>7, <1>10 DEF g, Rest, r
    <3>2. [h1 EXCEPT !.tree = without] = g
      <4>1. h1 = Freed(mxmemSplit([hf EXCEPT !.tree = un], p, n), r)
        BY <1>10 DEF h1
      <4>2. [Freed(mxmemSplit([hf EXCEPT !.tree = un], p, n), r) EXCEPT !.tree = without]
               = Freed(mxmemSplit([hf EXCEPT !.tree = without], p, n), r)
        BY <1>9, TreeLast
      <4> QED  BY <3>1, <4>1, <4>2
    <3>3. CASE \E i \in Sizes(heap) : k - n <= i /\ i < k
      <4>1. Put([h1 EXCEPT !.tree = without], r)
        BY <2>3, <3>3, <1>8, <1>11, <1>13 DEF without
      <4>2. Put(g, r)
        BY <3>2, <4>1
      <4> QED  BY <4>2, <2>1, <1>3, <1>11 DEF p, g, r
    <3>4. CASE ~ (\E i \in Sizes(heap) : k - n <= i /\ i < k)
      <4>1. heap' = [h1 EXCEPT !.tree = SetList(without, k - n, <<r>>)] /\ limbo' = None
            /\ phase' = "give"
        BY <2>3, <3>4, <1>8, <1>11, <1>13 DEF without
      <4>2. g.tree = without
        BY <3>1, <1>9 DEF Freed, mxmemSplit, Heaps
      <4>3. heap' = [g EXCEPT !.tree = SetList(g.tree, k - n, <<r>>)]
        <5>1. [[h1 EXCEPT !.tree = without] EXCEPT !.tree = SetList(without, k - n, <<r>>)]
                = [h1 EXCEPT !.tree = SetList(without, k - n, <<r>>)]
          BY <1>9, <1>10, ZenonT(30) DEF h1, Freed, mxmemSplit, Heaps
        <5> QED  BY <5>1, <3>2, <4>1, <4>2
      <4>4. k - n \notin Sizes(g)
        <5>1. k - n \notin Sizes(heap)
          BY <3>4, <1>2, <1>3, <2>1
        <5>2. Sizes(g) = Sizes(heap) \ {k}
          BY <4>2, <1>6 DEF Sizes, DeleteSize
        <5> QED  BY <5>1, <5>2
      <4> QED  BY <4>1, <4>3, <4>4, <2>1, <1>3, <1>11 DEF p, g, r
    <3> QED  BY <3>3, <3>4
  <2> QED  BY <2>2, <2>3
<1> QED  BY <1>12, <1>13

-----------------------------------------------------------------------------
(* Calls: what an action that changes the heap makes of it.                *)

\* The pieces in use.
Busy(h) == {x \in StartsOf(h) : h.tag[x] = "BusyFirst"}

\* A piece is merged with its neighbours and linked, when a node is at hand: the
\* pieces in use stay, and those behind are no pieces any more.
LEMMA PutDone ==
    ASSUME NEW h, NEW p, NEW out, Pending(h, p, out), piecePutMixed(h, p)
    PROVE  /\ Good(heap', None, out)
           /\ Keeps(heap', h, h.isFree \cup {p}) /\ Busy(heap') = Busy(h)
           /\ \A q \in Behind(h, p) : q \notin StartsOf(heap')
<1>1. PICK m : m = Merged(h, p) /\ heap' = Freed(Linked(m.heap, m.piece), m.piece)
  BY DEF piecePutMixed
<1>2. /\ Good(m.heap, m.piece, out) /\ m.piece \in StartsOf(m.heap)
      /\ Keeps(m.heap, h, h.isFree \cup {p})
      /\ \A q \in Behind(h, p) : q \notin StartsOf(m.heap)
  BY <1>1, PutIs
<1>3. PICK g : g = heap'
  OBVIOUS
<1>4. /\ Good(g, None, out)
      /\ StartsOf(g) = StartsOf(m.heap) /\ g.sects = m.heap.sects
      /\ g.frontier = m.heap.frontier /\ g.tag = m.heap.tag
  BY <1>1, <1>2, <1>3, LinkedIs
<1>5. Keeps(g, h, h.isFree \cup {p})
  BY <1>2, <1>4 DEF Keeps
<1>6. Busy(g) = Busy(h)
  <2>1. \A x \in h.isFree \cup {p} : h.tag[x] = "FreeFirst"
    BY DEF Pending, Sound
  <2> QED  BY <2>1, <1>5 DEF Keeps, Busy
<1> QED  BY <1>2, <1>3, <1>4, <1>5, <1>6

\* The same when the link may have to wait for a node.
LEMMA PutGood ==
    ASSUME NEW h, NEW p, Pending(h, p, taken'), Put(h, p)
    PROVE  /\ Good(heap', limbo', taken')
           /\ heap'.frontier = h.frontier /\ Busy(heap') = Busy(h)
           /\ \/ limbo' = None /\ phase' = AfterLink
              \/ /\ limbo' # None /\ phase' = "node"
                 /\ heap'.this[limbo'] \notin Sizes(heap')
<1>1. PICK m, out : m = Merged(h, p) /\ out = taken'
  OBVIOUS
<1>2. /\ ~ Broken(h, p)
      /\ Good(m.heap, m.piece, out) /\ m.piece \in StartsOf(m.heap)
      /\ Keeps(m.heap, h, h.isFree \cup {p})
  BY <1>1, PutIs
<1>3. \/ piecePutMixed(h, p) /\ limbo' = None /\ phase' = AfterLink
      \/ /\ m.heap.this[m.piece] \notin Sizes(m.heap)
         /\ heap' = m.heap /\ limbo' = m.piece /\ phase' = "node"
  BY <1>1, <1>2 DEF Put
<1>4. CASE piecePutMixed(h, p) /\ limbo' = None /\ phase' = AfterLink
  <2>1. /\ Good(heap', None, out)
        /\ Keeps(heap', h, h.isFree \cup {p}) /\ Busy(heap') = Busy(h)
    BY <1>1, <1>4, PutDone
  <2> QED  BY <2>1, <1>1, <1>4 DEF Keeps
<1>5. CASE /\ m.heap.this[m.piece] \notin Sizes(m.heap)
           /\ heap' = m.heap /\ limbo' = m.piece /\ phase' = "node"
  <2>1. m.piece # None
    BY <1>2, NoneIs
  <2>2. \A x \in h.isFree \cup {p} : h.tag[x] = "FreeFirst"
    BY DEF Pending, Sound
  <2>3. Busy(m.heap) = Busy(h)
    BY <2>2, <1>2 DEF Keeps, Busy
  <2> QED  BY <2>1, <2>3, <1>1, <1>2, <1>5 DEF Keeps
<1> QED  BY <1>3, <1>4, <1>5

\* The piece that was taken is given to the client.
LEMMA GivenIs ==
    ASSUME NEW h, NEW p, p # None, Good(h, None, p), NEW g,
           g = [h EXCEPT !.tag[p] = "BusyFirst"]
    PROVE  Good(g, None, None) /\ Busy(g) = Busy(h) \cup {p}
<1>1. /\ h \in Heaps /\ Tiled(h) /\ FreeIn(h, None) = h.isFree /\ h.isFree \ {None} = h.isFree
      /\ Sound(h, h.isFree, p) /\ p \in StartsOf(h) /\ StartsOf(h) \subseteq Addr
  BY FreeIs DEF Good, Sound, StartsOf
<1>2. /\ g \in Heaps /\ Tiled(g) /\ StartsOf(g) = StartsOf(h)
      /\ g.sects = h.sects /\ g.this = h.this /\ g.isFree = h.isFree /\ g.tree = h.tree
      /\ g.frontier = h.frontier
      /\ \A x \in Addr : g.tag[x] = IF x = p THEN "BusyFirst" ELSE h.tag[x]
  BY <1>1, RetagIs
<1>3. FreeIn(g, None) = g.isFree /\ g.isFree \ {None} = g.isFree
  BY <1>2, FreeIs
<1>4. Sound(g, g.isFree, None)
  BY <1>1, <1>2, NoneIs DEF Sound
<1>5. Good(g, None, None)
  BY <1>1, <1>2, <1>3, <1>4 DEF Good, Apart
<1> QED  BY <1>1, <1>2, <1>5 DEF Busy

\* A piece of the tree is taken as it is.
LEMMA TakeWhole ==
    ASSUME NEW h, Good(h, None, None), NEW k \in Sizes(h), NEW p, p = Head(h.tree[k]),
           NEW g, g = TreeTaken(h, p)
    PROVE  Good(g, None, p) /\ p # None /\ Busy(g) = Busy(h)
<1>1. /\ Good(g, None, p) /\ p \in StartsOf(h)
      /\ StartsOf(g) = StartsOf(h) /\ g.tag = h.tag
  BY TakenIs DEF IsTaken
<1> QED  BY <1>1, NoneIs DEF Busy

\* g is h in which p is taken and cut: the rest r, of m quanta, waits.
IsPart(g, h, p, r, m) ==
    /\ Pending(g, r, p) /\ p # None /\ Busy(g) = Busy(h) /\ g.frontier = h.frontier
    /\ Before(g, r) = {} /\ Behind(g, r) = {}
    /\ r \in StartsOf(g) /\ r \in g.isFree /\ g.this[r] = m

\* A piece of the tree is taken and cut.
LEMMA TakePart ==
    ASSUME NEW h, Good(h, None, None), NEW k \in Sizes(h), NEW p, p = Head(h.tree[k]),
           NEW n \in Nat \ {0}, n < k, NEW g, g = Rest(h, p, n)
    PROVE  IsPart(g, h, p, p + n, k - n)
<1>1. PICK t : t = TreeTaken(h, p)
  OBVIOUS
<1>2. /\ Good(t, None, p) /\ p \in StartsOf(h) /\ h.this[p] = k /\ p \in h.isFree
      /\ StartsOf(t) = StartsOf(h) /\ t.sects = h.sects /\ t.this = h.this
      /\ t.isFree = h.isFree \ {p} /\ t.frontier = h.frontier /\ t.tag = h.tag
  BY <1>1, TakenIs DEF IsTaken
<1>3. p # None /\ n < t.this[p]
  BY <1>2, NoneIs
<1>4. \A q \in t.isFree : q # p + t.this[p] \/ q > High(p)
  <2>1. Apart(h, h.isFree)
    BY FreeIs DEF Good
  <2> QED  BY <2>1, <1>2 DEF Apart
<1>5. PICK r : r = p + n
  OBVIOUS
<1>6. g = Freed(mxmemSplit(t, p, n), r)
  BY <1>1, <1>5 DEF Rest
<1>7. /\ Pending(g, r, p) /\ Before(g, r) = {} /\ Behind(g, r) = {}
      /\ StartsOf(g) = StartsOf(t) \cup {r} /\ r \notin StartsOf(t) /\ r \in Addr
      /\ g.frontier = t.frontier /\ g.isFree = t.isFree \cup {r}
      /\ g.this[r] = t.this[p] - n
      /\ \A x \in Addr : g.tag[x] = IF x = r THEN "FreeFirst" ELSE t.tag[x]
  BY <1>2, <1>3, <1>4, <1>5, <1>6, RestIs
<1>8. Busy(g) = Busy(h)
  BY <1>2, <1>7, SMTT(20) DEF Busy, StartsOf
<1> QED  BY <1>2, <1>3, <1>5, <1>7, <1>8 DEF IsPart

\* The rest takes over the entry of the tree.
LEMMA TakeReuse ==
    ASSUME NEW g, NEW r, NEW out, Pending(g, r, out), Before(g, r) = {}, Behind(g, r) = {},
           r \in g.isFree, NEW m, g.this[r] = m, m \notin Sizes(g), NEW e,
           e = [g EXCEPT !.tree = SetList(g.tree, m, <<r>>)]
    PROVE  Good(e, None, out) /\ Busy(e) = Busy(g) /\ e.frontier = g.frontier
<1>1. PICK d : d = Merged(g, r)
  OBVIOUS
<1>2. d.heap = g /\ d.piece = r
  BY <1>1, NothingToMerge
<1>3. Good(g, r, out) /\ r \in StartsOf(g)
  BY <1>1, <1>2, PutIs
<1>4. e = Freed(Linked(g, r), r)
  <2>1. g \in Heaps /\ g.isFree \cup {r} = g.isFree
    BY DEF Pending
  <2>2. mxmemLink(g.tree, r, g.this[r]) = SetList(g.tree, m, <<r>>)
    BY DEF mxmemLink, Sizes
  <2>3. Linked(g, r) = e
    BY <2>2 DEF Linked
  <2>4. e.isFree = g.isFree /\ e = [e EXCEPT !.isFree = e.isFree]
    BY <2>1 DEF Heaps
  <2> QED  BY <2>1, <2>3, <2>4 DEF Freed
<1>5. /\ Good(e, None, out)
      /\ StartsOf(e) = StartsOf(g) /\ e.frontier = g.frontier /\ e.tag = g.tag
  BY <1>3, <1>4, LinkedIs
<1> QED  BY <1>5 DEF Busy

-----------------------------------------------------------------------------
(* The inductive invariant.                                                *)

\* The section holds a piece in use or the frontier.
Kept(h, s) ==
    \/ \E p \in Busy(h) : SectionOf(p) = s
    \/ h.frontier # None /\ SectionOf(h.frontier) = s

\* What goes on, in the call or in the collection that comes during it.
During == IF phase \in {"sweep", "leave"} THEN back ELSE phase

\* The section the sweep is in.
Inside == IF phase = "leave" THEN SectionOf(cursor - 1) ELSE SectionOf(cursor)

InOrder == Good(heap, limbo, taken)
LiveBusy == live \subseteq Busy(heap)

\* The variables of the calls and of the collector.
CallsTyped ==
    /\ mark \subseteq Addr /\ wanted \in 0 .. MaxRequest
    /\ cursor \in 0 .. NSections * Quanta + 1
    /\ busyHere \in BOOLEAN
    /\ back \in {"idle", "pagesAgain"}
    /\ phase \in {"idle", "pages", "pagesAgain", "node", "give", "sweep", "leave"}

\* What is at hand in each phase.  A section is asked for only without frontier.
PhaseFits ==
    /\ limbo # None <=> phase = "node"
    /\ phase = "give" => taken # None
    /\ taken # None => phase \in {"give", "node"}
    /\ During = "idle" => wanted = 0
    /\ During \in {"pages", "pagesAgain"} => wanted # 0
    /\ wanted # 0 /\ taken = None => heap.frontier = None
    /\ phase = "node" => heap.this[limbo] \notin Sizes(heap)

\* The cursor c is at a piece, at a section that is not there, or at the end.
AtStart(h, c) ==
    \/ c = NSections * Quanta + 1
    \/ c \in StartsOf(h)
    \/ c \in Addr /\ SectionOf(c) \notin h.sects /\ c = Low(c)

\* The sweep: what is to come is marked if it is live, what was left is kept, and
\* busyHere tells of the section the sweep is in.
SweepFits ==
    phase \in {"sweep", "leave"} =>
        /\ cursor >= 1
        /\ \A p \in live : p >= cursor => p \in mark
        /\ phase = "sweep" => AtStart(heap, cursor)
        /\ phase = "leave" => /\ cursor - 1 \in Addr /\ cursor = High(cursor - 1) + 1
                              /\ SectionOf(cursor - 1) \in heap.sects
        /\ \A s \in heap.sects : s < Inside => Kept(heap, s)
        /\ busyHere <=> \E p \in Busy(heap) : p < cursor /\ SectionOf(p) = Inside

Inv == CallsTyped /\ InOrder /\ LiveBusy /\ PhaseFits /\ SweepFits

-----------------------------------------------------------------------------
(* The sweep goes from section to section.                                 *)

\* Behind the section s is the next section, or the end.
LEMMA NextSection ==
    ASSUME NEW s \in Section, NEW c, c = s * Quanta + 1
    PROVE  /\ c \in 1 .. NSections * Quanta + 1 /\ SectionOf(c) = s + 1
           /\ c = NSections * Quanta + 1 \/ c \in Addr
           /\ c \in Addr => c = Low(c)
           /\ \A p \in Addr : SectionOf(p) = s + 1 => p >= c
           /\ \A p \in Addr : SectionOf(p) = s => p < c
           /\ \A p \in Addr : p >= c => SectionOf(p) # s
<1>1. s \in Nat /\ s >= 1 /\ s <= NSections /\ s * Quanta \in Nat
  BY Numbers DEF Section
<1>2. s * Quanta <= NSections * Quanta
  BY <1>1, Numbers, Product
<1>3. c \in Nat /\ c - 1 = s * Quanta /\ c >= 1 /\ c <= NSections * Quanta + 1
  BY <1>1, <1>2, Numbers
<1>4. SectionOf(c) = s + 1
  <2>1. (c - 1) \div Quanta = s
    <3>1. s * Quanta <= c - 1 /\ c - 1 < s * Quanta + Quanta
      BY <1>1, <1>3, Numbers
    <3> QED  BY <3>1, <1>1, <1>3, Numbers, QuotientIs
  <2> QED  BY <2>1 DEF SectionOf
<1>5. c = NSections * Quanta + 1 \/ c \in Addr
  BY <1>3, Numbers DEF Addr
<1>6. First(s + 1) = c
  <2>1. (s + 1) - 1 = s
    BY <1>1
  <2> QED  BY <2>1 DEF First
<1>7. \A p \in Addr : SectionOf(p) = s + 1 => p >= c
  BY <1>6, Geometry DEF Low
<1>8. \A p \in Addr : SectionOf(p) = s => p < c /\ p <= s * Quanta
  BY <1>1, Geometry DEF High
<1>9. \A p \in Addr : p >= c => SectionOf(p) # s
  BY <1>8, <1>3, Numbers
<1> QED  BY <1>3, <1>4, <1>5, <1>6, <1>7, <1>8, <1>9, Numbers DEF Low

\* A sweep that starts a section is at a start.
LEMMA SectionStart ==
    ASSUME NEW h \in Heaps, Tiled(h), NEW c \in Addr, c = Low(c)
    PROVE  AtStart(h, c)
<1>1. SectionOf(c) \in h.sects => h.this[c] > 0
  BY DEF Tiled, Low
<1> QED  BY <1>1 DEF AtStart, StartsOf

\* A sweep that leaves a section for the next.
LEMMA Onwards ==
    ASSUME NEW h \in Heaps, Tiled(h), NEW s \in Section, NEW c, c = s * Quanta + 1
    PROVE  /\ c >= 1 /\ c \in 0 .. NSections * Quanta + 1
           /\ AtStart(h, c) /\ SectionOf(c) = s + 1
           /\ ~ (\E p \in Busy(h) : p < c /\ SectionOf(p) = s + 1)
           /\ \A r \in h.sects : r < s + 1 => r < s \/ r = s
<1>1. /\ c \in 1 .. NSections * Quanta + 1 /\ SectionOf(c) = s + 1
      /\ c = NSections * Quanta + 1 \/ c \in Addr
      /\ c \in Addr => c = Low(c)
      /\ \A p \in Addr : SectionOf(p) = s + 1 => p >= c
  BY NextSection
<1>2. AtStart(h, c)
  <2>1. CASE c = NSections * Quanta + 1
    BY <2>1 DEF AtStart
  <2>2. CASE c \in Addr
    BY <2>2, <1>1, SectionStart
  <2> QED  BY <1>1, <2>1, <2>2
<1>3. Busy(h) \subseteq Addr /\ Addr \subseteq Nat
  BY Numbers DEF Busy, StartsOf
<1>4. ~ (\E p \in Busy(h) : p < c /\ SectionOf(p) = s + 1)
  <2>1. c \in Nat
    BY <1>1, Numbers
  <2>2. \A p \in Nat : p >= c => ~ (p < c)
    BY <2>1
  <2> QED  BY <1>1, <1>3, <2>2
<1>5. \A r \in h.sects : r < s + 1 => r < s \/ r = s
  <2>1. h.sects \subseteq Nat /\ s \in Nat
    BY Numbers DEF Heaps, Section
  <2> QED  BY <2>1
<1>6. c >= 1 /\ c \in 0 .. NSections * Quanta + 1
  BY <1>1, Numbers
<1> QED  BY <1>1, <1>2, <1>4, <1>5, <1>6

-----------------------------------------------------------------------------
(* Each step keeps the invariant.                                          *)

\* At the start there is no section.
LEMMA InitInv == Init => Inv
<1> SUFFICES ASSUME Init  PROVE Inv
  OBVIOUS
<1>1. heap = NoHeap /\ limbo = None /\ taken = None
  BY DEF Init
<1>2. /\ NoHeap.sects = {} /\ NoHeap.this = [p \in Addr |-> 0] /\ NoHeap.isFree = {}
      /\ NoHeap.tag = [p \in Addr |-> "Follow"] /\ NoHeap.tree = <<>>
      /\ NoHeap.frontier = None
  BY DEF NoHeap
<1>3. NoHeap \in Heaps
  <2>1. <<>> \in FreeTrees
    <3>1. DOMAIN <<>> = {} /\ <<>> = [n \in {} |-> 0]
      OBVIOUS
    <3>2. <<>> \in [{} -> Seq(Addr)] /\ {} \in SUBSET (1 .. Quanta)
      BY <3>1
    <3> QED  BY <3>2 DEF FreeTrees
  <2>2. 0 \in 0 .. Quanta /\ "Follow" \in Kinds
    BY Numbers DEF Kinds
  <2> QED  BY <2>1, <2>2 DEF NoHeap, Heaps
<1>4. StartsOf(NoHeap) = {}
  BY <1>2 DEF StartsOf
<1>5. Tiled(NoHeap)
  BY <1>2, <1>4 DEF Tiled
<1>6. FreeIn(NoHeap, None) = {} /\ NoHeap.isFree \ {None} = {}
  BY <1>2 DEF FreeIn
<1>7. TreeFor(NoHeap.tree, NoHeap.this, {})
  <2>1. DOMAIN NoHeap.tree = {}
    BY <1>2
  <2> QED  BY <2>1, <1>3 DEF TreeFor, Heaps
<1>8. Apart(NoHeap, {}) /\ Sound(NoHeap, {}, None)
  BY <1>2, <1>4 DEF Apart, Sound
<1>9. InOrder
  BY <1>1, <1>3, <1>5, <1>6, <1>7, <1>8 DEF InOrder, Good
<1>10. CallsTyped
  <2>1. 0 \in 0 .. NSections * Quanta + 1 /\ 0 \in 0 .. MaxRequest
    BY Numbers
  <2> QED  BY <2>1 DEF Init, CallsTyped, None
<1>11. LiveBusy /\ PhaseFits /\ SweepFits
  BY <1>1, <1>2 DEF Init, LiveBusy, PhaseFits, SweepFits, During
<1> QED  BY <1>9, <1>10, <1>11 DEF Inv

\* What the calls find in the invariant.
LEMMA AtHand ==
    ASSUME Inv
    PROVE  /\ heap \in Heaps /\ Tiled(heap) /\ live \subseteq Busy(heap)
           /\ phase # "node" => limbo = None
           /\ phase \notin {"node", "give"} => taken = None /\ Good(heap, None, None)
           /\ limbo \in StartsOf(heap) \cup {None}
           /\ taken \in StartsOf(heap) \cup {None}
  BY NoneIs DEF Inv, InOrder, LiveBusy, PhaseFits, Good, FreeIn, Sound

\* A call that leaves the collector alone keeps the invariant, if it keeps the
\* heap in order and goes on in a phase that fits.
LEMMA CallStep ==
    ASSUME Inv, UNCHANGED gcVars, Good(heap', limbo', taken'), live' \subseteq Busy(heap'),
           wanted' \in 0 .. MaxRequest, PhaseFits',
           phase' \in {"idle", "pages", "pagesAgain", "node", "give"}
    PROVE  Inv'
<1>1. CallsTyped'
  BY DEF Inv, CallsTyped, gcVars
<1>2. InOrder' /\ LiveBusy' /\ SweepFits'
  BY DEF InOrder, LiveBusy, SweepFits
<1> QED  BY <1>1, <1>2 DEF Inv

\* After piecePutMixed the call goes on in a phase that fits.
LEMMA PutFits ==
    ASSUME wanted' # 0 /\ taken' = None => heap'.frontier = None,
           \/ limbo' = None /\ phase' = AfterLink
           \/ /\ limbo' # None /\ phase' = "node"
              /\ heap'.this[limbo'] \notin Sizes(heap')
    PROVE  PhaseFits' /\ phase' \in {"idle", "pages", "node", "give"}
  BY DEF PhaseFits, During, AfterLink

\* A piece of the tree, or a part of it.
LEMMA TreeStep ==
    ASSUME Inv, phase = "idle", NEW n \in 1 .. MaxRequest, TakeFromTree(n),
           UNCHANGED <<live, gcVars>>
    PROVE  Inv'
<1>1. Good(heap, None, None) /\ live \subseteq Busy(heap)
  BY AtHand
<1>2. n \in Nat \ {0} /\ n \in 0 .. MaxRequest
  BY Numbers
<1>3. PICK k, p, g :
              /\ k \in Sizes(heap)
              /\ p = Head(heap.tree[k]) /\ k \in Nat /\ k >= n /\ g = Rest(heap, p, n)
              /\ taken' = p /\ wanted' = n
              /\ \/ heap' = TreeTaken(heap, p) /\ limbo' = None /\ phase' = "give"
                 \/ n + 1 < k /\ Put(g, p + n)
                 \/ /\ n + 1 < k /\ k - n \notin Sizes(g)
                    /\ heap' = [g EXCEPT !.tree = SetList(g.tree, k - n, <<p + n>>)]
                    /\ limbo' = None /\ phase' = "give"
  BY <1>1, TakeCases
<1>4. CASE heap' = TreeTaken(heap, p) /\ limbo' = None /\ phase' = "give"
  <2>1. Good(heap', None, p) /\ p # None /\ Busy(heap') = Busy(heap)
    BY <1>1, <1>3, <1>4, TakeWhole
  <2>2. PhaseFits'
    BY <2>1, <1>3, <1>4 DEF PhaseFits, During
  <2> QED  BY <2>1, <2>2, <1>1, <1>2, <1>3, <1>4, CallStep
<1>5. ASSUME n + 1 < k
      PROVE  /\ Pending(g, p + n, p) /\ p # None /\ Busy(g) = Busy(heap)
             /\ Before(g, p + n) = {} /\ Behind(g, p + n) = {}
             /\ p + n \in g.isFree /\ g.this[p + n] = k - n
  <2>1. n < k
    BY <1>2, <1>3, <1>5
  <2>2. k \in Sizes(heap) /\ p = Head(heap.tree[k]) /\ g = Rest(heap, p, n)
    BY <1>3
  <2>3. IsPart(g, heap, p, p + n, k - n)
    BY <1>1, <1>2, <2>1, <2>2, TakePart
  <2> QED  BY <2>3 DEF IsPart
<1>6. CASE n + 1 < k /\ Put(g, p + n)
  <2>1. /\ Good(heap', limbo', taken') /\ Busy(heap') = Busy(g)
        /\ \/ limbo' = None /\ phase' = AfterLink
           \/ /\ limbo' # None /\ phase' = "node"
              /\ heap'.this[limbo'] \notin Sizes(heap')
    BY <1>3, <1>5, <1>6, PutGood
  <2>2. PhaseFits' /\ phase' \in {"idle", "pages", "node", "give"}
    BY <2>1, <1>3, <1>5, <1>6, PutFits
  <2> QED  BY <2>1, <2>2, <1>1, <1>2, <1>3, <1>5, <1>6, CallStep
<1>7. CASE /\ n + 1 < k /\ k - n \notin Sizes(g)
           /\ heap' = [g EXCEPT !.tree = SetList(g.tree, k - n, <<p + n>>)]
           /\ limbo' = None /\ phase' = "give"
  <2>1. Good(heap', None, p) /\ Busy(heap') = Busy(g)
    BY <1>5, <1>7, TakeReuse
  <2>2. PhaseFits'
    BY <1>3, <1>5, <1>7 DEF PhaseFits, During
  <2> QED  BY <2>1, <2>2, <1>1, <1>2, <1>3, <1>5, <1>7, CallStep
<1> QED  BY <1>3, <1>4, <1>6, <1>7

\* The frontier, or a part of it; or it is freed, and a section is asked for.
LEMMA FrontierStep ==
    ASSUME Inv, phase = "idle", NEW n \in 1 .. MaxRequest, TakeFromFrontier(n),
           UNCHANGED <<live, gcVars>>
    PROVE  Inv'
<1>1. /\ heap \in Heaps /\ Good(heap, None, None) /\ live \subseteq Busy(heap)
      /\ limbo = None /\ taken = None
  BY AtHand
<1>2. n \in Nat \ {0} /\ n \in 0 .. MaxRequest /\ n # 0
  BY Numbers
<1>3. wanted' = n
  BY DEF TakeFromFrontier
<1>4. PICK f : f = heap.frontier
  OBVIOUS
<1>5. CASE f = None
  <2>1. phase' = "pages" /\ UNCHANGED <<heap, taken, limbo>>
    BY <1>4, <1>5 DEF TakeFromFrontier
  <2>2. PhaseFits'
    BY <2>1, <1>1, <1>2, <1>3, <1>4, <1>5 DEF PhaseFits, During
  <2> QED  BY <2>1, <2>2, <1>1, <1>2, <1>3, CallStep
<1>6. CASE f # None
  <2>1. PICK g : g = [heap EXCEPT !.frontier = None]
    OBVIOUS
  <2>2. /\ Pending(g, f, None) /\ Good(g, None, f) /\ g.frontier = None
        /\ Busy(g) = Busy(heap)
    BY <2>1, <1>1, <1>4, <1>6, FrontierIs DEF Busy
  <2>3. CASE heap.this[f] < n
    <3>1. taken' = None /\ Put(g, f)
      BY <2>1, <2>3, <1>1, <1>4, <1>6 DEF TakeFromFrontier
    <3>2. /\ Good(heap', limbo', taken') /\ heap'.frontier = g.frontier /\ Busy(heap') = Busy(g)
          /\ \/ limbo' = None /\ phase' = AfterLink
             \/ /\ limbo' # None /\ phase' = "node"
                /\ heap'.this[limbo'] \notin Sizes(heap')
      BY <2>2, <3>1, PutGood
    <3>3. PhaseFits' /\ phase' \in {"idle", "pages", "node", "give"}
      BY <3>2, <2>2, PutFits
    <3> QED  BY <3>2, <3>3, <2>2, <1>1, <1>2, <1>3, CallStep
  <2>4. CASE ~ (heap.this[f] < n)
    <3>1. /\ heap' = FromFrontier(heap, f, n) /\ taken' = f /\ phase' = "give"
          /\ limbo' = None
      BY <2>4, <1>1, <1>4, <1>6 DEF TakeFromFrontier
    <3>2. n <= heap.this[f]
      <4>1. f \in Addr
        BY <1>1, <1>4, <1>6 DEF Heaps
      <4>2. heap.this[f] \in Nat
        BY <4>1, <1>1, Numbers DEF Heaps
      <4> QED  BY <4>2, <2>4, <1>2
    <3>3. /\ Good(heap', None, f)
          /\ StartsOf(heap) \subseteq StartsOf(heap')
          /\ \A x \in StartsOf(heap) : heap'.tag[x] = heap.tag[x]
      BY <3>1, <3>2, <2>1, <2>2, <1>1, <1>2, <1>6, FromFrontierIs
    <3>4. Busy(heap) \subseteq Busy(heap')
      BY <3>3 DEF Busy
    <3>5. PhaseFits'
      BY <3>1, <1>6 DEF PhaseFits, During
    <3> QED  BY <3>1, <3>3, <3>4, <3>5, <1>1, <1>2, <1>3, CallStep
  <2> QED  BY <2>3, <2>4
<1> QED  BY <1>5, <1>6

\* A section is given: it is cut as a frontier is.
LEMMA SectionStep ==
    ASSUME Inv, NEW s \in Section, NewSection(s)
    PROVE  Inv'
<1>1. /\ phase \in {"pages", "pagesAgain"} /\ s \notin heap.sects
      /\ heap' = FromFrontier(WithSection(heap, s), First(s), wanted)
      /\ taken' = First(s) /\ phase' = "give" /\ UNCHANGED <<live, limbo, wanted, gcVars>>
  BY DEF NewSection
<1>2. /\ heap \in Heaps /\ Good(heap, None, None) /\ live \subseteq Busy(heap)
      /\ limbo = None /\ taken = None
  BY <1>1, AtHand
<1>3. wanted \in Nat \ {0} /\ wanted \in 0 .. MaxRequest /\ wanted <= Quanta
  <2>1. wanted # 0 /\ wanted \in 0 .. MaxRequest
    BY <1>1 DEF Inv, PhaseFits, CallsTyped, During
  <2> QED  BY <2>1, Numbers
<1>4. heap.frontier = None
  BY <1>2, <1>3 DEF Inv, PhaseFits
<1>5. PICK g, f : g = WithSection(heap, s) /\ f = First(s)
  OBVIOUS
<1>6. /\ Good(g, None, f) /\ g.frontier = None /\ f # None
      /\ StartsOf(g) = StartsOf(heap) \cup {f} /\ g.this[f] = Quanta
      /\ \A x \in StartsOf(heap) : g.tag[x] = heap.tag[x]
  BY <1>1, <1>2, <1>4, <1>5, WithSectionGood
<1>7. g \in Heaps /\ [g EXCEPT !.frontier = None] = g
  BY <1>6 DEF Good, Heaps
<1>8. /\ Good(heap', None, f)
      /\ StartsOf(g) \subseteq StartsOf(heap')
      /\ \A x \in StartsOf(g) : heap'.tag[x] = g.tag[x]
  <2>1. Good([g EXCEPT !.frontier = None], None, f)
    BY <1>6, <1>7
  <2>2. wanted <= g.this[f]
    BY <1>3, <1>6
  <2>3. heap' = FromFrontier(g, f, wanted)
    BY <1>1, <1>5
  <2> QED  BY <2>1, <2>2, <2>3, <1>3, <1>6, <1>7, FromFrontierIs
<1>9. Busy(heap) \subseteq Busy(heap')
  BY <1>6, <1>8 DEF Busy
<1>10. PhaseFits'
  BY <1>1, <1>2, <1>5, <1>6 DEF PhaseFits, During
<1> QED  BY <1>1, <1>2, <1>3, <1>5, <1>8, <1>9, <1>10, CallStep

\* No section is given.
LEMMA NoPagesStep ==
    ASSUME Inv, NoPages
    PROVE  Inv'
<1>1. /\ phase \in {"pages", "pagesAgain"} /\ wanted' = 0 /\ phase' = "idle"
      /\ UNCHANGED <<heap, live, limbo, taken, gcVars>>
  BY DEF NoPages
<1>2. /\ Good(heap, None, None) /\ live \subseteq Busy(heap) /\ limbo = None /\ taken = None
  BY <1>1, AtHand
<1>3. PhaseFits'
  BY <1>1, <1>2 DEF PhaseFits, During
<1>4. 0 \in 0 .. MaxRequest
  BY Numbers
<1> QED  BY <1>1, <1>2, <1>3, <1>4, CallStep

\* The piece in limbo is linked.
LEMMA LinkStep ==
    ASSUME Inv, LinkNode
    PROVE  Inv'
<1>1. phase = "node"
  BY DEF LinkNode, Inv, CallsTyped
<1>2. /\ limbo # None /\ heap.this[limbo] \notin Sizes(heap)
      /\ wanted # 0 /\ taken = None => heap.frontier = None
  BY <1>1 DEF Inv, PhaseFits
<1>3. /\ Good(heap, limbo, taken) /\ live \subseteq Busy(heap) /\ limbo \in StartsOf(heap)
      /\ wanted \in 0 .. MaxRequest
  BY <1>2, AtHand DEF Inv, InOrder, CallsTyped
<1>4. SectionOf(limbo) \in heap.sects
  BY <1>3, AtHand DEF Tiled, PieceFits
<1>5. /\ heap' = Freed(Linked(heap, limbo), limbo) /\ phase' = AfterLink
      /\ limbo' = None /\ UNCHANGED <<taken, wanted, live, gcVars>>
  BY <1>2, <1>4 DEF LinkNode
<1>6. PICK c, out, g : c = limbo /\ out = taken /\ g = heap'
  OBVIOUS
<1>7. /\ Good(g, None, out)
      /\ StartsOf(g) = StartsOf(heap) /\ g.frontier = heap.frontier /\ g.tag = heap.tag
  BY <1>3, <1>5, <1>6, LinkedIs
<1>8. Busy(heap') = Busy(heap)
  BY <1>6, <1>7 DEF Busy
<1>9. PhaseFits' /\ phase' \in {"idle", "pages", "node", "give"}
  BY <1>2, <1>5, <1>6, <1>7, PutFits
<1>10. Good(heap', limbo', taken')
  BY <1>5, <1>6, <1>7
<1> QED  BY <1>3, <1>5, <1>8, <1>9, <1>10, CallStep

\* stoAlloc returns the piece.
LEMMA GiveStep ==
    ASSUME Inv, Give
    PROVE  Inv'
<1>1. phase = "give" /\ taken' = None /\ wanted' = 0 /\ UNCHANGED <<limbo, gcVars>>
  BY DEF Give
<1>2. /\ Good(heap, None, taken) /\ live \subseteq Busy(heap) /\ limbo = None
      /\ taken # None /\ taken \in StartsOf(heap)
  BY <1>1, AtHand DEF Inv, InOrder, PhaseFits
<1>3. SectionOf(taken) \in heap.sects
  BY <1>2, AtHand DEF Tiled, PieceFits
<1>4. /\ heap' = [heap EXCEPT !.tag[taken] = "BusyFirst"]
      /\ live' = live \cup {taken} /\ phase' = "idle"
  BY <1>3 DEF Give
<1>5. PICK p : p = taken
  OBVIOUS
<1>6. Good(heap', None, None) /\ Busy(heap') = Busy(heap) \cup {p}
  BY <1>2, <1>4, <1>5, GivenIs
<1>7. PhaseFits'
  BY <1>1, <1>2, <1>4 DEF PhaseFits, During
<1>8. 0 \in 0 .. MaxRequest
  BY Numbers
<1> QED  BY <1>1, <1>2, <1>4, <1>5, <1>6, <1>7, <1>8, CallStep

\* A piece is freed by the client.
LEMMA FreeStep ==
    ASSUME Inv, NEW p \in Addr, stoFree(p)
    PROVE  Inv'
<1>1. /\ phase = "idle" /\ p \in live /\ live' = live \ {p}
      /\ UNCHANGED <<taken, wanted>> /\ UNCHANGED gcVars
  BY DEF stoFree
<1>2. PICK g : g = [heap EXCEPT !.tag[p] = "FreeFirst"] /\ Put(g, p)
  BY DEF stoFree
<1>3. /\ Good(heap, None, None) /\ live \subseteq Busy(heap) /\ limbo = None /\ taken = None
      /\ wanted = 0 /\ wanted \in 0 .. MaxRequest
  BY <1>1, AtHand DEF Inv, PhaseFits, During, CallsTyped
<1>4. /\ Pending(g, p, None) /\ StartsOf(g) = StartsOf(heap)
      /\ \A x \in Addr : g.tag[x] = IF x = p THEN "FreeFirst" ELSE heap.tag[x]
  <2>1. p \in StartsOf(heap) /\ heap.tag[p] = "BusyFirst"
    BY <1>1, <1>3 DEF Busy
  <2>2. IsFreed(g, heap, p)
    BY <2>1, <1>2, <1>3, FreedIs
  <2> QED  BY <2>2 DEF IsFreed
<1>5. Busy(g) = Busy(heap) \ {p}
  BY <1>4 DEF Busy, StartsOf
<1>6. /\ Good(heap', limbo', taken') /\ Busy(heap') = Busy(g)
      /\ \/ limbo' = None /\ phase' = AfterLink
         \/ /\ limbo' # None /\ phase' = "node"
            /\ heap'.this[limbo'] \notin Sizes(heap')
  BY <1>1, <1>2, <1>3, <1>4, PutGood
<1>7. PhaseFits' /\ phase' \in {"idle", "pages", "node", "give"}
  BY <1>1, <1>3, <1>6, PutFits
<1> QED  BY <1>1, <1>3, <1>5, <1>6, <1>7, CallStep

\* A piece is dropped.
LEMMA DropStep ==
    ASSUME Inv, NEW p \in Addr, Drop(p)
    PROVE  Inv'
<1>1. /\ phase = "idle" /\ live' = live \ {p}
      /\ UNCHANGED <<heap, limbo, taken, wanted, gcVars, phase>>
  BY DEF Drop
<1>2. Good(heap, limbo, taken) /\ live \subseteq Busy(heap) /\ wanted \in 0 .. MaxRequest
  BY DEF Inv, InOrder, LiveBusy, CallsTyped
<1>3. PhaseFits'
  BY <1>1 DEF Inv, PhaseFits, During
<1> QED  BY <1>1, <1>2, <1>3, CallStep

\* A collection begins.
LEMMA CollectStep ==
    ASSUME Inv, phase # "node", Collect
    PROVE  Inv'
<1>1. /\ phase \in {"idle", "pages"}
      /\ cursor' = First(1) /\ busyHere' = FALSE /\ phase' = "sweep"
      /\ back' = IF phase = "idle" THEN "idle" ELSE "pagesAgain"
      /\ UNCHANGED <<heap, live, limbo, taken, wanted>>
  BY DEF Collect
<1>2. PICK stale \in SUBSET (Starts \ live) : mark' = QuantaOf(live \cup stale)
  BY DEF Collect
<1>3. /\ heap \in Heaps /\ Tiled(heap) /\ Good(heap, limbo, taken) /\ live \subseteq Busy(heap)
      /\ limbo = None /\ taken = None /\ wanted \in 0 .. MaxRequest
  BY <1>1, AtHand DEF Inv, InOrder, CallsTyped
<1>4. live \cup stale \subseteq StartsOf(heap)
  BY <1>2, <1>3 DEF Busy, Starts, StartsOf
<1>5. mark' \subseteq Addr
  <2>1. ASSUME NEW x \in StartsOf(heap)  PROVE Piece(x, heap.this[x]) \subseteq Addr
    <3>1. x \in Addr /\ heap.this[x] \in Nat /\ x + heap.this[x] - 1 <= High(x)
      BY <1>3, Numbers DEF Tiled, PieceFits, StartsOf, Heaps
    <3>2. Low(x) <= x /\ High(x) \in Nat /\ Low(x) \in Nat /\ x \in Nat
      BY <3>1, Geometry
    <3>3. ASSUME NEW q \in Piece(x, heap.this[x])  PROVE q \in Addr
      <4>1. q \in Int /\ Low(x) <= q /\ q <= High(x)
        BY <3>1, <3>2 DEF Piece
      <4> QED  BY <4>1, <3>1, Geometry
    <3> QED  BY <3>3
  <2> QED  BY <2>1, <1>2, <1>4 DEF QuantaOf
<1>6. live \subseteq mark'
  <2>1. ASSUME NEW x \in live  PROVE x \in Piece(x, heap.this[x])
    <3>1. x \in Addr /\ heap.this[x] > 0
      BY <1>4 DEF StartsOf
    <3>2. x \in Nat /\ heap.this[x] \in Nat
      BY <3>1, <1>3, Numbers DEF Heaps
    <3> QED  BY <3>1, <3>2 DEF Piece
  <2> QED  BY <2>1, <1>2 DEF QuantaOf
<1>7. First(1) = 1 /\ 1 \in Section /\ 1 \in Addr /\ SectionOf(1) = 1 /\ Low(1) = 1
  <2>1. First(1) = 1
    BY Numbers DEF First
  <2>2. 1 \in Section
    BY Numbers DEF Section
  <2> QED  BY <2>1, <2>2, Ends DEF Low
<1>8. CallsTyped'
  <2>1. 1 \in 0 .. NSections * Quanta + 1
    BY Numbers
  <2> QED  BY <2>1, <1>1, <1>3, <1>5, <1>7 DEF CallsTyped
<1>9. InOrder' /\ LiveBusy'
  BY <1>1, <1>3 DEF InOrder, LiveBusy
<1>10. PhaseFits'
  BY <1>1, <1>3 DEF Inv, PhaseFits, During
<1>11. SweepFits'
  <2>1. AtStart(heap, 1)
    BY <1>3, <1>7, SectionStart
  <2>2. \A s \in heap.sects : ~ (s < 1)
    BY <1>3 DEF Heaps, Section
  <2>3. \A p \in Busy(heap) : ~ (p < 1)
    BY Numbers DEF Busy, StartsOf, Addr
  <2> QED  BY <2>1, <2>2, <2>3, <1>1, <1>6, <1>7 DEF SweepFits, Inside
<1> QED  BY <1>8, <1>9, <1>10, <1>11 DEF Inv

\* A step of the sweep that keeps the heap in order and the pieces that are live
\* keeps the invariant.
LEMMA SweepStep ==
    ASSUME Inv, phase \in {"sweep", "leave"}, phase' \in {"sweep", "leave"},
           UNCHANGED <<live, limbo, taken, wanted, back>>,
           Good(heap', None, None), live \subseteq Busy(heap'), heap'.frontier = heap.frontier,
           mark' \subseteq Addr, cursor' \in 0 .. NSections * Quanta + 1, busyHere' \in BOOLEAN,
           SweepFits'
    PROVE  Inv'
<1>1. limbo = None /\ taken = None
  BY AtHand
<1>2. CallsTyped'
  BY DEF Inv, CallsTyped
<1>3. InOrder' /\ LiveBusy'
  BY <1>1 DEF InOrder, LiveBusy
<1>4. PhaseFits'
  BY <1>1 DEF Inv, PhaseFits, During
<1> QED  BY <1>2, <1>3, <1>4 DEF Inv

\* What the sweep finds in the invariant.
LEMMA InSweep ==
    ASSUME Inv, phase \in {"sweep", "leave"}
    PROVE  /\ heap \in Heaps /\ Tiled(heap) /\ Good(heap, None, None)
           /\ live \subseteq Busy(heap) /\ Busy(heap) \subseteq StartsOf(heap)
           /\ StartsOf(heap) \subseteq Addr
           /\ \A x \in StartsOf(heap) : SectionOf(x) \in heap.sects
           /\ mark \subseteq Addr /\ cursor \in Nat /\ busyHere \in BOOLEAN
           /\ \A p \in live : p >= cursor => p \in mark
           /\ \A s \in heap.sects : s < Inside => Kept(heap, s)
           /\ busyHere <=> \E p \in Busy(heap) : p < cursor /\ SectionOf(p) = Inside
<1>1. /\ heap \in Heaps /\ Tiled(heap) /\ Good(heap, None, None) /\ live \subseteq Busy(heap)
  BY AtHand
<1>2. Busy(heap) \subseteq StartsOf(heap) /\ StartsOf(heap) \subseteq Addr
  BY DEF Busy, StartsOf
<1>3. \A x \in StartsOf(heap) : SectionOf(x) \in heap.sects
  BY <1>1 DEF Tiled, PieceFits
<1>4. mark \subseteq Addr /\ cursor \in Nat /\ busyHere \in BOOLEAN
  BY DEF Inv, CallsTyped
<1> QED  BY <1>1, <1>2, <1>3, <1>4 DEF Inv, SweepFits

\* The sweep passes a section that is not there.
LEMMA SkipStep ==
    ASSUME Inv, SkipSection
    PROVE  Inv'
<1>1. /\ phase = "sweep" /\ cursor \in Addr /\ cursor' = cursor + Quanta /\ phase' = "sweep"
      /\ UNCHANGED <<heap, live, mark, limbo, taken, wanted, busyHere, back>>
  BY DEF SkipSection
<1>2. PICK s : s = SectionOf(cursor) /\ s \notin heap.sects
  BY DEF SkipSection
<1>3. /\ heap \in Heaps /\ Tiled(heap) /\ Good(heap, None, None)
      /\ live \subseteq Busy(heap) /\ Busy(heap) \subseteq StartsOf(heap)
      /\ StartsOf(heap) \subseteq Addr
      /\ \A x \in StartsOf(heap) : SectionOf(x) \in heap.sects
      /\ mark \subseteq Addr /\ cursor \in Nat /\ busyHere \in BOOLEAN
      /\ \A p \in live : p >= cursor => p \in mark
      /\ \A r \in heap.sects : r < Inside => Kept(heap, r)
      /\ busyHere <=> \E p \in Busy(heap) : p < cursor /\ SectionOf(p) = Inside
  BY <1>1, InSweep
<1>4. Inside = s
  BY <1>1, <1>2 DEF Inside
<1>5. cursor = Low(cursor)
  <2>1. AtStart(heap, cursor)
    BY <1>1 DEF Inv, SweepFits
  <2>2. cursor # NSections * Quanta + 1
    <3>1. cursor <= NSections * Quanta
      BY <1>1, Geometry
    <3> QED  BY <3>1, <1>3, Numbers
  <2> QED  BY <2>1, <2>2, <1>2, <1>3 DEF AtStart
<1>6. s \in Section /\ cursor' = s * Quanta + 1
  <2>1. High(cursor) = Low(cursor) + Quanta - 1 /\ s \in Section
    BY <1>1, <1>2, Geometry
  <2>2. High(cursor) = s * Quanta
    BY <1>2 DEF High
  <2> QED  BY <2>1, <2>2, <1>1, <1>3, <1>5, Numbers
<1>7. PICK c : c = cursor'
  OBVIOUS
<1>8. /\ c >= 1 /\ c \in 0 .. NSections * Quanta + 1
      /\ AtStart(heap, c) /\ SectionOf(c) = s + 1
      /\ ~ (\E p \in Busy(heap) : p < c /\ SectionOf(p) = s + 1)
      /\ \A r \in heap.sects : r < s + 1 => r < s \/ r = s
  BY <1>3, <1>6, <1>7, Onwards
<1>9. ~ busyHere
  BY <1>2, <1>3, <1>4
<1>10. \A p \in live : p >= c => p \in mark
  <2>1. \A p \in live : p \in Nat
    BY <1>3, Numbers
  <2>2. c = cursor + Quanta
    BY <1>1, <1>7
  <2> QED  BY <2>1, <2>2, <1>3, Numbers
<1>11. Inside' = s + 1
  BY <1>1, <1>7, <1>8 DEF Inside
<1>12. \A r \in heap.sects : r < s + 1 => Kept(heap, r)
  BY <1>2, <1>3, <1>4, <1>8
<1>13. SweepFits'
  BY <1>1, <1>7, <1>8, <1>9, <1>10, <1>11, <1>12 DEF SweepFits
<1> QED  BY <1>1, <1>3, <1>7, <1>8, <1>13, SweepStep

\* The sweep goes on from the piece p to the next, or leaves the section.
LEMMA GoOnIs ==
    ASSUME NEW h \in Heaps, Tiled(h), NEW p \in Addr, SectionOf(p) \in h.sects,
           NEW n \in Nat \ {0}, NEW e, e = p + n, e - 1 <= High(p),
           e <= High(p) => e \in StartsOf(h),
           GoOn(p, n)
    PROVE  /\ cursor' = e /\ phase' \in {"sweep", "leave"} /\ e >= 1
           /\ e \in 0 .. NSections * Quanta + 1
           /\ phase' = "sweep" => AtStart(h, e)
           /\ phase' = "leave" => /\ e - 1 \in Addr /\ e = High(e - 1) + 1
                                  /\ SectionOf(e - 1) \in h.sects
           /\ Inside' = SectionOf(p)
<1>1. /\ p \in Nat \ {0} /\ p <= NSections * Quanta /\ Low(p) \in Nat /\ Low(p) <= p
      /\ High(p) \in Nat /\ High(p) <= NSections * Quanta
      /\ \A q \in Int : Low(p) <= q /\ q <= High(p) =>
            q \in Addr /\ SectionOf(q) = SectionOf(p) /\ Low(q) = Low(p) /\ High(q) = High(p)
  <2>1. High(p) \in Addr
    BY Geometry
  <2>2. High(p) <= NSections * Quanta
    BY <2>1, Geometry
  <2> QED  BY <2>2, Geometry
<1>2. e \in Nat /\ e >= 1 /\ e - 1 \in Int /\ Low(p) <= e /\ Low(p) <= e - 1
  BY <1>1
<1>3. e \in 0 .. NSections * Quanta + 1
  BY <1>1, <1>2, Numbers
<1>4. /\ cursor' = e
      /\ phase' = IF e > High(p) THEN "leave" ELSE "sweep"
  BY DEF GoOn, High
<1>5. CASE e > High(p)
  <2>1. e - 1 = High(p)
    BY <1>1, <1>2, <1>5
  <2>2. e - 1 \in Addr /\ SectionOf(e - 1) = SectionOf(p) /\ High(e - 1) = High(p)
    BY <1>1, <1>2, <2>1
  <2>3. e = High(e - 1) + 1
    BY <1>2, <2>1, <2>2
  <2>4. Inside' = SectionOf(p)
    BY <1>4, <1>5, <2>2 DEF Inside
  <2> QED  BY <1>2, <1>3, <1>4, <1>5, <2>2, <2>3, <2>4
<1>6. CASE ~ (e > High(p))
  <2>1. e <= High(p)
    BY <1>1, <1>2, <1>6
  <2>2. SectionOf(e) = SectionOf(p) /\ AtStart(h, e)
    BY <1>1, <1>2, <2>1 DEF AtStart
  <2>3. Inside' = SectionOf(p)
    BY <1>4, <1>6, <2>2 DEF Inside
  <2> QED  BY <1>2, <1>3, <1>4, <1>6, <2>2, <2>3
<1> QED  BY <1>5, <1>6

\* The sweep is at a piece.
LEMMA PieceAt ==
    ASSUME Inv, AtPiece, NEW p, p = cursor
    PROVE  /\ p \in StartsOf(heap) /\ p \in Addr /\ p \in Nat
           /\ SectionOf(p) \in heap.sects /\ Inside = SectionOf(p) /\ phase = "sweep"
           /\ heap.this[p] \in Nat \ {0} /\ p + heap.this[p] \in Nat
           /\ p + heap.this[p] - 1 <= High(p) /\ High(p) \in Nat
           /\ p + heap.this[p] <= High(p) => p + heap.this[p] \in StartsOf(heap)
           /\ \A x \in StartsOf(heap) : p < x => p + heap.this[p] <= x
<1>1. /\ phase = "sweep" /\ p \in Addr /\ SectionOf(p) \in heap.sects /\ Inside = SectionOf(p)
      /\ AtStart(heap, p)
  BY DEF AtPiece, Inside, Inv, SweepFits
<1>2. heap \in Heaps /\ Tiled(heap)
  BY AtHand
<1>3. /\ p \in Nat \ {0} /\ p <= NSections * Quanta /\ High(p) \in Nat
      /\ \A q \in Int : Low(p) <= q /\ q <= High(p) => q \in Addr
      /\ Low(p) \in Nat /\ Low(p) <= p
  BY <1>1, Geometry
<1>4. p \in StartsOf(heap)
  <2>1. p # NSections * Quanta + 1
    BY <1>3, Numbers
  <2> QED  BY <2>1, <1>1 DEF AtStart
<1>5. heap.this[p] \in 0 .. Quanta /\ heap.this[p] > 0
  BY <1>2, <1>4 DEF Heaps, StartsOf
<1>6. heap.this[p] \in Nat \ {0}
  BY <1>5, Numbers
<1>7. PieceFits(heap, p)
  BY <1>2, <1>4 DEF Tiled
<1>8. p + heap.this[p] <= High(p) => p + heap.this[p] \in StartsOf(heap)
  <2>1. p + heap.this[p] <= High(p) => p + heap.this[p] \in Addr
    BY <1>3, <1>6
  <2> QED  BY <2>1, <1>7 DEF PieceFits, StartsOf
<1>9. \A x \in StartsOf(heap) : p < x => p + heap.this[p] <= x
  BY <1>2, <1>4, <1>7, Disjoint
<1> QED  BY <1>1, <1>3, <1>4, <1>6, <1>7, <1>8, <1>9 DEF PieceFits

\* The sweep leaves a piece as it is.
LEMMA OtherStep ==
    ASSUME Inv, SweepOther
    PROVE  Inv'
<1>1. PICK p : p = cursor
  OBVIOUS
<1>2. /\ AtPiece
      /\ mark' = IF p \in mark THEN mark \ Piece(p, heap.this[p]) ELSE mark
      /\ busyHere' = (busyHere \/ heap.tag[p] = "BusyFirst")
      /\ GoOn(p, heap.this[p])
      /\ UNCHANGED <<heap, live, limbo, taken, wanted, back>>
  BY <1>1 DEF SweepOther
<1>3. /\ p \in StartsOf(heap) /\ p \in Addr /\ p \in Nat
      /\ SectionOf(p) \in heap.sects /\ Inside = SectionOf(p) /\ phase = "sweep"
      /\ heap.this[p] \in Nat \ {0}
      /\ p + heap.this[p] - 1 <= High(p)
      /\ p + heap.this[p] <= High(p) => p + heap.this[p] \in StartsOf(heap)
      /\ \A x \in StartsOf(heap) : p < x => p + heap.this[p] <= x
  BY <1>1, <1>2, PieceAt
<1>4. /\ heap \in Heaps /\ Tiled(heap) /\ Good(heap, None, None)
      /\ live \subseteq Busy(heap) /\ Busy(heap) \subseteq StartsOf(heap)
      /\ StartsOf(heap) \subseteq Addr
      /\ mark \subseteq Addr /\ busyHere \in BOOLEAN
      /\ \A x \in live : x >= cursor => x \in mark
      /\ \A s \in heap.sects : s < Inside => Kept(heap, s)
      /\ busyHere <=> \E x \in Busy(heap) : x < cursor /\ SectionOf(x) = Inside
  BY <1>3, InSweep
<1>5. PICK e, n : n = heap.this[p] /\ e = p + n
  OBVIOUS
<1>6. /\ cursor' = e /\ phase' \in {"sweep", "leave"} /\ e >= 1
      /\ e \in 0 .. NSections * Quanta + 1
      /\ phase' = "sweep" => AtStart(heap, e)
      /\ phase' = "leave" => /\ e - 1 \in Addr /\ e = High(e - 1) + 1
                             /\ SectionOf(e - 1) \in heap.sects
      /\ Inside' = SectionOf(p)
  <2>1. /\ GoOn(p, n) /\ n \in Nat \ {0} /\ e = p + n /\ e - 1 <= High(p)
        /\ e <= High(p) => e \in StartsOf(heap)
    BY <1>2, <1>3, <1>5
  <2> QED  BY <2>1, <1>3, <1>4, GoOnIs
<1>7. mark' \subseteq Addr /\ busyHere' \in BOOLEAN
  BY <1>2, <1>4
<1>8. \A x \in live : x >= e => x \in mark'
  <2>1. ASSUME NEW x \in live, x >= e  PROVE x \in mark'
    <3>1. x \in Nat /\ x >= p
      <4>1. x \in Nat
        BY <1>4, Numbers
      <4> QED  BY <4>1, <2>1, <1>3, <1>5
    <3>2. x \in mark
      BY <3>1, <1>1, <1>4, <2>1
    <3>3. x \notin Piece(p, heap.this[p])
      BY <3>1, <2>1, <1>3, <1>5 DEF Piece
    <3> QED  BY <3>2, <3>3, <1>2
  <2> QED  BY <2>1
<1>9. busyHere' <=> \E x \in Busy(heap) : x < e /\ SectionOf(x) = SectionOf(p)
  <2>1. \A x \in StartsOf(heap) : x < e <=> x < p \/ x = p
    <3>1. StartsOf(heap) \subseteq Nat
      BY <1>4, Numbers
    <3> QED  BY <3>1, <1>3, <1>5
  <2>2. heap.tag[p] = "BusyFirst" <=> p \in Busy(heap)
    BY <1>3 DEF Busy
  <2> QED  BY <2>1, <2>2, <1>1, <1>2, <1>3, <1>4
<1>10. SweepFits'
  BY <1>2, <1>3, <1>4, <1>6, <1>8, <1>9 DEF SweepFits
<1> QED  BY <1>2, <1>3, <1>4, <1>6, <1>7, <1>10, SweepStep

\* The sweep leaves a section, and returns it if nothing in it is needed.
LEMMA LeaveStep ==
    ASSUME Inv, LeaveSection
    PROVE  Inv'
<1>1. PICK s : s = SectionOf(cursor - 1)
  OBVIOUS
<1>2. /\ phase = "leave" /\ busyHere' = FALSE
      /\ UNCHANGED <<live, limbo, taken, wanted, cursor, back>>
  BY DEF LeaveSection
<1>3. /\ heap \in Heaps /\ Tiled(heap) /\ Good(heap, None, None)
      /\ live \subseteq Busy(heap) /\ Busy(heap) \subseteq StartsOf(heap)
      /\ StartsOf(heap) \subseteq Addr
      /\ mark \subseteq Addr /\ busyHere \in BOOLEAN
      /\ \A x \in live : x >= cursor => x \in mark
      /\ \A r \in heap.sects : r < Inside => Kept(heap, r)
      /\ busyHere <=> \E x \in Busy(heap) : x < cursor /\ SectionOf(x) = Inside
  BY <1>2, InSweep
<1>4. Inside = s
  BY <1>1, <1>2 DEF Inside
<1>5. s \in heap.sects /\ s \in Section /\ cursor = s * Quanta + 1
  <2>1. cursor - 1 \in Addr /\ cursor = High(cursor - 1) + 1 /\ s \in heap.sects
    BY <1>1, <1>2 DEF Inv, SweepFits
  <2> QED  BY <2>1, <1>1, <1>3 DEF High, Heaps
<1>6. \A p \in Addr : SectionOf(p) = s => p < cursor
  BY <1>5, NextSection
<1>7. \A p \in Addr : p >= cursor => SectionOf(p) # s
  BY <1>5, NextSection
<1>8. ASSUME Good(heap', None, None), live \subseteq Busy(heap'), phase' = "sweep",
             heap'.frontier = heap.frontier, heap'.sects \subseteq heap.sects,
             \A r \in heap'.sects : r < s \/ r = s => Kept(heap', r),
             mark' \subseteq Addr, \A x \in live : x >= cursor => x \in mark'
      PROVE  Inv'
  <2>1. PICK c, g : c = cursor /\ g = heap'
    OBVIOUS
  <2>2. g \in Heaps /\ Tiled(g)
    BY <2>1, <1>8 DEF Good
  <2>3. /\ c >= 1 /\ c \in 0 .. NSections * Quanta + 1
        /\ AtStart(g, c) /\ SectionOf(c) = s + 1
        /\ ~ (\E p \in Busy(g) : p < c /\ SectionOf(p) = s + 1)
        /\ \A r \in g.sects : r < s + 1 => r < s \/ r = s
    BY <2>1, <2>2, <1>5, Onwards
  <2>4. Inside' = s + 1
    BY <2>1, <2>3, <1>2, <1>8 DEF Inside
  <2>5. SweepFits'
    BY <2>1, <2>3, <2>4, <1>2, <1>8 DEF SweepFits
  <2> QED  BY <2>1, <2>3, <2>5, <1>2, <1>8, SweepStep
<1>9. CASE busyHere \/ (heap.frontier # None /\ SectionOf(heap.frontier) = s)
  <2>1. phase' = "sweep" /\ UNCHANGED <<heap, mark>>
    BY <1>1, <1>9 DEF LeaveSection
  <2>2. Kept(heap, s)
    BY <1>3, <1>4, <1>9 DEF Kept
  <2> QED  BY <2>1, <2>2, <1>3, <1>4, <1>8
<1>10. CASE ~ (busyHere \/ (heap.frontier # None /\ SectionOf(heap.frontier) = s))
  <2>1. ASSUME NEW x \in StartsOf(heap), SectionOf(x) = s
        PROVE  heap.tag[x] # "BusyFirst" /\ x # heap.frontier
    <3>1. x < cursor /\ x # None
      BY <2>1, <1>3, <1>6, NoneIs
    <3>2. x \notin Busy(heap)
      BY <2>1, <3>1, <1>3, <1>4, <1>10
    <3> QED  BY <2>1, <3>1, <3>2, <1>10 DEF Busy
  <2>2. PICK h, g : h = heap /\ g = WithoutSection(heap, s)
    OBVIOUS
  <2>3. /\ InTree(h, First(s))
        /\ Good(g, None, None) /\ g.sects = h.sects \ {s} /\ g.frontier = h.frontier
        /\ StartsOf(g) = {x \in StartsOf(h) : SectionOf(x) # s}
        /\ \A x \in StartsOf(g) : g.tag[x] = h.tag[x] /\ g.this[x] = h.this[x]
    BY <2>1, <2>2, <1>3, <1>5, WithoutSectionGood
  <2>4. heap' = g /\ mark' = {q \in mark : SectionOf(q) # s} /\ phase' = "sweep"
    BY <2>2, <2>3, <1>1, <1>10 DEF LeaveSection
  <2>5. Busy(g) = Busy(h)
    BY <2>1, <2>2, <2>3 DEF Busy
  <2>6. \A r \in g.sects : r < s \/ r = s => Kept(g, r)
    <3>1. ASSUME NEW r \in g.sects, r < s  PROVE Kept(g, r)
      <4>1. Kept(h, r)
        BY <3>1, <2>2, <2>3, <1>3, <1>4
      <4> QED  BY <4>1, <2>3, <2>5 DEF Kept
    <3> QED  BY <3>1, <2>3
  <2>7. \A x \in live : x >= cursor => x \in mark'
    BY <2>4, <1>3, <1>7
  <2> QED  BY <2>2, <2>3, <2>4, <2>5, <2>6, <2>7, <1>3, <1>8
<1> QED  BY <1>9, <1>10

\* The collection ends, and what it came in goes on.
LEMMA EndStep ==
    ASSUME Inv, EndSweep
    PROVE  Inv'
<1>1. /\ phase = "sweep" /\ cursor' = None /\ back' = "idle" /\ phase' = back
      /\ UNCHANGED <<heap, live, mark, limbo, taken, wanted, busyHere>>
  BY DEF EndSweep
<1>2. back \in {"idle", "pagesAgain"} /\ limbo = None /\ taken = None
  BY <1>1, AtHand DEF Inv, CallsTyped
<1>3. CallsTyped'
  <2>1. None \in 0 .. NSections * Quanta + 1
    BY Numbers DEF None
  <2> QED  BY <2>1, <1>1, <1>2 DEF Inv, CallsTyped
<1>4. InOrder' /\ LiveBusy'
  BY <1>1 DEF Inv, InOrder, LiveBusy
<1>5. PhaseFits'
  BY <1>1, <1>2 DEF Inv, PhaseFits, During
<1>6. SweepFits'
  BY <1>1, <1>2 DEF SweepFits
<1> QED  BY <1>3, <1>4, <1>5, <1>6 DEF Inv

\* The sweep frees a piece, and goes on behind it and behind the piece that was
\* merged with it.
LEMMA UnusedStep ==
    ASSUME Inv, SweepUnused
    PROVE  Inv'
<1>1. PICK p, q, h : /\ p = cursor /\ q = mxmemNext(heap, p)
                     /\ h = [heap EXCEPT !.tag[p] = "FreeFirst"]
  OBVIOUS
<1>2. /\ AtPiece /\ heap.tag[p] = "BusyFirst" /\ p \notin mark
      /\ IF Broken(h, p)
         THEN phase' = "corrupt" /\ UNCHANGED <<heap, mark, cursor>>
         ELSE /\ piecePutMixed(h, p)
              /\ IF q # None /\ q \in heap.isFree /\ heap'.tag[q] = "Follow"
                 THEN /\ mark' = IF q \in mark THEN mark \ Piece(q, heap.this[q]) ELSE mark
                      /\ GoOn(p, heap.this[p] + heap.this[q])
                 ELSE UNCHANGED mark /\ GoOn(p, heap.this[p])
      /\ UNCHANGED <<live, limbo, taken, wanted, busyHere, back>>
  BY <1>1 DEF SweepUnused, Unused
<1>3. /\ p \in StartsOf(heap) /\ p \in Addr /\ p \in Nat
      /\ SectionOf(p) \in heap.sects /\ Inside = SectionOf(p) /\ phase = "sweep"
      /\ heap.this[p] \in Nat \ {0} /\ p + heap.this[p] \in Nat
      /\ p + heap.this[p] - 1 <= High(p) /\ High(p) \in Nat
      /\ p + heap.this[p] <= High(p) => p + heap.this[p] \in StartsOf(heap)
      /\ \A x \in StartsOf(heap) : p < x => p + heap.this[p] <= x
  BY <1>1, <1>2, PieceAt
<1>4. /\ heap \in Heaps /\ Tiled(heap) /\ Good(heap, None, None)
      /\ live \subseteq Busy(heap) /\ Busy(heap) \subseteq StartsOf(heap)
      /\ StartsOf(heap) \subseteq Addr
      /\ mark \subseteq Addr /\ busyHere \in BOOLEAN
      /\ \A x \in live : x >= cursor => x \in mark
      /\ \A s \in heap.sects : s < Inside => Kept(heap, s)
      /\ busyHere <=> \E x \in Busy(heap) : x < cursor /\ SectionOf(x) = Inside
  BY <1>3, InSweep
<1>5. IsFreed(h, heap, p)
  BY <1>1, <1>2, <1>3, <1>4, FreedIs
<1>6. /\ Pending(h, p, None)
      /\ StartsOf(h) = StartsOf(heap) /\ h.sects = heap.sects /\ h.this = heap.this
      /\ h.isFree = heap.isFree /\ h.frontier = heap.frontier
      /\ \A x \in Addr : h.tag[x] = IF x = p THEN "FreeFirst" ELSE heap.tag[x]
  BY <1>5 DEF IsFreed
<1>7. piecePutMixed(h, p)
  <2>1. PICK m : m = Merged(h, p)
    OBVIOUS
  <2>2. ~ Broken(h, p)
    BY <2>1, <1>6, PutIs
  <2> QED  BY <2>2, <1>2
<1>8. /\ Good(heap', None, None)
      /\ Keeps(heap', h, h.isFree \cup {p}) /\ Busy(heap') = Busy(h)
      /\ \A x \in Behind(h, p) : x \notin StartsOf(heap')
  BY <1>6, <1>7, PutDone
<1>9. PICK g : g = heap'
  OBVIOUS
<1>10. /\ g \in Heaps /\ Tiled(g) /\ g.sects = heap.sects /\ g.frontier = heap.frontier
       /\ Busy(g) = Busy(heap) \ {p}
       /\ \A x \in StartsOf(heap) : x \notin heap.isFree /\ x # p => x \in StartsOf(g)
  <2>1. Busy(h) = Busy(heap) \ {p}
    BY <1>4, <1>6 DEF Busy
  <2> QED  BY <2>1, <1>6, <1>8, <1>9 DEF Good, Keeps
<1>11. Sound(heap, heap.isFree, None) /\ Apart(heap, heap.isFree)
  BY <1>4, FreeIs DEF Good
<1>12. p \notin live
  BY <1>1, <1>2, <1>3, <1>4
<1>13. ASSUME NEW n \in Nat \ {0}, NEW e, e = p + n, GoOn(p, n), e - 1 <= High(p),
              e <= High(p) => e \in StartsOf(g), mark' \subseteq Addr,
              \A x \in live : x >= e => x \in mark',
              \A x \in Busy(heap) \ {p} : x < e <=> x < p
       PROVE  Inv'
  <2>1. /\ cursor' = e /\ phase' \in {"sweep", "leave"} /\ e >= 1
        /\ e \in 0 .. NSections * Quanta + 1
        /\ phase' = "sweep" => AtStart(g, e)
        /\ phase' = "leave" => /\ e - 1 \in Addr /\ e = High(e - 1) + 1
                               /\ SectionOf(e - 1) \in g.sects
        /\ Inside' = SectionOf(p)
    <3>1. SectionOf(p) \in g.sects
      BY <1>3, <1>10
    <3> QED  BY <3>1, <1>3, <1>10, <1>13, GoOnIs
  <2>2. \A r \in g.sects : r < SectionOf(p) => Kept(g, r)
    <3>1. ASSUME NEW r \in g.sects, r < SectionOf(p)  PROVE Kept(g, r)
      <4>1. Kept(heap, r)
        BY <3>1, <1>3, <1>4, <1>10
      <4>2. r # SectionOf(p)
        <5>1. r \in Nat /\ SectionOf(p) \in Nat
          BY <1>3, <1>10 DEF Heaps, Section
        <5> QED  BY <5>1, <3>1
      <4> QED  BY <4>1, <4>2, <1>10 DEF Kept
    <3> QED  BY <3>1
  <2>3. busyHere <=> \E x \in Busy(g) : x < e /\ SectionOf(x) = SectionOf(p)
    <3>1. busyHere <=> \E x \in Busy(heap) \ {p} : x < p /\ SectionOf(x) = SectionOf(p)
      BY <1>1, <1>3, <1>4
    <3> QED  BY <3>1, <1>10, <1>13
  <2>4. SweepFits'
    BY <2>1, <2>2, <2>3, <1>2, <1>9, <1>13 DEF SweepFits
  <2>5. live \subseteq Busy(g)
    BY <1>4, <1>10, <1>12
  <2> QED  BY <2>1, <2>4, <2>5, <1>2, <1>3, <1>4, <1>8, <1>9, <1>10, <1>13, SweepStep
<1>14. PICK e1 : e1 = p + heap.this[p]
  OBVIOUS
<1>15. q = IF e1 > High(p) THEN None ELSE e1
  BY <1>1, <1>14 DEF mxmemNext, isLast, High
<1>16. CASE q # None /\ q \in heap.isFree
  <2>1. q = e1 /\ q <= High(p) /\ q \in StartsOf(heap)
    BY <1>3, <1>14, <1>15, <1>16
  <2>2. q \notin StartsOf(g) /\ q \in Addr
    <3>1. mxmemNext(h, p) = q
      BY <1>1, <1>6 DEF mxmemNext, isLast
    <3>2. q \in Behind(h, p)
      BY <3>1, <1>6, <1>16 DEF Behind
    <3> QED  BY <3>2, <2>1, <1>4, <1>8, <1>9
  <2>3. heap'.tag[q] = "Follow"
    <3>1. g.this[q] = 0
      <4>1. g.this[q] \in 0 .. Quanta /\ ~ (g.this[q] > 0)
        BY <2>2, <1>10 DEF Heaps, StartsOf
      <4> QED  BY <4>1, Numbers
    <3> QED  BY <3>1, <2>2, <1>9, <1>10 DEF Tiled
  <2>4. /\ mark' = IF q \in mark THEN mark \ Piece(q, heap.this[q]) ELSE mark
        /\ GoOn(p, heap.this[p] + heap.this[q])
    BY <2>3, <1>2, <1>6, <1>7, <1>16, PutIs
  <2>5. /\ q \in Nat /\ heap.this[q] \in Nat \ {0} /\ High(q) = High(p)
        /\ PieceFits(heap, q)
    <3>1. heap.this[q] \in 0 .. Quanta /\ heap.this[q] > 0
      BY <2>1, <2>2, <1>4 DEF Heaps, StartsOf
    <3>2. High(q) = High(p)
      <4>1. q \in Int /\ Low(p) <= p /\ p <= q /\ Low(p) \in Nat
        BY <2>1, <1>3, <1>14, Geometry
      <4>2. q \in Int /\ Low(p) <= q
        BY <4>1, <1>3
      <4> QED  BY <4>2, <2>1, <1>3, Geometry
    <3> QED  BY <3>1, <3>2, <2>1, <2>2, <1>4, Numbers DEF Tiled
  <2>6. PICK n, e : n = heap.this[p] + heap.this[q] /\ e = p + n
    OBVIOUS
  <2>7. e = q + heap.this[q] /\ n \in Nat \ {0} /\ e \in Nat
    BY <2>1, <2>5, <2>6, <1>3, <1>14
  <2>8. e - 1 <= High(p)
    BY <2>5, <2>7 DEF PieceFits
  <2>9. e <= High(p) => e \in StartsOf(g)
    <3>1. ASSUME e <= High(p)  PROVE e \in StartsOf(g)
      <4>1. e \in Addr
        <5>1. e \in Int /\ Low(p) <= e
          BY <2>6, <2>7, <1>3, Geometry
        <5> QED  BY <5>1, <3>1, <1>3, Geometry
      <4>2. e \in StartsOf(heap)
        BY <4>1, <3>1, <2>5, <2>7 DEF PieceFits, StartsOf
      <4>3. e \notin heap.isFree
        <5>1. e \in heap.isFree => e > High(q)
          BY <2>7, <1>11, <1>16 DEF Apart
        <5> QED  BY <5>1, <3>1, <2>5, <2>7, <1>3
      <4>4. e # p
        BY <2>6, <2>7, <1>3
      <4> QED  BY <4>2, <4>3, <4>4, <1>10
    <3> QED  BY <3>1
  <2>10. mark' \subseteq Addr
    BY <2>4, <1>4
  <2>11. \A x \in live : x >= e => x \in mark'
    <3>1. ASSUME NEW x \in live, x >= e  PROVE x \in mark'
      <4>1. x \in Nat
        BY <1>4, Numbers
      <4>2. x >= p /\ x >= q + heap.this[q]
        BY <4>1, <3>1, <2>6, <2>7, <1>3
      <4>3. x \notin Piece(q, heap.this[q])
        BY <4>1, <4>2, <2>5 DEF Piece
      <4> QED  BY <4>2, <4>3, <2>4, <1>1, <1>4
    <3> QED  BY <3>1
  <2>12. \A x \in Busy(heap) \ {p} : x < e <=> x < p
    <3>1. ASSUME NEW x \in Busy(heap), x # p  PROVE x < e <=> x < p
      <4>1. x \in StartsOf(heap) /\ x \in Nat
        BY <1>4, Numbers
      <4>2. x # q
        <5>1. heap.tag[q] = "FreeFirst"
          BY <2>1, <1>11, <1>16 DEF Sound
        <5> QED  BY <5>1 DEF Busy
      <4>3. p < x => q <= x
        BY <4>1, <2>1, <1>3, <1>14
      <4>4. q < x => e <= x
        BY <4>1, <2>1, <2>5, <2>7, <1>4, Disjoint
      <4> QED  BY <4>1, <4>2, <4>3, <4>4, <3>1, <2>5, <2>6, <2>7, <1>3
    <3> QED  BY <3>1
  <2> QED  BY <2>4, <2>6, <2>7, <2>8, <2>9, <2>10, <2>11, <2>12, <1>13
<1>17. CASE ~ (q # None /\ q \in heap.isFree)
  <2>1. mark' = mark /\ GoOn(p, heap.this[p])
    <3>1. ~ Broken(h, p) 
      BY <1>6, PutIs
    <3> QED  BY <3>1, <1>2, <1>17
  <2>2. e1 <= High(p) => e1 \in StartsOf(g)
    <3>1. ASSUME e1 <= High(p)  PROVE e1 \in StartsOf(g)
      <4>1. q = e1 /\ e1 \in StartsOf(heap) /\ e1 # p
        BY <3>1, <1>3, <1>14, <1>15
      <4>2. e1 # None
        BY <4>1, NoneIs
      <4> QED  BY <4>1, <4>2, <1>10, <1>17
    <3> QED  BY <3>1
  <2>3. \A x \in live : x >= e1 => x \in mark'
    <3>1. ASSUME NEW x \in live, x >= e1  PROVE x \in mark'
      <4>1. x \in Nat
        BY <1>4, Numbers
      <4>2. x >= p
        BY <4>1, <3>1, <1>3, <1>14
      <4> QED  BY <4>2, <2>1, <1>1, <1>4
    <3> QED  BY <3>1
  <2>4. \A x \in Busy(heap) \ {p} : x < e1 <=> x < p
    <3>1. ASSUME NEW x \in Busy(heap), x # p  PROVE x < e1 <=> x < p
      <4>1. x \in StartsOf(heap) /\ x \in Nat
        BY <1>4, Numbers
      <4>2. p < x => e1 <= x
        BY <4>1, <1>3, <1>14
      <4> QED  BY <4>1, <4>2, <3>1, <1>3, <1>14
    <3> QED  BY <3>1
  <2>5. e1 - 1 <= High(p) /\ mark' \subseteq Addr
    BY <2>1, <1>3, <1>4, <1>14
  <2> QED  BY <2>1, <2>2, <2>3, <2>4, <2>5, <1>3, <1>13, <1>14
<1> QED  BY <1>16, <1>17

\* Every step keeps the invariant, but for a collection that begins while a
\* piece waits for its node.
LEMMA StepInv == Inv /\ [Next]_vars /\ [Collect => phase # "node"]_vars => Inv'
<1> SUFFICES ASSUME Inv, [Next]_vars, [Collect => phase # "node"]_vars  PROVE Inv'
  OBVIOUS
<1>1. CASE UNCHANGED vars
  BY <1>1 DEF Inv, vars, gcVars, CallsTyped, InOrder, LiveBusy, PhaseFits, SweepFits, During,
              Inside
<1>2. ASSUME NEW n \in 1 .. MaxRequest, stoAlloc(n)  PROVE Inv'
  BY <1>2, TreeStep, FrontierStep DEF stoAlloc
<1>3. ASSUME NEW s \in Section, NewSection(s)  PROVE Inv'
  BY <1>3, SectionStep
<1>4. CASE NoPages
  BY <1>4, NoPagesStep
<1>5. CASE LinkNode
  BY <1>5, LinkStep
<1>6. CASE Give
  BY <1>6, GiveStep
<1>7. ASSUME NEW p \in Addr, stoFree(p)  PROVE Inv'
  BY <1>7, FreeStep
<1>8. ASSUME NEW p \in Addr, Drop(p)  PROVE Inv'
  BY <1>8, DropStep
<1>9. CASE Collect /\ ~ UNCHANGED vars
  BY <1>9, CollectStep
<1>10. CASE SkipSection
  BY <1>10, SkipStep
<1>11. CASE SweepUnused
  BY <1>11, UnusedStep
<1>12. CASE SweepOther
  BY <1>12, OtherStep
<1>13. CASE LeaveSection
  BY <1>13, LeaveStep
<1>14. CASE EndSweep
  BY <1>14, EndStep
<1> QED
  BY <1>1, <1>2, <1>3, <1>4, <1>5, <1>6, <1>7, <1>8, <1>9, <1>10, <1>11, <1>12, <1>13, <1>14
  DEF Next, Collector, Allocator, Client

-----------------------------------------------------------------------------
(* What the invariant says of the properties.                              *)

\* The starts of the model are the starts of the proofs.
LEMMA StartsAre ==
    ASSUME Inv
    PROVE  Starts = StartsOf(heap)
<1>1. Tiled(heap)
  BY AtHand
<1> QED  BY <1>1 DEF Tiled, PieceFits, Starts, StartsOf

\* The free pieces are those of the tree.
LEMMA InTreeFree ==
    ASSUME Inv, NEW p
    PROVE  InTree(heap, p) <=> p \in heap.isFree \ {limbo}
  BY InTreeIs DEF Inv, InOrder, Good

\* The types follow.
LEMMA InvTyped == Inv => TypeOK
<1> SUFFICES ASSUME Inv  PROVE TypeOK
  OBVIOUS
<1>1. /\ heap \in Heaps /\ limbo \in Addr \cup {None} /\ taken \in Addr \cup {None}
      /\ live \subseteq Addr
  BY AtHand DEF StartsOf, Busy
<1>2. \A n \in Sizes(heap) : n \in 1 .. Quanta /\ heap.tree[n] \in Seq(Addr)
  BY <1>1, TreeTyped DEF Heaps, Sizes
<1> QED  BY <1>1, <1>2 DEF Inv, CallsTyped, TypeOK, Heaps

\* Both links of a piece are right.
LEMMA InvTiled == Inv => SectionTiled
<1> SUFFICES ASSUME Inv  PROVE SectionTiled
  OBVIOUS
<1>1. heap \in Heaps /\ Tiled(heap)
  BY AtHand
<1>2. ASSUME NEW s \in heap.sects, NEW p \in Addr, SectionOf(p) = s, heap.this[p] > 0
      PROVE  LET n == mxmemNext(heap, p) IN
             /\ p + heap.this[p] - 1 <= s * Quanta
             /\ \A q \in Piece(p, heap.this[p]) \ {p} : heap.this[q] = 0
             /\ n # None => heap.this[n] > 0 /\ mxmemPrev(heap, n) = p
             /\ heap.tag[p] # "Follow"
  <2>1. p \in StartsOf(heap) /\ PieceFits(heap, p) /\ High(p) = s * Quanta
    BY <1>1, <1>2 DEF StartsOf, Tiled, High
  <2>2. p \in Nat /\ heap.this[p] \in Nat /\ High(p) \in Nat /\ Low(p) <= p /\ Low(p) \in Nat
    BY <1>1, <2>1, Numbers, Geometry DEF Heaps
  <2>3. ASSUME NEW q \in Piece(p, heap.this[p]) \ {p}  PROVE heap.this[q] = 0
    <3>1. q \in Int /\ p < q /\ q < p + heap.this[p] /\ q <= High(p)
      BY <2>1, <2>2 DEF Piece, PieceFits
    <3>2. q \in Addr
      BY <3>1, <2>2, Geometry
    <3> QED  BY <3>1, <3>2, <2>1 DEF PieceFits
  <2>4. ASSUME NEW n, n = mxmemNext(heap, p), n # None
        PROVE  heap.this[n] > 0 /\ mxmemPrev(heap, n) = p
    <3>1. /\ n = p + heap.this[p] /\ n \in StartsOf(heap) /\ Low(n) = Low(p)
          /\ heap.prev[n] = heap.this[p]
      BY <2>1, <2>4, <1>1, NextIs
    <3>2. n # Low(n)
      BY <3>1, <2>2, <1>2
    <3> QED  BY <3>1, <3>2, <2>2 DEF mxmemPrev, isFirst, Low, StartsOf
  <2>5. heap.tag[p] # "Follow"
    BY <1>1, <1>2 DEF Tiled
  <2> QED  BY <2>1, <2>3, <2>4, <2>5 DEF PieceFits
<1>3. \A p \in Addr : heap.this[p] = 0 => heap.tag[p] = "Follow"
  BY <1>1 DEF Tiled
<1>4. \A s \in heap.sects : heap.this[First(s)] > 0
  BY <1>1 DEF Tiled
<1> QED  BY <1>2, <1>3, <1>4 DEF SectionTiled

\* Between calls nothing waits: the tree has all free pieces.
LEMMA InvExact == Inv => FreeTreeExact
<1> SUFFICES ASSUME Inv, phase \in {"idle", "pages", "pagesAgain"}
    PROVE /\ \A n \in Sizes(heap) :
                /\ heap.tree[n] # <<>>
                /\ IsInjective(heap.tree[n])
                /\ \A p \in ToSet(heap.tree[n]) : p \in Starts /\ heap.this[p] = n
          /\ \A p \in Starts :
                /\ InTree(heap, p) <=> p \in heap.isFree
                /\ p \in heap.isFree <=> heap.tag[p] = "FreeFirst" /\ p # heap.frontier
  BY DEF FreeTreeExact
<1>1. Good(heap, None, None) /\ limbo = None
  BY AtHand
<1>2. /\ TreeFor(heap.tree, heap.this, heap.isFree) /\ Sound(heap, heap.isFree, None)
  BY <1>1, FreeIs DEF Good
<1>3. Starts = StartsOf(heap)
  BY StartsAre
<1>4. \A p : InTree(heap, p) <=> p \in heap.isFree
  BY <1>2, InTreeIs
<1>5. \A p \in Starts : p \in heap.isFree <=> heap.tag[p] = "FreeFirst" /\ p # heap.frontier
  BY <1>2, <1>3, NoneIs DEF Sound
<1> QED  BY <1>2, <1>3, <1>4, <1>5 DEF TreeFor, Sizes, Sound

\* Between calls no two free pieces are neighbours.
LEMMA InvApart == Inv => NoFreeNeighbours
<1> SUFFICES ASSUME Inv, phase \in {"idle", "pages", "pagesAgain"},
                    NEW p \in Starts, p \in heap.isFree, mxmemNext(heap, p) \in heap.isFree
             PROVE  FALSE
  BY DEF NoFreeNeighbours
<1>1. heap \in Heaps /\ Tiled(heap) /\ Good(heap, None, None)
  BY AtHand
<1>2. Apart(heap, heap.isFree) /\ None \notin heap.isFree
  BY <1>1, FreeIs, NoneIs DEF Good
<1>3. p \in StartsOf(heap) /\ PieceFits(heap, p)
  BY <1>1, StartsAre DEF Tiled
<1>4. mxmemNext(heap, p) # None
  BY <1>2
<1>5. /\ mxmemNext(heap, p) = p + heap.this[p]
      /\ SectionOf(mxmemNext(heap, p)) = SectionOf(p) /\ mxmemNext(heap, p) \in StartsOf(heap)
  BY <1>1, <1>3, <1>4, NextIs
<1>6. mxmemNext(heap, p) \in Addr /\ High(mxmemNext(heap, p)) = High(p)
  BY <1>5 DEF High, StartsOf
<1>7. mxmemNext(heap, p) > High(p)
  BY <1>2, <1>5 DEF Apart
<1> QED  BY <1>6, <1>7, Geometry

\* A piece in use is in no list.
LEMMA InvLive == Inv => LiveKept
<1> SUFFICES ASSUME Inv, NEW p \in live
             PROVE  p \in Starts /\ heap.tag[p] = "BusyFirst" /\ ~ InTree(heap, p)
  BY DEF LiveKept
<1>1. p \in StartsOf(heap) /\ heap.tag[p] = "BusyFirst"
  BY AtHand DEF Busy
<1>2. p \notin FreeIn(heap, limbo)
  BY <1>1 DEF Inv, InOrder, Good, Sound
<1>3. p \notin heap.isFree
  BY <1>1, <1>2, NoneIs DEF FreeIn
<1> QED  BY <1>1, <1>3, StartsAre, InTreeFree

\* A collection that ends has been through all sections.
LEMMA InvReturned ==
    ASSUME Inv, EndSweep
    PROVE  \A s \in heap.sects :
              \/ \E p \in Starts : SectionOf(p) = s /\ heap.tag[p] = "BusyFirst"
              \/ heap.frontier # None /\ SectionOf(heap.frontier) = s
<1>1. phase = "sweep" /\ cursor = NSections * Quanta + 1
  BY DEF EndSweep
<1>2. \A s \in heap.sects : s < Inside => Kept(heap, s)
  BY <1>1, InSweep
<1>3. Inside = NSections + 1
  <2>1. NSections \in Section
    BY Numbers DEF Section
  <2> QED  BY <2>1, <1>1, NextSection DEF Inside
<1>4. \A s \in heap.sects : s < Inside
  BY <1>3, AtHand, Numbers DEF Heaps, Section
<1> QED  BY <1>2, <1>4, StartsAre DEF Kept, Busy

-----------------------------------------------------------------------------
(* Theorems.                                                               *)

\* No collection begins while a piece waits for its node: the nodes come from
\* pieces that are at hand, or from pages that are there, or the collector is
\* switched off.  Where one does begin, the section of the piece may be returned
\* (HeldKept fails in the run mixed_held).
NodesAtHand == [][Collect => phase # "node"]_vars

\* By its guard Collect does not begin there when asking for a node never
\* collects, as in the run mixed_two.
LEMMA NodesGiven ==
    ASSUME ~ NodesCollect
    PROVE  Spec => NodesAtHand
<1>1. [Next]_vars => [Collect => phase # "node"]_vars
  BY DEF Collect
<1> QED  BY <1>1, PTL DEF Spec, NodesAtHand

\* The invariant, for any number and any size of sections: the heap is in order
\* between the steps of store.c, and the sweep has kept what is needed so far.
THEOREM InvHolds == Spec /\ NodesAtHand => []Inv
<1>1. Init => Inv
  BY InitInv
<1>2. Inv /\ [Next]_vars /\ [Collect => phase # "node"]_vars => Inv'
  BY StepInv
<1> QED  BY <1>1, <1>2, PTL DEF Spec, NodesAtHand

\* Every variable keeps its type, and no step meets a piece that says it is free
\* and is in no list (the phase "corrupt").
THEOREM TypeHolds == Spec /\ NodesAtHand => [](TypeOK /\ phase # "corrupt")
<1>1. Inv => TypeOK /\ phase # "corrupt"
  BY InvTyped DEF Inv, CallsTyped
<1> QED  BY <1>1, InvHolds, PTL

\* mxmemSplit, mxmemMerge and the boundary tags: the pieces of a section follow
\* each other without gap or overlap, and the links of both directions are right.
THEOREM TilesHold == Spec /\ NodesAtHand => []SectionTiled
<1>1. Inv => SectionTiled
  BY InvTiled
<1> QED  BY <1>1, InvHolds, PTL

\* mxmemLink, mxmemUnlink and the reuse of an entry in pieceGetMixed: between
\* calls the free tree has each free piece once, in the list of its size.
THEOREM TreeHolds == Spec /\ NodesAtHand => []FreeTreeExact
<1>1. Inv => FreeTreeExact
  BY InvExact
<1> QED  BY <1>1, InvHolds, PTL

\* piecePutMixed merges with all that is free: no two free pieces are neighbours.
THEOREM ApartHolds == Spec /\ NodesAtHand => []NoFreeNeighbours
<1>1. Inv => NoFreeNeighbours
  BY InvApart
<1> QED  BY <1>1, InvHolds, PTL

\* stoGcSweepMixed: a piece the client can reach is never freed.
THEOREM LiveHolds == Spec /\ NodesAtHand => []LiveKept
<1>1. Inv => LiveKept
  BY InvLive
<1> QED  BY <1>1, InvHolds, PTL

\* stoGcSweepMixed returns every section that holds nothing.
THEOREM ReturnedHolds == Spec /\ NodesAtHand => EmptyReturned
<1>1. Inv => [EndSweep =>
                \A s \in heap.sects :
                    \/ \E p \in Starts : SectionOf(p) = s /\ heap.tag[p] = "BusyFirst"
                    \/ heap.frontier # None /\ SectionOf(heap.frontier) = s]_vars
  BY InvReturned
<1> QED  BY <1>1, InvHolds, PTL DEF EmptyReturned

=============================================================================
