--------------------------- MODULE StoMixedPieces ---------------------------
(***************************************************************************)
(* First part of the proofs about StoMixed: what keeps the pieces of a     *)
(* section in a row, what keeps the free tree exact, and what              *)
(* piecePutMixed makes of a heap.  StoMixedProofs goes on to the calls.    *)
(***************************************************************************)
EXTENDS StoMixed, SequenceTheorems, WellFoundedInduction, TLAPS

-----------------------------------------------------------------------------
(* Sections.                                                               *)

\* The first and the last quantum of the section p is in.
Low(p) == First(SectionOf(p))
High(p) == SectionOf(p) * Quanta

\* Sizes and addresses are numbers.
LEMMA Numbers ==
    /\ NSections \in Nat /\ NSections >= 1
    /\ Quanta \in Nat \ {0} /\ Quanta >= 1
    /\ MaxRequest \in Nat /\ MaxRequest >= 1 /\ MaxRequest <= Quanta
    /\ NSections * Quanta \in Nat
    /\ Addr \subseteq Nat \ {0}
  BY MixedConstants DEF Addr

NumberLess == {p \in Nat \X Nat : p[1] < p[2]}

\* The order of the natural numbers, as a relation.
LEMMA NumberLessIs ==
    /\ IsWellFoundedOn(NumberLess, Nat)
    /\ \A x, y \in Nat : <<x, y>> \in NumberLess <=> x < y
  BY NatLessThanWellFounded DEF OpToRel, NumberLess

\* A set of numbers has a least one.
LEMMA LeastNumber ==
    ASSUME NEW T \in SUBSET Nat, T # {}
    PROVE  \E m \in T : \A n \in T : m <= n
<1>1. IsWellFoundedOn(NumberLess, Nat)
  BY NumberLessIs
<1>2. PICK m \in T : \A n \in T : ~ (<<n, m>> \in NumberLess)
  BY <1>1, WFMin
<1>3. ASSUME NEW n \in T  PROVE m <= n
  <2>1. n \in Nat /\ m \in Nat /\ <<n, m>> \notin NumberLess
    BY <1>2
  <2> QED  BY <2>1, NumberLessIs
<1> QED  BY <1>3

\* A product grows with its factors.
LEMMA Product ==
    ASSUME NEW a \in Nat, NEW b \in Nat, NEW q \in Nat, a <= b
    PROVE  a * q <= b * q /\ a * q \in Nat /\ b * q \in Nat
<1>1. PICK c \in Nat : b = a + c
  BY b - a \in Nat
<1>2. b * q = a * q + c * q /\ c * q \in Nat /\ a * q \in Nat
  BY <1>1
<1> QED  BY <1>2

\* Division rounds down.
LEMMA Quotient ==
    ASSUME NEW a \in Nat, NEW b \in Nat \ {0}
    PROVE  a \div b \in Nat /\ (a \div b) * b <= a /\ a < (a \div b) * b + b
  OBVIOUS

\* The quotient is the only number that does.
LEMMA QuotientIs ==
    ASSUME NEW a \in Nat, NEW b \in Nat \ {0}, NEW k \in Nat,
           k * b <= a, a < k * b + b
    PROVE  a \div b = k
<1> DEFINE d == a \div b
<1>1. d \in Nat /\ d * b <= a /\ a < d * b + b
  BY Quotient
<1> HIDE DEF d
<1>2. \A x \in Nat : (x + 1) * b = x * b + b
  OBVIOUS
<1>3. CASE d < k
  <2>1. (d + 1) * b <= k * b
    BY <1>1, <1>3, Product
  <2> QED  BY <2>1, <1>1, <1>2, <1>3
<1>4. CASE k < d
  <2>1. (k + 1) * b <= d * b
    BY <1>1, <1>4, Product
  <2> QED  BY <2>1, <1>1, <1>2, <1>4
<1> QED  BY <1>1, <1>3, <1>4 DEF d

\* A quantum is in section s if it is between its bounds.
LEMMA SectionIs ==
    ASSUME NEW s \in Section, NEW p \in Int, First(s) <= p, p <= s * Quanta
    PROVE  p \in Addr /\ SectionOf(p) = s
<1>1. s - 1 \in Nat /\ s \in Nat /\ s <= NSections /\ s >= 1
  BY Numbers DEF Section
<1>2. (s - 1) * Quanta \in Nat /\ s * Quanta = (s - 1) * Quanta + Quanta
  BY <1>1, Numbers
<1>3. s * Quanta <= NSections * Quanta
  BY <1>1, Numbers, Product
<1>4. p - 1 \in Nat /\ (s - 1) * Quanta <= p - 1 /\ p - 1 < (s - 1) * Quanta + Quanta
  BY <1>2, Numbers DEF First
<1>5. (p - 1) \div Quanta = s - 1
  BY <1>1, <1>4, Numbers, QuotientIs
<1>6. p \in Addr
  <2>1. p >= 1 /\ p <= NSections * Quanta
    BY <1>2, <1>3, <1>4, Numbers
  <2> QED  BY <2>1, Numbers DEF Addr
<1> QED  BY <1>1, <1>5, <1>6 DEF SectionOf

\* Every quantum is in a section.
LEMMA Bounds ==
    ASSUME NEW p \in Addr
    PROVE  SectionOf(p) \in Section /\ Low(p) <= p /\ p <= High(p)
<1>1. p - 1 \in Nat /\ p \in Nat /\ p <= NSections * Quanta
  BY Numbers DEF Addr
<1> DEFINE d == (p - 1) \div Quanta
<1>2. d \in Nat /\ d * Quanta <= p - 1 /\ p - 1 < d * Quanta + Quanta
  BY <1>1, Numbers, Quotient
<1>3. SectionOf(p) = d + 1
  BY DEF SectionOf
<1> HIDE DEF d
<1>4. (d + 1) * Quanta = d * Quanta + Quanta /\ d * Quanta \in Nat
  BY <1>2, Numbers
<1>5. d < NSections
  <2>1. CASE NSections <= d
    <3>1. NSections * Quanta <= d * Quanta
      BY <2>1, <1>2, Numbers, Product
    <3> QED  BY <3>1, <1>1, <1>2, <1>4, Numbers
  <2> QED  BY <2>1, <1>2, Numbers
<1>6. (d + 1) - 1 = d
  BY <1>2
<1> QED  BY <1>1, <1>2, <1>3, <1>4, <1>5, <1>6, Numbers DEF Section, First, Low, High

\* A section has Quanta quanta, and the next follows it.
LEMMA Ends ==
    ASSUME NEW s \in Section
    PROVE  /\ First(s) \in Addr /\ SectionOf(First(s)) = s
           /\ s * Quanta \in Addr /\ SectionOf(s * Quanta) = s
           /\ s * Quanta = First(s) + Quanta - 1
           /\ s + 1 \in Section => First(s + 1) = s * Quanta + 1
           /\ s + 1 \notin Section => s * Quanta = NSections * Quanta
<1>1. s \in Nat /\ s - 1 \in Nat /\ s >= 1
  BY Numbers DEF Section
<1>2. (s - 1) * Quanta \in Nat /\ s * Quanta = (s - 1) * Quanta + Quanta
  BY <1>1, Numbers
<1>3. First(s) \in Int /\ s * Quanta \in Int /\ First(s) <= s * Quanta
  BY <1>2, Numbers DEF First
<1>4. First(s + 1) = s * Quanta + 1
  <2>1. (s + 1) - 1 = s
    BY <1>1
  <2> QED  BY <2>1 DEF First
<1>5. s + 1 \notin Section => s = NSections
  BY <1>1, Numbers DEF Section
<1> QED  BY <1>2, <1>3, <1>4, <1>5, SectionIs, Numbers DEF First

\* What the proofs below use of the above.
LEMMA Geometry ==
    ASSUME NEW p \in Addr
    PROVE  /\ p \in Nat \ {0} /\ p <= NSections * Quanta
           /\ SectionOf(p) \in Section
           /\ Low(p) \in Addr /\ High(p) \in Addr
           /\ Low(p) \in Nat /\ High(p) \in Nat
           /\ Low(p) <= p /\ p <= High(p) /\ High(p) = Low(p) + Quanta - 1
           /\ \A q \in Int : Low(p) <= q /\ q <= High(p) =>
                 q \in Addr /\ SectionOf(q) = SectionOf(p) /\ Low(q) = Low(p) /\ High(q) = High(p)
<1>1. SectionOf(p) \in Section /\ Low(p) <= p /\ p <= High(p)
  BY Bounds
<1>2. Low(p) \in Addr /\ High(p) \in Addr /\ High(p) = Low(p) + Quanta - 1
  BY <1>1, Ends DEF Low, High
<1>3. ASSUME NEW q \in Int, Low(p) <= q, q <= High(p)
      PROVE  q \in Addr /\ SectionOf(q) = SectionOf(p) /\ Low(q) = Low(p) /\ High(q) = High(p)
  BY <1>1, <1>3, SectionIs DEF Low, High
<1> QED  BY <1>1, <1>2, <1>3, Numbers DEF Addr

-----------------------------------------------------------------------------
(* Pieces in a row.                                                        *)

FreeTrees == UNION {[D -> Seq(Addr)] : D \in SUBSET (1 .. Quanta)}
Heaps == [sects : SUBSET Section, this : [Addr -> 0 .. Quanta], prev : [Addr -> 0 .. Quanta],
          isFree : SUBSET Addr, tag : [Addr -> Kinds], tree : FreeTrees,
          frontier : Addr \cup {None}]

StartsOf(h) == {p \in Addr : h.this[p] > 0}

\* The pieces of each section follow each other from its start to its end, and
\* the links between neighbours are right in both directions.
PieceFits(h, p) ==
    /\ SectionOf(p) \in h.sects
    /\ p + h.this[p] - 1 <= High(p)
    /\ \A q \in Addr : p < q /\ q < p + h.this[p] => h.this[q] = 0
    /\ p + h.this[p] <= High(p) =>
          h.this[p + h.this[p]] > 0 /\ h.prev[p + h.this[p]] = h.this[p]
    /\ p # Low(p) =>
          h.prev[p] > 0 /\ p - h.prev[p] >= Low(p) /\ h.this[p - h.prev[p]] = h.prev[p]
Tiled(h) ==
    /\ \A s \in h.sects : h.this[First(s)] > 0
    /\ \A p \in StartsOf(h) : PieceFits(h, p)
    /\ \A p \in Addr : h.this[p] = 0 <=> h.tag[p] = "Follow"

\* What mxmemNext and mxmemPrev give.
LEMMA NextIs ==
    ASSUME NEW h \in Heaps, NEW p \in StartsOf(h), PieceFits(h, p)
    PROVE  /\ p \in Addr /\ h.this[p] \in 1 .. Quanta
           /\ mxmemNext(h, p) = IF p + h.this[p] > High(p) THEN None ELSE p + h.this[p]
           /\ mxmemNext(h, p) # None =>
                /\ mxmemNext(h, p) = p + h.this[p]
                /\ mxmemNext(h, p) \in StartsOf(h)
                /\ SectionOf(mxmemNext(h, p)) = SectionOf(p)
                /\ Low(mxmemNext(h, p)) = Low(p) /\ High(mxmemNext(h, p)) = High(p)
                /\ h.prev[mxmemNext(h, p)] = h.this[p]
           /\ mxmemNext(h, p) = None => p + h.this[p] = High(p) + 1
<1>1. p \in Addr /\ h.this[p] \in 1 .. Quanta
  BY Numbers DEF StartsOf, Heaps
<1>2. mxmemNext(h, p) = IF p + h.this[p] > High(p) THEN None ELSE p + h.this[p]
  BY DEF mxmemNext, isLast, High
<1>3. p + h.this[p] > p /\ None \notin Addr
  BY <1>1, Numbers DEF None
<1>4. CASE p + h.this[p] <= High(p)
  <2>1. p + h.this[p] \in Addr /\ SectionOf(p + h.this[p]) = SectionOf(p)
        /\ Low(p + h.this[p]) = Low(p) /\ High(p + h.this[p]) = High(p)
    BY <1>1, <1>3, <1>4, Geometry
  <2> QED  BY <1>1, <1>2, <1>3, <1>4, <2>1, Geometry DEF PieceFits, StartsOf
<1>5. CASE p + h.this[p] > High(p)
  BY <1>1, <1>2, <1>5, Geometry DEF PieceFits
<1> QED  BY <1>1, <1>4, <1>5, Geometry

\* The other direction.
LEMMA PrevIs ==
    ASSUME NEW h \in Heaps, NEW p \in StartsOf(h), PieceFits(h, p),
           \A q \in StartsOf(h) : PieceFits(h, q)
    PROVE  /\ mxmemPrev(h, p) # None =>
                /\ mxmemPrev(h, p) \in StartsOf(h)
                /\ mxmemNext(h, mxmemPrev(h, p)) = p
           /\ mxmemPrev(h, p) = None <=> p = Low(p)
<1>1. p \in Addr /\ h.this[p] \in 1 .. Quanta
  BY Numbers DEF StartsOf, Heaps
<1>2. mxmemPrev(h, p) = IF p = Low(p) THEN None ELSE p - h.prev[p]
  BY DEF mxmemPrev, isFirst, Low
<1>3. None = 0
  BY DEF None
<1>4. CASE p # Low(p)
  <2> DEFINE q == p - h.prev[p]
  <2>1. h.prev[p] \in 1 .. Quanta /\ q >= Low(p) /\ q < p /\ h.this[q] = h.prev[p] /\ q \in Int
    BY <1>1, <1>4, Geometry DEF PieceFits, Heaps
  <2>2. q \in Addr /\ High(q) = High(p)
    BY <1>1, <2>1, Geometry
  <2>3. q \in StartsOf(h) /\ q + h.this[q] = p /\ q # 0
    BY <2>1, <2>2, <1>1, Geometry DEF StartsOf
  <2>4. mxmemNext(h, q) = p
    BY <2>2, <2>3, NextIs, <1>1, Geometry
  <2> QED  BY <1>2, <1>3, <1>4, <2>3, <2>4
<1>5. CASE p = Low(p)
  BY <1>2, <1>3, <1>5
<1> QED  BY <1>4, <1>5

\* Pieces do not overlap.
LEMMA Disjoint ==
    ASSUME NEW h \in Heaps, NEW p \in StartsOf(h), PieceFits(h, p),
           NEW q \in StartsOf(h), p < q
    PROVE  p + h.this[p] <= q
<1>1. p \in Nat /\ q \in Nat /\ q \in Addr /\ h.this[p] \in Nat /\ h.this[q] > 0
  BY Numbers DEF StartsOf, Heaps
<1> QED  BY <1>1 DEF PieceFits

\* g is h with the piece q and the piece p before it as one of size n.
IsMerge(g, h, p, q, n) ==
    /\ g \in Heaps
    /\ n \in 1 .. Quanta /\ p + n - 1 <= High(p)
    /\ g.sects = h.sects /\ g.tree = h.tree /\ g.frontier = h.frontier
    /\ g.isFree = h.isFree \ {q}
    /\ \A x \in Addr :
          /\ g.this[x] = IF x = p THEN n ELSE IF x = q THEN 0 ELSE h.this[x]
          /\ g.prev[x] = IF x = q THEN 0
                         ELSE IF p + n <= High(p) /\ x = p + n THEN n ELSE h.prev[x]
          /\ g.tag[x] = IF x = q THEN "Follow" ELSE h.tag[x]
    /\ StartsOf(g) = StartsOf(h) \ {q}
\* What mxmemMerge makes of two neighbours.
LEMMA MergeIs ==
    ASSUME NEW h \in Heaps, Tiled(h), NEW p \in StartsOf(h), NEW q \in StartsOf(h),
           q = p + h.this[p], q <= High(p)
    PROVE  IsMerge(mxmemMerge(h, p, q), h, p, q, h.this[p] + h.this[q])
<1> DEFINE g == mxmemMerge(h, p, q)
           n == h.this[p] + h.this[q]
<1>1. /\ p \in Addr /\ q \in Addr /\ p \in Nat /\ q \in Nat
      /\ h.this[p] \in 1 .. Quanta /\ h.this[q] \in 1 .. Quanta /\ p < q
  BY Numbers DEF StartsOf, Heaps
<1>2. High(q) = High(p) /\ PieceFits(h, p) /\ PieceFits(h, q)
  BY <1>1, Geometry DEF Tiled
<1>3. n \in 1 .. Quanta /\ p + n - 1 <= High(p)
  <2>1. p + n = q + h.this[q] /\ n \in Nat \ {0}
    BY <1>1, Numbers
  <2>2. p + n - 1 <= High(p)
    <3>1. q + h.this[q] - 1 <= High(q)
      BY <1>2 DEF PieceFits
    <3> QED  BY <3>1, <1>1, <1>2, <2>1, Geometry
  <2>3. High(p) = Low(p) + Quanta - 1 /\ Low(p) <= p /\ Low(p) \in Nat /\ High(p) \in Nat
    BY <1>1, Geometry
  <2> HIDE DEF n
  <2>4. n <= Quanta
    BY <1>1, <2>1, <2>2, <2>3, Numbers
  <2> QED  BY <2>1, <2>2, <2>4, Numbers
<1>4. p + n <= High(p) => p + n \in Addr
  BY <1>1, <1>3, Geometry
<1>5. SetBehind(h, p, n) = IF p + n > High(p) THEN h.prev ELSE [h.prev EXCEPT ![p + n] = n]
  BY DEF SetBehind, High
<1> DEFINE b == SetBehind(h, p, n)
<1>6. /\ g.sects = h.sects /\ g.tree = h.tree /\ g.frontier = h.frontier
      /\ g.isFree = h.isFree \ {q}
      /\ g.this = [h.this EXCEPT ![p] = n, ![q] = 0]
      /\ g.prev = [b EXCEPT ![q] = 0]
      /\ g.tag = [h.tag EXCEPT ![q] = "Follow"]
      /\ g = [h EXCEPT !.this = [h.this EXCEPT ![p] = n, ![q] = 0], !.prev = [b EXCEPT ![q] = 0],
                       !.isFree = h.isFree \ {q}, !.tag = [h.tag EXCEPT ![q] = "Follow"]]
  BY DEF mxmemMerge, Heaps
<1> HIDE DEF g, n
<1>7. b \in [Addr -> 0 .. Quanta]
      /\ \A x \in Addr : b[x] = IF p + n <= High(p) /\ x = p + n THEN n ELSE h.prev[x]
  BY <1>1, <1>3, <1>4, <1>5, Geometry DEF Heaps
<1> HIDE DEF b
<1>8. [h.this EXCEPT ![p] = n, ![q] = 0] \in [Addr -> 0 .. Quanta]
      /\ [b EXCEPT ![q] = 0] \in [Addr -> 0 .. Quanta]
      /\ [h.tag EXCEPT ![q] = "Follow"] \in [Addr -> Kinds]
  BY <1>1, <1>3, <1>7, Numbers DEF Heaps, Kinds
<1>9. g \in Heaps
  BY <1>6, <1>8 DEF Heaps
<1>10. \A x \in Addr :
         /\ g.this[x] = IF x = p THEN n ELSE IF x = q THEN 0 ELSE h.this[x]
         /\ g.prev[x] = IF x = q THEN 0
                        ELSE IF p + n <= High(p) /\ x = p + n THEN n ELSE h.prev[x]
         /\ g.tag[x] = IF x = q THEN "Follow" ELSE h.tag[x]
  BY <1>1, <1>6, <1>7 DEF Heaps
<1>11. StartsOf(g) = StartsOf(h) \ {q}
  <2>1. g.this[p] > 0 /\ h.this[p] > 0 /\ ~ (g.this[q] > 0) /\ p # q
    BY <1>1, <1>3, <1>10
  <2>2. \A x \in Addr : x # p /\ x # q => g.this[x] = h.this[x]
    BY <1>10
  <2> QED  BY <1>1, <2>1, <2>2 DEF StartsOf
<1>12. IsMerge(g, h, p, q, n)
  BY <1>3, <1>6, <1>9, <1>10, <1>11 DEF IsMerge
<1> QED  BY <1>12 DEF g, n

\* mxmemMerge keeps the pieces in a row.
LEMMA MergeTiled ==
    ASSUME NEW h \in Heaps, Tiled(h), NEW p \in StartsOf(h), NEW q \in StartsOf(h),
           q = p + h.this[p], q <= High(p)
    PROVE  Tiled(mxmemMerge(h, p, q))
<1> DEFINE n == h.this[p] + h.this[q]
<1>1. PICK g : g = mxmemMerge(h, p, q)
  OBVIOUS
<1>2. /\ g \in Heaps
      /\ n \in 1 .. Quanta /\ p + n - 1 <= High(p)
      /\ g.sects = h.sects
      /\ \A x \in Addr :
            /\ g.this[x] = IF x = p THEN n ELSE IF x = q THEN 0 ELSE h.this[x]
            /\ g.prev[x] = IF x = q THEN 0
                           ELSE IF p + n <= High(p) /\ x = p + n THEN n ELSE h.prev[x]
            /\ g.tag[x] = IF x = q THEN "Follow" ELSE h.tag[x]
      /\ StartsOf(g) = StartsOf(h) \ {q}
  <2>1. IsMerge(g, h, p, q, n)
    BY <1>1, MergeIs
  <2> QED  BY <2>1 DEF IsMerge
<1>3. /\ p \in Addr /\ q \in Addr /\ p \in Nat /\ q \in Nat /\ p < q
      /\ h.this[p] \in Nat \ {0} /\ h.this[q] \in Nat \ {0}
      /\ n = h.this[p] + h.this[q] /\ p + n = q + h.this[q]
  BY Numbers DEF StartsOf, Heaps
<1>4. /\ High(q) = High(p) /\ Low(q) = Low(p) /\ Low(p) <= p /\ SectionOf(q) = SectionOf(p)
      /\ High(p) \in Nat /\ Low(p) \in Nat
      /\ PieceFits(h, p) /\ PieceFits(h, q)
  BY <1>3, Geometry DEF Tiled
<1> HIDE DEF n
<1>5. \A x \in StartsOf(h) : /\ PieceFits(h, x) /\ x \in Addr /\ x \in Nat
                             /\ h.this[x] \in Nat \ {0}
                             /\ High(x) \in Nat /\ Low(x) \in Nat /\ x <= High(x) /\ Low(x) <= x
  BY Geometry DEF Tiled, StartsOf, Heaps
<1>6. \A x, y \in StartsOf(h) : x < y => x + h.this[x] <= y
  BY <1>5, Disjoint
<1>7. ASSUME NEW s \in g.sects  PROVE g.this[First(s)] > 0
  <2>1. First(s) \in Addr /\ SectionOf(First(s)) = s /\ h.this[First(s)] > 0
    BY <1>2, <1>7, Ends DEF Tiled, Heaps
  <2>2. First(s) # q
    BY <2>1, <1>3, <1>4 DEF Low
  <2> QED  BY <2>1, <2>2, <1>2, <1>3
<1>8. PieceFits(g, p)
  <2>1. g.this[p] = n
    BY <1>2, <1>3
  <2>2. \A y \in Addr : p < y /\ y < p + n => g.this[y] = 0
    <3> TAKE y \in Addr
    <3> HAVE p < y /\ y < p + n
    <3>1. y \in Nat
      BY Numbers
    <3>2. y = q \/ h.this[y] = 0
      BY <3>1, <1>3, <1>4 DEF PieceFits
    <3> QED  BY <3>1, <3>2, <1>2
  <2>3. p + n <= High(p) => g.this[p + n] > 0 /\ g.prev[p + n] = n
    <3> HAVE p + n <= High(p)
    <3>1. p + n \in Addr /\ h.this[p + n] > 0 /\ p + n > q
      BY <1>3, <1>4, Geometry DEF PieceFits
    <3> QED  BY <3>1, <1>2, <1>3
  <2>4. p # Low(p) => g.prev[p] > 0 /\ p - g.prev[p] >= Low(p) /\ g.this[p - g.prev[p]] = g.prev[p]
    <3> HAVE p # Low(p)
    <3>1. g.prev[p] = h.prev[p] /\ h.prev[p] \in Nat
      BY <1>2, <1>3 DEF Heaps
    <3>2. h.prev[p] > 0 /\ p - h.prev[p] >= Low(p) /\ h.this[p - h.prev[p]] = h.prev[p]
      BY <1>4 DEF PieceFits
    <3>3. p - h.prev[p] \in Addr /\ p - h.prev[p] < p
      BY <3>1, <3>2, <1>3, <1>4, Geometry
    <3> QED  BY <3>1, <3>2, <3>3, <1>2, <1>3
  <2> QED  BY <2>1, <2>2, <2>3, <2>4, <1>2, <1>4 DEF PieceFits
<1>9. ASSUME NEW x \in StartsOf(h), x # p, x # q  PROVE PieceFits(g, x)
  <2>1. g.this[x] = h.this[x] /\ x \in Addr
    BY <1>2, <1>5, <1>9
  <2>2. \A y \in Addr : x < y /\ y < x + h.this[x] => g.this[y] = 0
    <3> TAKE y \in Addr
    <3> HAVE x < y /\ y < x + h.this[x]
    <3>1. h.this[y] = 0
      BY <1>5 DEF PieceFits
    <3> QED  BY <3>1, <1>2, <1>3
  <2>3. x + h.this[x] <= High(x) =>
           g.this[x + h.this[x]] > 0 /\ g.prev[x + h.this[x]] = h.this[x]
    <3> HAVE x + h.this[x] <= High(x)
    <3> DEFINE z == x + h.this[x]
    <3>1. z \in Addr /\ h.this[z] > 0 /\ h.prev[z] = h.this[x]
      BY <1>5, Geometry DEF PieceFits
    <3>2. z # q
      BY <1>3, <1>5, <1>6, <1>9
    <3>3. z # p + n
      BY <1>3, <1>5, <1>6, <1>9
    <3> HIDE DEF z
    <3>4. g.this[z] > 0 /\ g.prev[z] = h.prev[z]
      BY <3>1, <3>2, <3>3, <1>2
    <3> QED  BY <3>1, <3>4 DEF z
  <2>4. x # Low(x) => g.prev[x] > 0 /\ x - g.prev[x] >= Low(x) /\ g.this[x - g.prev[x]] = g.prev[x]
    <3> HAVE x # Low(x)
    <3>1. CASE p + n <= High(p) /\ x = p + n
      <4>1. Low(x) = Low(p)
        BY <3>1, <1>3, <1>4, Geometry
      <4>2. g.prev[x] = n /\ x - n = p
        BY <3>1, <2>1, <1>2, <1>3, <1>9
      <4> QED  BY <4>1, <4>2, <1>2, <1>3, <1>4
    <3>2. CASE ~ (p + n <= High(p) /\ x = p + n)
      <4> DEFINE y == x - h.prev[x]
      <4>1. g.prev[x] = h.prev[x] /\ h.prev[x] \in Nat
        BY <3>2, <2>1, <1>2, <1>9 DEF Heaps
      <4>2. h.prev[x] > 0 /\ y >= Low(x) /\ h.this[y] = h.prev[x]
        BY <1>5 DEF PieceFits
      <4>3. y \in Addr /\ High(y) = High(x) /\ y < x /\ y + h.this[y] = x
        <5>1. x \in Addr /\ x \in Nat /\ Low(x) \in Nat /\ x <= High(x) /\ High(x) \in Nat
          BY <1>5, Geometry DEF StartsOf
        <5>2. y \in Int /\ y < x /\ y + h.this[y] = x /\ Low(x) <= y /\ y <= High(x)
          BY <5>1, <4>1, <4>2
        <5> HIDE DEF y
        <5> QED  BY <5>1, <5>2, Geometry
      <4> HIDE DEF y
      <4>4. y # p
        BY <4>3, <1>9
      <4>5. y # q
        BY <4>3, <3>2, <1>3, <1>4, <1>5
      <4>6. g.this[y] = h.this[y]
        BY <4>3, <4>4, <4>5, <1>2
      <4> QED  BY <4>1, <4>2, <4>6 DEF y
    <3> QED  BY <3>1, <3>2
  <2>5. SectionOf(x) \in g.sects /\ x + h.this[x] - 1 <= High(x)
    BY <1>2, <1>5 DEF PieceFits
  <2> QED  BY <2>1, <2>2, <2>3, <2>4, <2>5 DEF PieceFits
<1>10. ASSUME NEW x \in Addr  PROVE g.this[x] = 0 <=> g.tag[x] = "Follow"
  <2>1. h.this[x] = 0 <=> h.tag[x] = "Follow"
    BY DEF Tiled
  <2> QED  BY <2>1, <1>2, <1>3
<1> QED  BY <1>1, <1>2, <1>7, <1>8, <1>9, <1>10 DEF Tiled

\* g is h with the piece p cut after n quanta, before r.
IsSplit(g, h, p, n, r) ==
    /\ g \in Heaps
    /\ r \in Addr \ StartsOf(h) /\ p < r /\ r <= High(p)
    /\ g.sects = h.sects /\ g.tree = h.tree /\ g.frontier = h.frontier
    /\ g.isFree = IF p \in h.isFree THEN h.isFree \cup {r} ELSE h.isFree
    /\ \A x \in Addr :
          /\ g.this[x] = IF x = p THEN n ELSE IF x = r THEN h.this[p] - n ELSE h.this[x]
          /\ g.prev[x] = IF x = r THEN n
                         ELSE IF p + h.this[p] <= High(p) /\ x = p + h.this[p] THEN h.this[p] - n
                         ELSE h.prev[x]
          /\ g.tag[x] = IF x = r THEN "FreeFirst" ELSE h.tag[x]
    /\ StartsOf(g) = StartsOf(h) \cup {r}

\* What mxmemSplit makes of a piece.
LEMMA SplitIs ==
    ASSUME NEW h \in Heaps, Tiled(h), NEW p \in StartsOf(h), NEW n \in Nat \ {0}, n < h.this[p]
    PROVE  IsSplit(mxmemSplit(h, p, n), h, p, n, p + n)
<1> DEFINE g == mxmemSplit(h, p, n)
           r == p + n
           m == h.this[p] - n
<1>1. /\ p \in Addr /\ p \in Nat /\ h.this[p] \in 1 .. Quanta /\ r \in Nat /\ p < r
      /\ m \in 1 .. Quanta /\ n \in 1 .. Quanta /\ r + m = p + h.this[p]
  BY Numbers DEF StartsOf, Heaps
<1>2. PieceFits(h, p)
  BY DEF Tiled
<1>3. r <= High(p) /\ Low(p) <= r
  <2>1. p + h.this[p] - 1 <= High(p)
    BY <1>2 DEF PieceFits
  <2> QED  BY <2>1, <1>1, Geometry
<1>4. r \in Addr /\ High(r) = High(p)
  BY <1>1, <1>3, Geometry
<1>5. h.this[r] = 0
  BY <1>1, <1>2, <1>4 DEF PieceFits
<1>6. r + m <= High(p) => r + m \in Addr
  BY <1>1, <1>3, Geometry
<1> DEFINE b == SetBehind(h, r, m)
<1>7. b = IF r + m > High(r) THEN h.prev ELSE [h.prev EXCEPT ![r + m] = m]
  BY DEF SetBehind, High
<1>8. /\ g = [h EXCEPT !.this = [h.this EXCEPT ![p] = n, ![r] = m],
                       !.prev = [b EXCEPT ![r] = n],
                       !.isFree = IF p \in h.isFree THEN h.isFree \cup {r} ELSE h.isFree,
                       !.tag = [h.tag EXCEPT ![r] = "FreeFirst"]]
  BY DEF mxmemSplit
<1> HIDE DEF g, b, m, r
<1>9. b \in [Addr -> 0 .. Quanta]
      /\ \A x \in Addr : b[x] = IF r + m <= High(p) /\ x = r + m THEN m ELSE h.prev[x]
  BY <1>1, <1>3, <1>4, <1>6, <1>7, Geometry DEF Heaps
<1>10. [h.this EXCEPT ![p] = n, ![r] = m] \in [Addr -> 0 .. Quanta]
      /\ [b EXCEPT ![r] = n] \in [Addr -> 0 .. Quanta]
      /\ [h.tag EXCEPT ![r] = "FreeFirst"] \in [Addr -> Kinds]
  BY <1>1, <1>4, <1>9, Numbers DEF Heaps, Kinds
<1>11. g \in Heaps
  BY <1>4, <1>8, <1>10 DEF Heaps
<1>12. \A x \in Addr :
          /\ g.this[x] = IF x = p THEN n ELSE IF x = r THEN m ELSE h.this[x]
          /\ g.prev[x] = IF x = r THEN n ELSE IF r + m <= High(p) /\ x = r + m THEN m ELSE h.prev[x]
          /\ g.tag[x] = IF x = r THEN "FreeFirst" ELSE h.tag[x]
  BY <1>1, <1>4, <1>8, <1>9 DEF Heaps
<1>13. StartsOf(g) = StartsOf(h) \cup {r}
  <2>1. g.this[p] > 0 /\ h.this[p] > 0 /\ g.this[r] > 0 /\ p # r
    BY <1>1, <1>4, <1>12
  <2>2. \A x \in Addr : x # p /\ x # r => g.this[x] = h.this[x]
    BY <1>12
  <2> QED  BY <1>1, <1>4, <2>1, <2>2 DEF StartsOf
<1>14. /\ g.sects = h.sects /\ g.tree = h.tree /\ g.frontier = h.frontier
       /\ g.isFree = IF p \in h.isFree THEN h.isFree \cup {r} ELSE h.isFree
  BY <1>8 DEF Heaps
<1>15. r \notin StartsOf(h)
  BY <1>5 DEF StartsOf
<1>16. m = h.this[p] - n
  BY DEF m
<1>17. IsSplit(g, h, p, n, r)
  BY <1>1, <1>3, <1>4, <1>11, <1>12, <1>13, <1>14, <1>15, <1>16 DEF IsSplit
<1> QED  BY <1>17 DEF g, r

\* mxmemSplit keeps the pieces in a row.
LEMMA SplitTiled ==
    ASSUME NEW h \in Heaps, Tiled(h), NEW p \in StartsOf(h), NEW n \in Nat \ {0}, n < h.this[p]
    PROVE  Tiled(mxmemSplit(h, p, n))
<1> DEFINE m == h.this[p] - n
           e == p + h.this[p]
<1>1. PICK g, r : g = mxmemSplit(h, p, n) /\ r = p + n
  OBVIOUS
<1>2. /\ g \in Heaps
      /\ r \in Addr /\ p < r /\ r <= High(p) /\ h.this[r] = 0
      /\ g.sects = h.sects
      /\ \A x \in Addr :
            /\ g.this[x] = IF x = p THEN n ELSE IF x = r THEN m ELSE h.this[x]
            /\ g.prev[x] = IF x = r THEN n ELSE IF e <= High(p) /\ x = e THEN m ELSE h.prev[x]
            /\ g.tag[x] = IF x = r THEN "FreeFirst" ELSE h.tag[x]
      /\ StartsOf(g) = StartsOf(h) \cup {r}
  <2>1. IsSplit(g, h, p, n, r)
    BY <1>1, SplitIs
  <2>2. h.this[r] = 0
    BY <2>1 DEF IsSplit, StartsOf, Heaps
  <2> QED  BY <2>1, <2>2 DEF IsSplit
<1>3. /\ p \in Addr /\ p \in Nat /\ h.this[p] \in Nat \ {0} /\ m \in Nat \ {0} /\ e \in Nat
      /\ r \in Nat /\ r = p + n /\ e = r + m /\ e = p + h.this[p]
  BY <1>1, Numbers DEF StartsOf, Heaps
<1> HIDE DEF m, e
<1>4. /\ High(r) = High(p) /\ Low(r) = Low(p) /\ Low(p) <= p /\ SectionOf(r) = SectionOf(p)
      /\ High(p) \in Nat /\ Low(p) \in Nat
      /\ PieceFits(h, p)
  BY <1>2, <1>3, Geometry DEF Tiled
<1>5. \A x \in StartsOf(h) : /\ PieceFits(h, x) /\ x \in Addr /\ x \in Nat
                             /\ h.this[x] \in Nat \ {0}
                             /\ High(x) \in Nat /\ Low(x) \in Nat /\ x <= High(x) /\ Low(x) <= x
  BY Geometry DEF Tiled, StartsOf, Heaps
<1>6. \A x, y \in StartsOf(h) : x < y => x + h.this[x] <= y
  BY <1>5, Disjoint
<1>7. /\ SectionOf(p) \in h.sects /\ e - 1 <= High(p)
      /\ \A y \in Addr : p < y /\ y < e => h.this[y] = 0
      /\ e <= High(p) => e \in Addr /\ h.this[e] > 0
  <2>1. e <= High(p) => e \in Addr
    BY <1>3, <1>4, Geometry
  <2> QED  BY <2>1, <1>3, <1>4 DEF PieceFits
<1>8. PieceFits(g, p)
  <2>1. g.this[p] = n
    BY <1>2, <1>3
  <2>2. \A y \in Addr : p < y /\ y < p + n => g.this[y] = 0
    <3> TAKE y \in Addr
    <3> HAVE p < y /\ y < p + n
    <3>1. y \in Nat
      BY Numbers
    <3>2. p < y /\ y < e /\ y # p /\ y # r
      BY <3>1, <1>2, <1>3
    <3>3. h.this[y] = 0
      BY <3>2, <1>7
    <3> QED  BY <3>2, <3>3, <1>2
  <2>3. g.this[r] > 0 /\ g.prev[r] = n
    BY <1>2, <1>3
  <2>4. p # Low(p) => g.prev[p] > 0 /\ p - g.prev[p] >= Low(p) /\ g.this[p - g.prev[p]] = g.prev[p]
    <3> HAVE p # Low(p)
    <3>1. g.prev[p] = h.prev[p] /\ h.prev[p] \in Nat
      BY <1>2, <1>3 DEF Heaps
    <3>2. h.prev[p] > 0 /\ p - h.prev[p] >= Low(p) /\ h.this[p - h.prev[p]] = h.prev[p]
      BY <1>4 DEF PieceFits
    <3>3. p - h.prev[p] \in Addr /\ p - h.prev[p] < p
      BY <3>1, <3>2, <1>3, <1>4, Geometry
    <3> QED  BY <3>1, <3>2, <3>3, <1>2, <1>3
  <2>5. p + n - 1 <= High(p)
    BY <1>2, <1>3, <1>4
  <2> QED  BY <2>1, <2>2, <2>3, <2>4, <2>5, <1>2, <1>3, <1>7 DEF PieceFits
<1>9. PieceFits(g, r)
  <2>1. g.this[r] = m
    BY <1>2, <1>3
  <2>2. \A y \in Addr : r < y /\ y < r + m => g.this[y] = 0
    <3> TAKE y \in Addr
    <3> HAVE r < y /\ y < r + m
    <3>1. y \in Nat
      BY Numbers
    <3>2. p < y /\ y < e /\ y # p /\ y # r
      BY <3>1, <1>2, <1>3
    <3>3. h.this[y] = 0
      BY <3>2, <1>7
    <3> QED  BY <3>2, <3>3, <1>2
  <2>3. e <= High(p) => g.this[e] > 0 /\ g.prev[e] = m
    BY <1>2, <1>3, <1>7
  <2>4. g.prev[r] = n /\ r - n = p /\ g.this[p] = n
    BY <1>2, <1>3
  <2> QED  BY <2>1, <2>2, <2>3, <2>4, <1>2, <1>3, <1>4, <1>7 DEF PieceFits
<1>10. ASSUME NEW x \in StartsOf(h), x # p  PROVE PieceFits(g, x)
  <2>1. g.this[x] = h.this[x] /\ x \in Addr /\ x # r
    BY <1>2, <1>5, <1>10
  <2>2. \A y \in Addr : x < y /\ y < x + h.this[x] => g.this[y] = 0
    <3> TAKE y \in Addr
    <3> HAVE x < y /\ y < x + h.this[x]
    <3>1. h.this[y] = 0 /\ y # p
      BY <1>3, <1>5 DEF PieceFits
    <3>2. y # r
      BY <1>2, <1>3, <1>5, <1>6, <1>10
    <3> QED  BY <3>1, <3>2, <1>2
  <2>3. x + h.this[x] <= High(x) =>
           g.this[x + h.this[x]] > 0 /\ g.prev[x + h.this[x]] = h.this[x]
    <3> HAVE x + h.this[x] <= High(x)
    <3> DEFINE z == x + h.this[x]
    <3>1. z \in Addr /\ h.this[z] > 0 /\ h.prev[z] = h.this[x]
      BY <1>5, Geometry DEF PieceFits
    <3>2. z # e
      BY <1>3, <1>5, <1>6, <1>10
    <3> HIDE DEF z
    <3>3. g.this[z] > 0 /\ g.prev[z] = h.prev[z]
      BY <3>1, <3>2, <1>2
    <3> QED  BY <3>1, <3>3 DEF z
  <2>4. x # Low(x) => g.prev[x] > 0 /\ x - g.prev[x] >= Low(x) /\ g.this[x - g.prev[x]] = g.prev[x]
    <3> HAVE x # Low(x)
    <3>1. CASE e <= High(p) /\ x = e
      <4>1. Low(x) = Low(p)
        BY <3>1, <1>3, <1>4, Geometry
      <4>2. g.prev[x] = m /\ x - m = r
        BY <3>1, <2>1, <1>2, <1>3, <1>10
      <4>3. g.this[r] = m
        BY <1>2, <1>3
      <4> QED  BY <4>1, <4>2, <4>3, <1>2, <1>3, <1>4
    <3>2. CASE ~ (e <= High(p) /\ x = e)
      <4> DEFINE y == x - h.prev[x]
      <4>1. g.prev[x] = h.prev[x] /\ h.prev[x] \in Nat
        BY <3>2, <2>1, <1>2, <1>10 DEF Heaps
      <4>2. h.prev[x] > 0 /\ y >= Low(x) /\ h.this[y] = h.prev[x]
        BY <1>5 DEF PieceFits
      <4>3. y \in Addr /\ High(y) = High(x) /\ y < x /\ y + h.this[y] = x
        <5>1. x \in Addr /\ x \in Nat /\ Low(x) \in Nat /\ x <= High(x) /\ High(x) \in Nat
          BY <1>5, Geometry DEF StartsOf
        <5>2. y \in Int /\ y < x /\ y + h.this[y] = x /\ Low(x) <= y /\ y <= High(x)
          BY <5>1, <4>1, <4>2
        <5> HIDE DEF y
        <5> QED  BY <5>1, <5>2, Geometry
      <4> HIDE DEF y
      <4>4. y # p
        BY <4>3, <3>2, <1>3, <1>5
      <4>5. y # r
        BY <4>1, <4>2, <1>2
      <4>6. g.this[y] = h.this[y]
        BY <4>3, <4>4, <4>5, <1>2
      <4> QED  BY <4>1, <4>2, <4>6 DEF y
    <3> QED  BY <3>1, <3>2
  <2>5. SectionOf(x) \in g.sects /\ x + h.this[x] - 1 <= High(x)
    BY <1>2, <1>5 DEF PieceFits
  <2> QED  BY <2>1, <2>2, <2>3, <2>4, <2>5 DEF PieceFits
<1>11. ASSUME NEW x \in Addr  PROVE g.this[x] = 0 <=> g.tag[x] = "Follow"
  <2>1. h.this[x] = 0 <=> h.tag[x] = "Follow"
    BY DEF Tiled
  <2> QED  BY <2>1, <1>2, <1>3
<1>12. ASSUME NEW s \in g.sects  PROVE g.this[First(s)] > 0
  <2>1. PICK x \in Addr : x = First(s) /\ h.this[x] > 0
    BY <1>2, <1>12, Ends DEF Tiled, Heaps
  <2>2. g.this[x] \in {n, m, h.this[x]}
    BY <1>2
  <2> QED  BY <2>1, <2>2, <1>3
<1> QED  BY <1>1, <1>2, <1>8, <1>9, <1>10, <1>11, <1>12 DEF Tiled

\* Whether a piece fits depends on its section alone.
LEMMA FitsLocally ==
    ASSUME NEW h \in Heaps, NEW g \in Heaps, NEW x \in StartsOf(h), PieceFits(h, x),
           SectionOf(x) \in g.sects,
           \A y \in Addr : SectionOf(y) = SectionOf(x) =>
              g.this[y] = h.this[y] /\ g.prev[y] = h.prev[y]
    PROVE  PieceFits(g, x)
<1>1. x \in Addr /\ x \in Nat /\ h.this[x] \in Nat \ {0} /\ h.prev[x] \in Nat
  BY Numbers DEF StartsOf, Heaps
<1>2. High(x) \in Nat /\ Low(x) \in Nat /\ Low(x) <= x /\ x <= High(x)
      /\ \A y \in Int : Low(x) <= y /\ y <= High(x) => y \in Addr /\ SectionOf(y) = SectionOf(x)
  BY <1>1, Geometry
<1>3. g.this[x] = h.this[x] /\ g.prev[x] = h.prev[x]
  BY <1>1
<1>4. x + h.this[x] - 1 <= High(x)
  BY DEF PieceFits
<1>5. ASSUME NEW y \in Addr, x < y, y < x + h.this[x]  PROVE g.this[y] = 0
  <2>1. h.this[y] = 0
    BY <1>5 DEF PieceFits
  <2>2. y \in Nat /\ Low(x) <= y /\ y <= High(x)
    BY <1>1, <1>2, <1>4, <1>5, Numbers
  <2> QED  BY <2>1, <2>2, <1>2
<1>6. ASSUME x + h.this[x] <= High(x)
      PROVE  g.this[x + h.this[x]] > 0 /\ g.prev[x + h.this[x]] = h.this[x]
  <2>1. h.this[x + h.this[x]] > 0 /\ h.prev[x + h.this[x]] = h.this[x]
    BY <1>6 DEF PieceFits
  <2>2. x + h.this[x] \in Addr /\ SectionOf(x + h.this[x]) = SectionOf(x)
    BY <1>1, <1>2, <1>6
  <2> QED  BY <2>1, <2>2
<1>7. ASSUME x # Low(x)
      PROVE  h.prev[x] > 0 /\ x - h.prev[x] >= Low(x) /\ g.this[x - h.prev[x]] = h.prev[x]
  <2>1. h.prev[x] > 0 /\ x - h.prev[x] >= Low(x) /\ h.this[x - h.prev[x]] = h.prev[x]
    BY <1>7 DEF PieceFits
  <2>2. x - h.prev[x] \in Addr /\ SectionOf(x - h.prev[x]) = SectionOf(x)
    BY <1>1, <1>2, <2>1
  <2> QED  BY <2>1, <2>2
<1> QED  BY <1>3, <1>4, <1>5, <1>6, <1>7 DEF PieceFits

\* A heap with other tags.
LEMMA SameTiles ==
    ASSUME NEW h \in Heaps, Tiled(h), NEW g \in Heaps,
           g.sects = h.sects, g.this = h.this, g.prev = h.prev,
           \A x \in Addr : g.tag[x] = "Follow" <=> h.tag[x] = "Follow"
    PROVE  Tiled(g) /\ StartsOf(g) = StartsOf(h)
<1>1. StartsOf(g) = StartsOf(h)
  BY DEF StartsOf
<1>2. \A x \in StartsOf(g) : PieceFits(g, x)
  BY <1>1 DEF Tiled, PieceFits
<1> QED  BY <1>1, <1>2 DEF Tiled

\* g is h with the section s as one piece.
IsWithSection(g, h, s) ==
    /\ g \in Heaps
    /\ g.sects = h.sects \cup {s} /\ g.tree = h.tree /\ g.frontier = h.frontier
    /\ g.isFree = {q \in h.isFree : SectionOf(q) # s}
    /\ \A x \in Addr : SectionOf(x) # s =>
          g.this[x] = h.this[x] /\ g.prev[x] = h.prev[x] /\ g.tag[x] = h.tag[x]
    /\ \A x \in Addr : SectionOf(x) = s /\ x # First(s) => g.this[x] = 0 /\ g.tag[x] = "Follow"
    /\ g.this[First(s)] = Quanta /\ g.tag[First(s)] = "FreeFirst"

\* What a new section changes.
LEMMA WithSectionIs ==
    ASSUME NEW h \in Heaps, NEW s \in Section
    PROVE  IsWithSection(WithSection(h, s), h, s)
<1> DEFINE g == WithSection(h, s)
           this == [q \in Addr |-> IF SectionOf(q) # s THEN h.this[q]
                                   ELSE IF q = First(s) THEN Quanta ELSE 0]
           prev == [h.prev EXCEPT ![First(s)] = 0]
           tag == [q \in Addr |-> IF SectionOf(q) # s THEN h.tag[q]
                                  ELSE IF q = First(s) THEN "FreeFirst" ELSE "Follow"]
           free == {q \in h.isFree : SectionOf(q) # s}
<1>1. First(s) \in Addr /\ SectionOf(First(s)) = s
  BY Ends
<1>2. this \in [Addr -> 0 .. Quanta] /\ prev \in [Addr -> 0 .. Quanta] /\ tag \in [Addr -> Kinds]
  BY <1>1, Numbers DEF Heaps, Kinds
<1>3. g = [h EXCEPT !.sects = h.sects \cup {s}, !.this = this, !.prev = prev,
                    !.isFree = free, !.tag = tag]
  BY DEF WithSection, Heaps
<1>4. free \subseteq Addr /\ h.sects \cup {s} \subseteq Section
  BY DEF Heaps
<1>5. \A x \in Addr :
         /\ this[x] = IF SectionOf(x) # s THEN h.this[x] ELSE IF x = First(s) THEN Quanta ELSE 0
         /\ prev[x] = IF x = First(s) THEN 0 ELSE h.prev[x]
         /\ tag[x] = IF SectionOf(x) # s THEN h.tag[x]
                     ELSE IF x = First(s) THEN "FreeFirst" ELSE "Follow"
  BY DEF Heaps
<1> HIDE DEF this, prev, tag, free, g
<1>6. /\ g \in Heaps
      /\ g.sects = h.sects \cup {s} /\ g.tree = h.tree /\ g.frontier = h.frontier
      /\ g.isFree = free /\ g.this = this /\ g.prev = prev /\ g.tag = tag
  BY <1>2, <1>3, <1>4 DEF Heaps
<1>7. \A x \in Addr : SectionOf(x) # s =>
         g.this[x] = h.this[x] /\ g.prev[x] = h.prev[x] /\ g.tag[x] = h.tag[x]
  BY <1>1, <1>5, <1>6
<1>8. \A x \in Addr : SectionOf(x) = s /\ x # First(s) => g.this[x] = 0 /\ g.tag[x] = "Follow"
  BY <1>5, <1>6
<1>9. g.this[First(s)] = Quanta /\ g.tag[First(s)] = "FreeFirst"
  BY <1>1, <1>5, <1>6
<1> QED  BY <1>6, <1>7, <1>8, <1>9 DEF IsWithSection, g, free

\* A new section is one more row, of one piece.
LEMMA WithSectionTiled ==
    ASSUME NEW h \in Heaps, Tiled(h), NEW s \in Section, s \notin h.sects
    PROVE  /\ Tiled(WithSection(h, s))
           /\ StartsOf(WithSection(h, s)) = StartsOf(h) \cup {First(s)}
           /\ First(s) \notin StartsOf(h)
           /\ \A x \in StartsOf(h) : SectionOf(x) # s
<1>1. PICK g : g = WithSection(h, s)
  OBVIOUS
<1>2. IsWithSection(g, h, s)
  BY <1>1, WithSectionIs
<1>3. /\ First(s) \in Addr /\ SectionOf(First(s)) = s /\ High(First(s)) = First(s) + Quanta - 1
      /\ Low(First(s)) = First(s) /\ First(s) \in Nat
  BY Ends, Numbers DEF High, Low
<1>4. \A x \in StartsOf(h) : SectionOf(x) # s /\ x \in Addr /\ SectionOf(x) \in h.sects
  BY DEF Tiled, PieceFits, StartsOf
<1>5. StartsOf(g) = StartsOf(h) \cup {First(s)}
  <2>1. g.this[First(s)] > 0
    BY <1>2, Numbers DEF IsWithSection
  <2>2. \A x \in Addr : SectionOf(x) # s => g.this[x] = h.this[x]
    BY <1>2 DEF IsWithSection
  <2>3. \A x \in Addr : SectionOf(x) = s /\ x # First(s) => g.this[x] = 0
    BY <1>2 DEF IsWithSection
  <2>4. \A x \in Addr : x \in StartsOf(g) <=> x \in StartsOf(h) \/ x = First(s)
    BY <2>1, <2>2, <2>3, <1>3, <1>4 DEF StartsOf
  <2> QED  BY <2>4, <1>3 DEF StartsOf
<1>6. ASSUME NEW x \in StartsOf(h)  PROVE PieceFits(g, x)
  BY <1>2, <1>4, FitsLocally DEF IsWithSection, Tiled
<1>7. PieceFits(g, First(s))
  <2>1. \A y \in Addr : First(s) < y /\ y < First(s) + Quanta => g.this[y] = 0
    <3> TAKE y \in Addr
    <3> HAVE First(s) < y /\ y < First(s) + Quanta
    <3>1. y \in Nat /\ SectionOf(y) = s
      BY <1>3, Geometry, Numbers
    <3> QED  BY <3>1, <1>2, <1>3 DEF IsWithSection
  <2> QED  BY <2>1, <1>2, <1>3, Numbers DEF IsWithSection, PieceFits
<1>8. ASSUME NEW t \in g.sects  PROVE g.this[First(t)] > 0
  <2>1. CASE t = s
    BY <2>1, <1>2, Numbers DEF IsWithSection
  <2>2. CASE t # s
    <3>1. t \in h.sects /\ t \in Section /\ First(t) \in Addr /\ SectionOf(First(t)) = t
      BY <2>2, <1>2, <1>8, Ends DEF IsWithSection, Heaps
    <3> QED  BY <3>1, <2>2, <1>2 DEF IsWithSection, Tiled
  <2> QED  BY <2>1, <2>2
<1>9. ASSUME NEW x \in Addr  PROVE g.this[x] = 0 <=> g.tag[x] = "Follow"
  BY <1>2, Numbers DEF IsWithSection, Tiled
<1>10. Tiled(g)
  BY <1>5, <1>6, <1>7, <1>8, <1>9 DEF Tiled
<1>11. First(s) \notin StartsOf(h)
  BY <1>3, <1>4
<1> QED  BY <1>1, <1>4, <1>5, <1>10, <1>11

\* g is h without the section s.
IsWithoutSection(g, h, s) ==
    /\ g.sects = h.sects \ {s} /\ g.frontier = h.frontier
    /\ g.tree = mxmemUnlinkFromBTree(h.tree, First(s))
    /\ g.isFree = {q \in h.isFree : SectionOf(q) # s}
    /\ \A x \in Addr : SectionOf(x) # s =>
          g.this[x] = h.this[x] /\ g.prev[x] = h.prev[x] /\ g.tag[x] = h.tag[x]
    /\ \A x \in Addr : SectionOf(x) = s => g.this[x] = 0 /\ g.tag[x] = "Follow"

\* What the return of a section changes.
LEMMA WithoutSectionIs ==
    ASSUME NEW h \in Heaps, NEW s \in Section,
           mxmemUnlinkFromBTree(h.tree, First(s)) \in FreeTrees
    PROVE  WithoutSection(h, s) \in Heaps /\ IsWithoutSection(WithoutSection(h, s), h, s)
<1> DEFINE g == WithoutSection(h, s)
           this == [q \in Addr |-> IF SectionOf(q) = s THEN 0 ELSE h.this[q]]
           prev == [q \in Addr |-> IF SectionOf(q) = s THEN 0 ELSE h.prev[q]]
           tag == [q \in Addr |-> IF SectionOf(q) = s THEN "Follow" ELSE h.tag[q]]
           free == {q \in h.isFree : SectionOf(q) # s}
           tree == mxmemUnlinkFromBTree(h.tree, First(s))
<1>1. this \in [Addr -> 0 .. Quanta] /\ prev \in [Addr -> 0 .. Quanta] /\ tag \in [Addr -> Kinds]
  BY Numbers DEF Heaps, Kinds
<1>2. g = [h EXCEPT !.sects = h.sects \ {s}, !.this = this, !.prev = prev, !.tag = tag,
                    !.isFree = free, !.tree = tree]
  BY DEF WithoutSection, Heaps
<1>3. free \subseteq Addr /\ h.sects \ {s} \subseteq Section /\ tree \in FreeTrees
  BY DEF Heaps
<1>4. \A x \in Addr :
         /\ this[x] = IF SectionOf(x) = s THEN 0 ELSE h.this[x]
         /\ prev[x] = IF SectionOf(x) = s THEN 0 ELSE h.prev[x]
         /\ tag[x] = IF SectionOf(x) = s THEN "Follow" ELSE h.tag[x]
  OBVIOUS
<1> HIDE DEF this, prev, tag, free, g, tree
<1>5. /\ g \in Heaps
      /\ g.sects = h.sects \ {s} /\ g.tree = tree /\ g.frontier = h.frontier
      /\ g.isFree = free /\ g.this = this /\ g.prev = prev /\ g.tag = tag
  BY <1>1, <1>2, <1>3 DEF Heaps
<1>6. \A x \in Addr : SectionOf(x) # s =>
         g.this[x] = h.this[x] /\ g.prev[x] = h.prev[x] /\ g.tag[x] = h.tag[x]
  BY <1>4, <1>5
<1>7. \A x \in Addr : SectionOf(x) = s => g.this[x] = 0 /\ g.tag[x] = "Follow"
  BY <1>4, <1>5
<1> QED  BY <1>5, <1>6, <1>7 DEF IsWithoutSection, g, free, tree

\* The return of a section leaves the rows of the others.
LEMMA WithoutSectionTiled ==
    ASSUME NEW h \in Heaps, Tiled(h), NEW s \in Section, NEW g \in Heaps, IsWithoutSection(g, h, s)
    PROVE  Tiled(g) /\ StartsOf(g) = {x \in StartsOf(h) : SectionOf(x) # s}
<1>1. StartsOf(g) = {x \in StartsOf(h) : SectionOf(x) # s}
  BY DEF StartsOf, IsWithoutSection
<1>2. ASSUME NEW x \in StartsOf(g)  PROVE PieceFits(g, x)
  <2>1. x \in StartsOf(h) /\ SectionOf(x) # s /\ SectionOf(x) \in h.sects /\ PieceFits(h, x)
    BY <1>1, <1>2 DEF Tiled, PieceFits
  <2> QED  BY <2>1, FitsLocally DEF IsWithoutSection
<1>3. ASSUME NEW t \in g.sects  PROVE g.this[First(t)] > 0
  <2>1. t \in h.sects /\ t # s /\ First(t) \in Addr /\ SectionOf(First(t)) = t
    BY <1>3, Ends DEF IsWithoutSection, Heaps
  <2> QED  BY <2>1 DEF IsWithoutSection, Tiled
<1>4. ASSUME NEW x \in Addr  PROVE g.this[x] = 0 <=> g.tag[x] = "Follow"
  BY DEF IsWithoutSection, Tiled
<1> QED  BY <1>1, <1>2, <1>3, <1>4 DEF Tiled

-----------------------------------------------------------------------------
(* The free tree.                                                          *)

\* RemoveAt and InsertAt on a list of pieces without repetition.
LEMMA RemoveAtIs ==
    ASSUME NEW list \in Seq(Addr), IsInjective(list), NEW i \in DOMAIN list
    PROVE  /\ RemoveAt(list, i) \in Seq(Addr)
           /\ IsInjective(RemoveAt(list, i))
           /\ ToSet(RemoveAt(list, i)) = ToSet(list) \ {list[i]}
           /\ RemoveAt(list, i) = <<>> <=> list = <<list[i]>>
<1> DEFINE r == RemoveAt(list, i)
           a == SubSeq(list, 1, i - 1)
           b == SubSeq(list, i + 1, Len(list))
<1>1. /\ Len(list) \in Nat /\ DOMAIN list = 1 .. Len(list) /\ i \in 1 .. Len(list)
      /\ \A j \in 1 .. Len(list) : list[j] \in Addr
  BY LenProperties
<1>2. /\ a \in Seq(Addr) /\ Len(a) = i - 1
      /\ \A j \in 1 .. i - 1 : a[j] = list[j]
  <2>1. \A j \in 1 .. i - 1 : list[j] \in Addr
    BY <1>1
  <2>2. /\ a \in Seq(Addr) /\ Len(a) = IF 1 <= i - 1 THEN i - 1 - 1 + 1 ELSE 0
        /\ \A j \in 1 .. i - 1 - 1 + 1 : a[j] = list[1 + j - 1]
    BY <1>1, <2>1, SubSeqProperties
  <2> QED  BY <2>2, <1>1
<1>3. /\ b \in Seq(Addr) /\ Len(b) = Len(list) - i
      /\ \A j \in 1 .. Len(list) - i : b[j] = list[i + j]
  <2>1. \A j \in i + 1 .. Len(list) : list[j] \in Addr
    BY <1>1
  <2>2. /\ b \in Seq(Addr)
        /\ Len(b) = IF i + 1 <= Len(list) THEN Len(list) - (i + 1) + 1 ELSE 0
        /\ \A j \in 1 .. Len(list) - (i + 1) + 1 : b[j] = list[(i + 1) + j - 1]
    BY <1>1, <2>1, SubSeqProperties
  <2> QED  BY <2>2, <1>1
<1>4. r = a \o b
  BY DEF RemoveAt
<1> HIDE DEF a, b, r
<1>5. /\ r \in Seq(Addr) /\ Len(r) = Len(list) - 1
      /\ \A j \in 1 .. Len(list) - 1 : r[j] = IF j <= i - 1 THEN a[j] ELSE b[j - (i - 1)]
  <2>1. /\ r \in Seq(Addr) /\ Len(r) = (i - 1) + (Len(list) - i)
        /\ \A j \in 1 .. (i - 1) + (Len(list) - i) :
              r[j] = IF j <= i - 1 THEN a[j] ELSE b[j - (i - 1)]
    BY <1>2, <1>3, <1>4, ConcatProperties
  <2>2. (i - 1) + (Len(list) - i) = Len(list) - 1
    BY <1>1
  <2> QED  BY <2>1, <2>2
<1>6. \A j \in 1 .. Len(list) - 1 : r[j] = IF j < i THEN list[j] ELSE list[j + 1]
  <2> TAKE j \in 1 .. Len(list) - 1
  <2>1. CASE j < i
    BY <2>1, <1>1, <1>2, <1>5
  <2>2. CASE j >= i
    <3>1. j - (i - 1) \in 1 .. Len(list) - i /\ i + (j - (i - 1)) = j + 1 /\ ~ (j <= i - 1)
      BY <2>2, <1>1
    <3>2. b[j - (i - 1)] = list[j + 1]
      BY <3>1, <1>3
    <3> QED  BY <2>2, <3>1, <3>2, <1>1, <1>5
  <2> QED  BY <2>1, <2>2, <1>1
<1>7. DOMAIN r = 1 .. Len(list) - 1
  BY <1>5, LenProperties
<1>8. IsInjective(r)
  <2> SUFFICES ASSUME NEW j \in 1 .. Len(list) - 1, NEW k \in 1 .. Len(list) - 1, r[j] = r[k]
               PROVE  j = k
    BY <1>7 DEF IsInjective
  <2> DEFINE at(x) == IF x < i THEN x ELSE x + 1
  <2>1. /\ at(j) \in 1 .. Len(list) /\ at(k) \in 1 .. Len(list)
        /\ r[j] = list[at(j)] /\ r[k] = list[at(k)]
    BY <1>1, <1>6
  <2>2. at(j) = at(k)
    BY <2>1, <1>1 DEF IsInjective
  <2> QED  BY <2>2, <1>1
<1>9. ToSet(r) = ToSet(list) \ {list[i]}
  <2>1. ASSUME NEW j \in 1 .. Len(list) - 1
        PROVE  r[j] \in ToSet(list) /\ r[j] # list[i]
    <3> DEFINE k == IF j < i THEN j ELSE j + 1
    <3>1. k \in 1 .. Len(list) /\ k # i /\ r[j] = list[k]
      BY <1>1, <1>6
    <3> QED  BY <3>1, <1>1 DEF IsInjective, ToSet
  <2>2. ASSUME NEW k \in 1 .. Len(list), k # i
        PROVE  list[k] \in ToSet(r)
    <3> DEFINE j == IF k < i THEN k ELSE k - 1
    <3>1. j \in 1 .. Len(list) - 1 /\ r[j] = list[k]
      BY <2>2, <1>1, <1>6
    <3> QED  BY <3>1, <1>7 DEF ToSet
  <2> QED  BY <2>1, <2>2, <1>1, <1>7 DEF ToSet
<1>10. r = <<>> <=> Len(list) = 1
  BY <1>1, <1>5, EmptySeq
<1>11. list = <<list[i]>> <=> Len(list) = 1
  <2>1. ASSUME Len(list) = 1  PROVE list = <<list[i]>>
    BY <2>1, <1>1
  <2> QED  BY <2>1
<1> QED  BY <1>5, <1>8, <1>9, <1>10, <1>11 DEF r

\* Inserting into a list adds the piece, and nothing else.
LEMMA InsertAtIs ==
    ASSUME NEW list \in Seq(Addr), IsInjective(list), NEW i \in 1 .. Len(list) + 1,
           NEW p \in Addr, p \notin ToSet(list)
    PROVE  /\ InsertAt(list, i, p) \in Seq(Addr)
           /\ IsInjective(InsertAt(list, i, p))
           /\ ToSet(InsertAt(list, i, p)) = ToSet(list) \cup {p}
           /\ InsertAt(list, i, p) # <<>>
<1> DEFINE r == InsertAt(list, i, p)
           a == SubSeq(list, 1, i - 1)
           b == SubSeq(list, i, Len(list))
<1>1. /\ Len(list) \in Nat /\ DOMAIN list = 1 .. Len(list) /\ i \in Nat /\ i >= 1
      /\ i <= Len(list) + 1
      /\ \A j \in 1 .. Len(list) : list[j] \in Addr
  BY LenProperties
<1>2. /\ a \in Seq(Addr) /\ Len(a) = i - 1
      /\ \A j \in 1 .. i - 1 : a[j] = list[j]
  <2>1. \A j \in 1 .. i - 1 : list[j] \in Addr
    BY <1>1
  <2>2. /\ a \in Seq(Addr) /\ Len(a) = IF 1 <= i - 1 THEN i - 1 - 1 + 1 ELSE 0
        /\ \A j \in 1 .. i - 1 - 1 + 1 : a[j] = list[1 + j - 1]
    BY <1>1, <2>1, SubSeqProperties
  <2> QED  BY <2>2, <1>1
<1>3. /\ b \in Seq(Addr) /\ Len(b) = Len(list) - i + 1
      /\ \A j \in 1 .. Len(list) - i + 1 : b[j] = list[i + j - 1]
  <2>1. \A j \in i .. Len(list) : list[j] \in Addr
    BY <1>1
  <2>2. /\ b \in Seq(Addr) /\ Len(b) = IF i <= Len(list) THEN Len(list) - i + 1 ELSE 0
        /\ \A j \in 1 .. Len(list) - i + 1 : b[j] = list[i + j - 1]
    BY <1>1, <2>1, SubSeqProperties
  <2> QED  BY <2>2, <1>1
<1>4. r = (a \o <<p>>) \o b
  BY DEF InsertAt
<1>5. <<p>> \in Seq(Addr) /\ Len(<<p>>) = 1 /\ <<p>>[1] = p
  OBVIOUS
<1> HIDE DEF a, b, r
<1> DEFINE c == a \o <<p>>
<1>6. /\ c \in Seq(Addr) /\ Len(c) = i
      /\ \A j \in 1 .. i : c[j] = IF j = i THEN p ELSE list[j]
  <2>1. /\ c \in Seq(Addr) /\ Len(c) = (i - 1) + 1
        /\ \A j \in 1 .. (i - 1) + 1 : c[j] = IF j <= i - 1 THEN a[j] ELSE <<p>>[j - (i - 1)]
    BY <1>2, <1>5, ConcatProperties
  <2>2. \A j \in 1 .. i : c[j] = IF j = i THEN p ELSE list[j]
    <3> TAKE j \in 1 .. i
    <3>1. CASE j = i
      BY <3>1, <2>1, <1>1, <1>5
    <3>2. CASE j # i
      BY <3>2, <2>1, <1>1, <1>2
    <3> QED  BY <3>1, <3>2
  <2> QED  BY <2>1, <2>2, <1>1
<1> HIDE DEF c
<1>7. /\ r \in Seq(Addr) /\ Len(r) = Len(list) + 1
      /\ \A j \in 1 .. Len(list) + 1 : r[j] = IF j <= i THEN c[j] ELSE b[j - i]
  <2>1. r = c \o b
    BY <1>4 DEF c
  <2>2. /\ r \in Seq(Addr) /\ Len(r) = i + (Len(list) - i + 1)
        /\ \A j \in 1 .. i + (Len(list) - i + 1) : r[j] = IF j <= i THEN c[j] ELSE b[j - i]
    BY <2>1, <1>3, <1>6, ConcatProperties
  <2> QED  BY <2>2, <1>1
<1>8. \A j \in 1 .. Len(list) + 1 :
         r[j] = IF j = i THEN p ELSE IF j < i THEN list[j] ELSE list[j - 1]
  <2> TAKE j \in 1 .. Len(list) + 1
  <2>1. CASE j <= i
    BY <2>1, <1>1, <1>6, <1>7
  <2>2. CASE j > i
    <3>1. j - i \in 1 .. Len(list) - i + 1 /\ i + (j - i) - 1 = j - 1
      BY <2>2, <1>1
    <3>2. b[j - i] = list[j - 1]
      BY <3>1, <1>3
    <3> QED  BY <2>2, <3>2, <1>1, <1>7
  <2> QED  BY <2>1, <2>2, <1>1
<1>9. DOMAIN r = 1 .. Len(list) + 1
  BY <1>7, LenProperties
<1>10. \A j \in 1 .. Len(list) : list[j] # p
  BY <1>1 DEF ToSet
<1>11. IsInjective(r)
  <2> SUFFICES ASSUME NEW j \in 1 .. Len(list) + 1, NEW k \in 1 .. Len(list) + 1, r[j] = r[k]
               PROVE  j = k
    BY <1>9 DEF IsInjective
  <2> DEFINE at(x) == IF x < i THEN x ELSE x - 1
  <2>1. j # i => at(j) \in 1 .. Len(list) /\ r[j] = list[at(j)]
    BY <1>1, <1>8
  <2>2. k # i => at(k) \in 1 .. Len(list) /\ r[k] = list[at(k)]
    BY <1>1, <1>8
  <2>3. r[i] = p
    BY <1>1, <1>8
  <2>4. CASE j = i \/ k = i
    <3>1. j = i /\ k = i
      BY <2>1, <2>2, <2>3, <2>4, <1>10
    <3> QED  BY <3>1
  <2>5. CASE j # i /\ k # i
    <3>1. at(j) = at(k)
      BY <2>1, <2>2, <2>5, <1>1 DEF IsInjective
    <3> QED  BY <3>1, <2>5, <1>1
  <2> QED  BY <2>4, <2>5
<1>12. ToSet(r) = ToSet(list) \cup {p}
  <2>1. ASSUME NEW j \in 1 .. Len(list) + 1
        PROVE  r[j] \in ToSet(list) \cup {p}
    <3> DEFINE k == IF j < i THEN j ELSE j - 1
    <3>1. j # i => k \in 1 .. Len(list) /\ r[j] = list[k]
      BY <1>1, <1>8
    <3> QED  BY <3>1, <1>1, <1>8 DEF ToSet
  <2>2. ASSUME NEW k \in 1 .. Len(list)
        PROVE  list[k] \in ToSet(r)
    <3> DEFINE j == IF k < i THEN k ELSE k + 1
    <3>1. j \in 1 .. Len(list) + 1 /\ r[j] = list[k]
      BY <1>1, <1>8
    <3> QED  BY <3>1, <1>9 DEF ToSet
  <2>3. p \in ToSet(r)
    BY <1>1, <1>8, <1>9 DEF ToSet
  <2> QED  BY <2>1, <2>2, <2>3, <1>1, <1>9 DEF ToSet
<1>13. r # <<>>
  BY <1>1, <1>7, EmptySeq
<1> QED  BY <1>7, <1>11, <1>12, <1>13 DEF r

\* The tree has exactly the pieces S, each once, in the list of its size.
TreeFor(tree, this, S) ==
    /\ tree \in FreeTrees
    /\ \A n \in DOMAIN tree :
          /\ tree[n] # <<>> /\ IsInjective(tree[n])
          /\ \A p \in ToSet(tree[n]) : p \in S /\ this[p] = n
    /\ \A p \in S : this[p] \in DOMAIN tree /\ p \in ToSet(tree[this[p]])

\* The types of a tree and of its lists.
LEMMA TreeTyped ==
    \A tree : tree \in FreeTrees <=>
        /\ tree = [n \in DOMAIN tree |-> tree[n]]
        /\ DOMAIN tree \subseteq 1 .. Quanta
        /\ \A n \in DOMAIN tree : tree[n] \in Seq(Addr)
<1> TAKE tree
<1>1. ASSUME tree \in FreeTrees
      PROVE  /\ tree = [n \in DOMAIN tree |-> tree[n]]
             /\ DOMAIN tree \subseteq 1 .. Quanta
             /\ \A n \in DOMAIN tree : tree[n] \in Seq(Addr)
  <2>1. PICK D \in SUBSET (1 .. Quanta) : tree \in [D -> Seq(Addr)]
    BY <1>1 DEF FreeTrees
  <2> QED  BY <2>1
<1>2. ASSUME tree = [n \in DOMAIN tree |-> tree[n]], DOMAIN tree \subseteq 1 .. Quanta,
             \A n \in DOMAIN tree : tree[n] \in Seq(Addr)
      PROVE  tree \in FreeTrees
  <2>1. tree \in [DOMAIN tree -> Seq(Addr)]
    BY <1>2
  <2> QED  BY <2>1, <1>2 DEF FreeTrees
<1> QED  BY <1>1, <1>2

\* The entry and the place where mxmemUnlink finds a piece.
LEMMA EntryIs ==
    ASSUME NEW tree, NEW this, NEW S, TreeFor(tree, this, S), NEW p \in S
    PROVE  /\ EntryOf(tree, p) = this[p] /\ this[p] \in DOMAIN tree
           /\ PlaceOf(tree[this[p]], p) \in DOMAIN tree[this[p]]
           /\ tree[this[p]][PlaceOf(tree[this[p]], p)] = p
<1>1. this[p] \in DOMAIN tree /\ p \in ToSet(tree[this[p]])
  BY DEF TreeFor
<1>2. EntryOf(tree, p) \in DOMAIN tree /\ p \in ToSet(tree[EntryOf(tree, p)])
  BY <1>1 DEF EntryOf
<1>3. EntryOf(tree, p) = this[p]
  BY <1>2 DEF TreeFor
<1>4. \E i \in DOMAIN tree[this[p]] : tree[this[p]][i] = p
  BY <1>1 DEF ToSet
<1> QED  BY <1>1, <1>3, <1>4 DEF PlaceOf

\* InTree of a piece.
LEMMA InTreeIs ==
    ASSUME NEW h, NEW S, TreeFor(h.tree, h.this, S), NEW p
    PROVE  InTree(h, p) <=> p \in S
  BY DEF InTree, Sizes, TreeFor

\* p is the last piece of its list, if its list is empty without it.
Empties(tree, p, n) == mxmemUnlink(tree, p)[n] = <<>> <=> tree[n] = <<p>>

\* A piece is taken from its list: the list is empty, or the tree is right.
LEMMA UnlinkIs ==
    ASSUME NEW tree, NEW this, NEW S, TreeFor(tree, this, S), NEW p \in S
    PROVE  /\ mxmemUnlink(tree, p) =
                SetList(tree, this[p], RemoveAt(tree[this[p]], PlaceOf(tree[this[p]], p)))
           /\ Empties(tree, p, this[p])
           /\ tree[this[p]] # <<p>> => TreeFor(mxmemUnlink(tree, p), this, S \ {p})
<1> DEFINE n == this[p]
           rest == RemoveAt(tree[n], PlaceOf(tree[n], p))
           t == SetList(tree, n, rest)
<1>1. /\ EntryOf(tree, p) = n /\ n \in DOMAIN tree
      /\ PlaceOf(tree[n], p) \in DOMAIN tree[n] /\ tree[n][PlaceOf(tree[n], p)] = p
  BY EntryIs
<1>2. mxmemUnlink(tree, p) = t
  BY <1>1 DEF mxmemUnlink
<1>3. tree[n] \in Seq(Addr) /\ IsInjective(tree[n]) /\ n \in 1 .. Quanta
  BY <1>1, TreeTyped DEF TreeFor
<1>4. /\ rest \in Seq(Addr) /\ IsInjective(rest) /\ ToSet(rest) = ToSet(tree[n]) \ {p}
      /\ rest = <<>> <=> tree[n] = <<p>>
  <2>1. PICK l, i : l = tree[n] /\ i = PlaceOf(tree[n], p)
    OBVIOUS
  <2>2. l \in Seq(Addr) /\ IsInjective(l) /\ i \in DOMAIN l /\ l[i] = p
    BY <2>1, <1>1, <1>3
  <2>3. /\ RemoveAt(l, i) \in Seq(Addr) /\ IsInjective(RemoveAt(l, i))
        /\ ToSet(RemoveAt(l, i)) = ToSet(l) \ {l[i]}
        /\ RemoveAt(l, i) = <<>> <=> l = <<l[i]>>
    BY <2>2, RemoveAtIs
  <2> QED  BY <2>1, <2>2, <2>3
<1> HIDE DEF rest
<1>5. /\ DOMAIN t = DOMAIN tree
      /\ \A k \in DOMAIN tree : t[k] = IF k = n THEN rest ELSE tree[k]
      /\ t = [k \in DOMAIN t |-> t[k]]
  BY <1>1 DEF SetList
<1> HIDE DEF t, n
<1>6. t \in FreeTrees
  <2>1. \A k \in DOMAIN t : t[k] \in Seq(Addr)
    BY <1>4, <1>5, TreeTyped DEF TreeFor
  <2>2. DOMAIN t \subseteq 1 .. Quanta
    BY <1>5, TreeTyped DEF TreeFor
  <2> QED  BY <2>1, <2>2, <1>5, TreeTyped
<1>7. ASSUME tree[n] # <<p>>  PROVE TreeFor(t, this, S \ {p})
  <2>1. ASSUME NEW k \in DOMAIN t
        PROVE  /\ t[k] # <<>> /\ IsInjective(t[k])
               /\ \A q \in ToSet(t[k]) : q \in S \ {p} /\ this[q] = k
    <3>1. CASE k = n
      BY <3>1, <1>1, <1>4, <1>5, <1>7 DEF TreeFor
    <3>2. CASE k # n
      <4>1. t[k] = tree[k] /\ k \in DOMAIN tree
        BY <3>2, <1>5
      <4>2. p \notin ToSet(tree[k])
        BY <3>2, <4>1 DEF TreeFor, n
      <4> QED  BY <4>1, <4>2 DEF TreeFor
    <3> QED  BY <3>1, <3>2
  <2>2. ASSUME NEW q \in S \ {p}
        PROVE  this[q] \in DOMAIN t /\ q \in ToSet(t[this[q]])
    BY <1>4, <1>5 DEF TreeFor
  <2> QED  BY <1>6, <2>1, <2>2 DEF TreeFor
<1>8. t[n] = rest
  BY <1>1, <1>5
<1>9. Empties(tree, p, n)
  BY <1>2, <1>4, <1>8 DEF Empties
<1> QED  BY <1>2, <1>7, <1>9 DEF t, n, rest

\* The entry of a size that has one piece is deleted.
LEMMA DeleteIs ==
    ASSUME NEW tree, NEW this, NEW S, TreeFor(tree, this, S), NEW p \in S, tree[this[p]] = <<p>>
    PROVE  TreeFor(DeleteSize(tree, this[p]), this, S \ {p})
<1> DEFINE n == this[p]
           t == DeleteSize(tree, n)
<1>1. /\ DOMAIN t = DOMAIN tree \ {n}
      /\ \A k \in DOMAIN t : t[k] = tree[k]
      /\ t = [k \in DOMAIN t |-> t[k]]
  BY DEF DeleteSize
<1>2. ToSet(tree[n]) = {p}
  BY DEF ToSet
<1> HIDE DEF t
<1>3. t \in FreeTrees
  <2>1. \A k \in DOMAIN t : t[k] \in Seq(Addr)
    BY <1>1, TreeTyped DEF TreeFor
  <2>2. DOMAIN t \subseteq 1 .. Quanta
    BY <1>1, TreeTyped DEF TreeFor
  <2> QED  BY <2>1, <2>2, <1>1, TreeTyped
<1>4. ASSUME NEW k \in DOMAIN t
      PROVE  /\ t[k] # <<>> /\ IsInjective(t[k])
             /\ \A q \in ToSet(t[k]) : q \in S \ {p} /\ this[q] = k
  BY <1>1 DEF TreeFor
<1>5. ASSUME NEW q \in S \ {p}
      PROVE  this[q] \in DOMAIN t /\ q \in ToSet(t[this[q]])
  BY <1>1, <1>2 DEF TreeFor
<1>6. TreeFor(t, this, S \ {p})
  BY <1>3, <1>4, <1>5 DEF TreeFor
<1> QED  BY <1>6 DEF t

\* mxmemUnlinkFromBTree takes out the piece, and nothing else.
LEMMA UnlinkFromBTreeIs ==
    ASSUME NEW tree, NEW this, NEW S, TreeFor(tree, this, S), NEW p \in S
    PROVE  TreeFor(mxmemUnlinkFromBTree(tree, p), this, S \ {p})
<1>1. EntryOf(tree, p) = this[p]
  BY EntryIs
<1> QED  BY <1>1, UnlinkIs, DeleteIs DEF mxmemUnlinkFromBTree

\* mxmemLink adds the piece, and nothing else.
LEMMA LinkIs ==
    ASSUME NEW tree, NEW this, NEW S, TreeFor(tree, this, S),
           NEW p \in Addr \ S, this[p] \in 1 .. Quanta
    PROVE  TreeFor(mxmemLink(tree, p, this[p]), this, S \cup {p})
<1> DEFINE n == this[p]
           list == IF n \in DOMAIN tree THEN InsertAt(tree[n], PlaceFor(tree[n], p) + 1, p)
                   ELSE <<p>>
           t == SetList(tree, n, list)
<1>1. mxmemLink(tree, p, n) = t
  BY DEF mxmemLink
<1>2. /\ list \in Seq(Addr) /\ IsInjective(list) /\ list # <<>>
      /\ ToSet(list) = (IF n \in DOMAIN tree THEN ToSet(tree[n]) ELSE {}) \cup {p}
  <2>1. CASE n \in DOMAIN tree
    <3>1. tree[n] \in Seq(Addr) /\ IsInjective(tree[n]) /\ p \notin ToSet(tree[n])
      BY <2>1, TreeTyped DEF TreeFor
    <3>2. PlaceFor(tree[n], p) \in 0 .. Len(tree[n])
      <4> DEFINE l == tree[n]
                 later == {i \in DOMAIN l : p <= l[i]}
      <4>1. Len(l) \in Nat /\ DOMAIN l = 1 .. Len(l)
        BY <3>1, LenProperties
      <4>2. later \in SUBSET Nat
        BY <4>1
      <4>3. CASE later = {}
        BY <4>1, <4>3 DEF PlaceFor
      <4>4. CASE later # {}
        <5>1. \E i \in later : \A j \in later : i <= j
          BY <4>2, <4>4, LeastNumber
        <5>2. PlaceFor(l, p) \in later
          BY <4>4, <5>1 DEF PlaceFor
        <5> QED  BY <5>2, <4>1
      <4> QED  BY <4>3, <4>4
    <3>3. PlaceFor(tree[n], p) + 1 \in 1 .. Len(tree[n]) + 1
      BY <3>1, <3>2, LenProperties
    <3> QED  BY <2>1, <3>1, <3>3, InsertAtIs
  <2>2. CASE n \notin DOMAIN tree
    <3>1. <<p>> \in Seq(Addr) /\ IsInjective(<<p>>) /\ <<p>> # <<>> /\ ToSet(<<p>>) = {p}
      BY DEF IsInjective, ToSet
    <3> QED  BY <2>2, <3>1
  <2> QED  BY <2>1, <2>2
<1> HIDE DEF list
<1>3. /\ DOMAIN t = DOMAIN tree \cup {n}
      /\ \A k \in DOMAIN t : t[k] = IF k = n THEN list ELSE tree[k]
      /\ t = [k \in DOMAIN t |-> t[k]]
  BY DEF SetList
<1>4. n \in DOMAIN t /\ t[n] = list
  BY <1>3
<1> HIDE DEF t
<1>5. t \in FreeTrees
  <2>1. \A k \in DOMAIN t : t[k] \in Seq(Addr)
    BY <1>2, <1>3, TreeTyped DEF TreeFor
  <2>2. DOMAIN t \subseteq 1 .. Quanta
    BY <1>3, TreeTyped DEF TreeFor
  <2> QED  BY <2>1, <2>2, <1>3, TreeTyped
<1>6. ASSUME NEW k \in DOMAIN t
      PROVE  /\ t[k] # <<>> /\ IsInjective(t[k])
             /\ \A q \in ToSet(t[k]) : q \in S \cup {p} /\ this[q] = k
  <2>1. CASE k = n
    BY <2>1, <1>2, <1>4 DEF TreeFor
  <2>2. CASE k # n
    BY <2>2, <1>3 DEF TreeFor
  <2> QED  BY <2>1, <2>2
<1>7. ASSUME NEW q \in S \cup {p}
      PROVE  this[q] \in DOMAIN t /\ q \in ToSet(t[this[q]])
  <2>1. CASE this[q] = n
    BY <2>1, <1>2, <1>4 DEF TreeFor
  <2>2. CASE this[q] # n
    BY <2>2, <1>3 DEF TreeFor
  <2> QED  BY <2>1, <2>2
<1>8. TreeFor(t, this, S \cup {p})
  BY <1>5, <1>6, <1>7 DEF TreeFor
<1> QED  BY <1>1, <1>8 DEF t

\* The tree is as good for another heap with the same free pieces.
LEMMA SameTree ==
    ASSUME NEW tree, NEW this, NEW S, TreeFor(tree, this, S), NEW other,
           \A p \in S : other[p] = this[p]
    PROVE  TreeFor(tree, other, S)
  BY DEF TreeFor

-----------------------------------------------------------------------------
(* Heaps in order.                                                         *)

\* The free pieces, with the one that waits to be linked.
FreeIn(h, waits) == (h.isFree \cup {waits}) \ {None}

\* No two of the pieces F are neighbours.
Apart(h, F) == \A p, q \in F : q = p + h.this[p] => q > High(p)

\* The pieces F are those that are free, but for the frontier and the piece out.
Sound(h, F, out) ==
    /\ F \subseteq StartsOf(h)
    /\ h.frontier \in (StartsOf(h) \cup {None}) \ F
    /\ out \in (StartsOf(h) \cup {None}) \ F
    /\ h.frontier = out => out = None
    /\ \A p \in StartsOf(h) : h.tag[p] = "FreeFirst" <=> p \in F \cup {h.frontier, out}

\* A heap between calls (waits and out None), or while the piece waits is about
\* to be linked, or while the piece out is about to be given to the client.
Good(h, waits, out) ==
    /\ h \in Heaps
    /\ Tiled(h)
    /\ TreeFor(h.tree, h.this, h.isFree \ {waits})
    /\ Apart(h, FreeIn(h, waits))
    /\ Sound(h, FreeIn(h, waits), out)

\* The same while p has been freed and not yet been merged with its neighbours.
Pending(h, p, out) ==
    /\ h \in Heaps
    /\ Tiled(h)
    /\ p \in StartsOf(h)
    /\ TreeFor(h.tree, h.this, h.isFree \ {p})
    /\ Apart(h, h.isFree \ {p})
    /\ Sound(h, h.isFree \cup {p}, out)

\* No piece is at None.
LEMMA NoneIs == None \notin Addr /\ \A h : None \notin StartsOf(h)
  BY Numbers DEF None, StartsOf

\* g is h in which p, now pending, has taken in the piece q.
TakesIn(g, h, p, q, out) ==
    /\ Pending(g, p, out)
    /\ g.sects = h.sects /\ g.frontier = h.frontier
    /\ g.isFree = h.isFree \ {q}
    /\ StartsOf(g) = StartsOf(h) \ {q}
    /\ \A x \in Addr \ {p, q} : g.this[x] = h.this[x]
    /\ g.this[p] = h.this[p] + h.this[q]
    /\ \A x \in Addr \ {q} : g.tag[x] = h.tag[x]

\* The pending piece, or the free piece next to it, takes in the other.
LEMMA MergeFreeIs ==
    ASSUME NEW h, NEW c, NEW out, Pending(h, c, out),
           NEW free \in h.isFree \ {c}, NEW p \in StartsOf(h), NEW q \in StartsOf(h),
           q = p + h.this[p], q <= High(p), {p, q} = {c, free}
    PROVE  TakesIn(MergeFree(h, p, q, free), h, p, q, out)
<1>1. PICK m, g : m = mxmemMerge(h, p, q) /\ g = MergeFree(h, p, q, free)
  OBVIOUS
<1>2. h \in Heaps /\ Tiled(h) /\ StartsOf(h) \subseteq Addr
  BY DEF Pending, StartsOf
<1>3. IsMerge(m, h, p, q, h.this[p] + h.this[q]) /\ Tiled(m)
  BY <1>1, <1>2, MergeIs, MergeTiled
<1> DEFINE F == h.isFree \ {c}
           tree == mxmemUnlinkFromBTree(h.tree, free)
<1>4. TreeFor(tree, h.this, F \ {free})
  BY UnlinkFromBTreeIs DEF Pending
<1>5. g = [m EXCEPT !.tree = tree]
  BY <1>1 DEF MergeFree
<1>6. tree \in FreeTrees
  BY <1>4 DEF TreeFor
<1> HIDE DEF tree
<1>7. /\ g \in Heaps /\ g.sects = m.sects /\ g.frontier = m.frontier /\ g.isFree = m.isFree
      /\ g.this = m.this /\ g.prev = m.prev /\ g.tag = m.tag /\ g.tree = tree
  BY <1>3, <1>5, <1>6 DEF IsMerge, Heaps
<1>8. Tiled(g) /\ StartsOf(g) = StartsOf(m)
  BY <1>3, <1>7, SameTiles DEF IsMerge
<1>9. /\ g.sects = h.sects /\ g.frontier = h.frontier
      /\ g.isFree = h.isFree \ {q}
      /\ StartsOf(g) = StartsOf(h) \ {q}
      /\ \A x \in Addr \ {p, q} : g.this[x] = h.this[x]
      /\ g.this[p] = h.this[p] + h.this[q]
      /\ \A x \in Addr \ {q} : g.tag[x] = h.tag[x]
  BY <1>2, <1>3, <1>7, <1>8 DEF IsMerge
<1>10. p \in Addr /\ q \in Addr /\ p # q /\ h.isFree \subseteq Addr
       /\ g.isFree \ {p} = F \ {free} /\ F \ {free} \subseteq Addr \ {p, q}
  <2>1. p \in Addr /\ q \in Addr /\ h.isFree \subseteq Addr /\ h.this[p] > 0
    BY <1>2 DEF Heaps, StartsOf
  <2>2. p # q
    BY <2>1, Numbers
  <2> QED  BY <2>1, <2>2, <1>9
<1>11. TreeFor(g.tree, g.this, g.isFree \ {p})
  <2>1. \A x \in F \ {free} : g.this[x] = h.this[x]
    BY <1>9, <1>10
  <2>2. TreeFor(tree, g.this, F \ {free})
    BY <2>1, <1>4, SameTree
  <2> QED  BY <2>2, <1>7, <1>10
<1>12. Apart(g, g.isFree \ {p})
  BY <1>9, <1>10 DEF Apart, Pending
<1>13. g.isFree \cup {p} = (h.isFree \cup {c}) \ {q}
  BY <1>9, <1>10
<1>14. Sound(g, g.isFree \cup {p}, out)
  <2>1. Sound(h, h.isFree \cup {c}, out) /\ q \in h.isFree \cup {c}
    BY DEF Pending
  <2> QED  BY <2>1, <1>2, <1>9, <1>13 DEF Sound
<1>15. Pending(g, p, out)
  BY <1>7, <1>8, <1>9, <1>10, <1>11, <1>12, <1>14 DEF Pending
<1> QED  BY <1>1, <1>9, <1>15 DEF TakesIn

\* What piecePutMixed leaves as it is.
Keeps(g, h, P) ==
    /\ g.sects = h.sects /\ g.frontier = h.frontier
    /\ StartsOf(g) \subseteq StartsOf(h)
    /\ StartsOf(h) \ P \subseteq StartsOf(g)
    /\ \A x \in StartsOf(g) : g.tag[x] = h.tag[x]

\* No free piece is behind p.
NoneBehind(h, p) == \A q \in h.isFree \ {p} : q = p + h.this[p] => q > High(p)

\* Steps 1 and 2 of piecePutMixed.
PutStep1(h, p) ==
    IF Behind(h, p) = {} THEN h ELSE MergeFree(h, p, mxmemNext(h, p), mxmemNext(h, p))
PutStep2(h, p) ==
    IF Before(h, p) = {} THEN h ELSE MergeFree(h, mxmemPrev(h, p), p, mxmemPrev(h, p))
PutPiece(h, p) == IF Before(h, p) = {} THEN p ELSE mxmemPrev(h, p)

\* Step 1: the piece behind, if it is free, is taken in.
LEMMA MergeBehind ==
    ASSUME NEW h, NEW p, NEW out, Pending(h, p, out), NEW g, g = PutStep1(h, p)
    PROVE  /\ Pending(g, p, out) /\ NoneBehind(g, p)
           /\ Keeps(g, h, h.isFree \cup {p}) /\ g.isFree \subseteq h.isFree
           /\ \A q \in Behind(h, p) : q \notin StartsOf(g)
<1> DEFINE n == mxmemNext(h, p)
<1>1. h \in Heaps /\ Tiled(h) /\ p \in StartsOf(h) /\ PieceFits(h, p) /\ p \in Addr
      /\ h.isFree \subseteq StartsOf(h)
  BY DEF Pending, Tiled, StartsOf, Sound
<1>2. /\ h.this[p] \in 1 .. Quanta /\ p \in Nat /\ High(p) \in Nat
      /\ n = IF p + h.this[p] > High(p) THEN None ELSE p + h.this[p]
      /\ n # None => n \in StartsOf(h) /\ n = p + h.this[p] /\ High(n) = High(p)
  BY <1>1, NextIs, Geometry
<1>3. Behind(h, p) = IF n # None /\ n \in h.isFree THEN {n} ELSE {}
  BY DEF Behind
<1> HIDE DEF n
<1>4. CASE Behind(h, p) = {}
  <2>1. g = h
    BY <1>4 DEF PutStep1
  <2>2. NoneBehind(h, p)
    <3> SUFFICES ASSUME NEW q \in h.isFree \ {p}, q = p + h.this[p], ~ (q > High(p))
                 PROVE  FALSE
      BY DEF NoneBehind
    <3>1. n = q
      BY <1>2
    <3>2. q # None
      BY <1>1, NoneIs
    <3> QED  BY <3>1, <3>2, <1>3, <1>4
  <2> QED  BY <2>1, <2>2, <1>4 DEF Keeps
<1>5. CASE Behind(h, p) # {}
  <2>1. n # None /\ n \in h.isFree /\ n \in StartsOf(h) /\ n = p + h.this[p] /\ n <= High(p)
        /\ High(n) = High(p) /\ n # p
    BY <1>2, <1>3, <1>5
  <2>2. g = MergeFree(h, p, n, n)
    BY <1>5 DEF n, PutStep1
  <2>3. /\ Pending(g, p, out)
        /\ g.sects = h.sects /\ g.frontier = h.frontier
        /\ g.isFree = h.isFree \ {n}
        /\ StartsOf(g) = StartsOf(h) \ {n}
        /\ g.this[p] = h.this[p] + h.this[n]
        /\ \A x \in Addr \ {n} : g.tag[x] = h.tag[x]
    <3>1. TakesIn(g, h, p, n, out)
      BY <2>1, <2>2, <1>1, MergeFreeIs
    <3> QED  BY <3>1 DEF TakesIn
  <2>4. NoneBehind(g, p)
    <3>1. ASSUME NEW q \in g.isFree \ {p}, q = p + g.this[p]  PROVE q > High(p)
      <4>1. q = n + h.this[n] /\ q \in h.isFree \ {p}
        <5>1. h.this[n] \in Nat
          BY <2>1, <1>1 DEF Heaps, StartsOf
        <5> QED  BY <5>1, <3>1, <2>1, <2>3, <1>2
      <4> QED  BY <4>1, <2>1 DEF Pending, Apart
    <3> QED  BY <3>1 DEF NoneBehind
  <2>5. StartsOf(h) \subseteq Addr
    BY DEF StartsOf
  <2> QED  BY <2>1, <2>3, <2>4, <2>5, <1>3, <1>5 DEF Keeps
<1> QED  BY <1>4, <1>5

\* Step 2: the piece before, if it is free, takes in.
LEMMA MergeBefore ==
    ASSUME NEW h, NEW p, NEW out, Pending(h, p, out), NoneBehind(h, p), NEW g, NEW c,
           c = PutPiece(h, p), g = PutStep2(h, p)
    PROVE  /\ Good(g, c, out) /\ c \in StartsOf(g)
           /\ Keeps(g, h, h.isFree \cup {p})
<1> DEFINE q == mxmemPrev(h, p)
<1>1. /\ h \in Heaps /\ Tiled(h) /\ p \in StartsOf(h) /\ p \in Addr /\ p \in Nat
      /\ h.isFree \subseteq StartsOf(h) /\ \A x \in StartsOf(h) : PieceFits(h, x)
  BY Numbers DEF Pending, Tiled, StartsOf, Sound
<1>2. /\ q # None => /\ q \in StartsOf(h) /\ q + h.this[q] = p /\ p <= High(q)
                     /\ High(q) = High(p)
      /\ \A x \in StartsOf(h) : x + h.this[x] = p /\ p <= High(x) => q = x /\ q # None
  <2>1. ASSUME q # None
        PROVE  /\ q \in StartsOf(h) /\ q + h.this[q] = p /\ p <= High(q) /\ High(q) = High(p)
    <3>1. q \in StartsOf(h) /\ mxmemNext(h, q) = p
      BY <2>1, <1>1, PrevIs
    <3>2. p # None
      BY <1>1, NoneIs
    <3>3. p = q + h.this[q] /\ High(p) = High(q)
      BY <3>1, <3>2, <1>1, NextIs
    <3> QED  BY <3>1, <3>3, <1>1, Geometry
  <2>2. ASSUME NEW x \in StartsOf(h), x + h.this[x] = p, p <= High(x)
        PROVE  q = x /\ q # None
    <3>1. x \in Addr /\ x \in Nat /\ h.this[x] \in Nat \ {0}
      BY <1>1, Numbers DEF StartsOf, Heaps
    <3>2. h.prev[p] = h.this[x]
      BY <2>2, <1>1 DEF PieceFits
    <3>3. Low(p) = Low(x) /\ Low(x) <= x /\ x < p /\ Low(p) \in Nat
      BY <2>2, <3>1, <1>1, Geometry
    <3>4. q = p - h.prev[p]
      BY <3>1, <3>3, <1>1 DEF mxmemPrev, isFirst, Low
    <3> QED  BY <2>2, <3>1, <3>2, <3>4, <1>1, NoneIs
  <2> QED  BY <2>1, <2>2
<1>3. Before(h, p) = IF q # None /\ q \in h.isFree THEN {q} ELSE {}
  BY DEF Before
<1> HIDE DEF q
<1>4. CASE Before(h, p) = {}
  <2>1. g = h /\ c = p
    BY <1>4 DEF PutStep2, PutPiece
  <2>2. FreeIn(h, p) = h.isFree \cup {p} /\ FreeIn(h, p) = (h.isFree \ {p}) \cup {p}
    BY <1>1, NoneIs DEF FreeIn
  <2>3. Apart(h, FreeIn(h, p))
    <3> SUFFICES ASSUME NEW x \in FreeIn(h, p), NEW y \in FreeIn(h, p), y = x + h.this[x]
                 PROVE  y > High(x)
      BY DEF Apart
    <3>1. /\ x \in StartsOf(h) /\ x \in Addr /\ x \in Nat /\ h.this[x] \in Nat \ {0}
          /\ High(x) \in Nat
      BY <2>2, <1>1, Geometry DEF StartsOf, Heaps
    <3>2. CASE x # p /\ y # p
      BY <3>2, <2>2 DEF Pending, Apart
    <3>3. CASE x = p
      <4>1. y # p
        BY <3>1, <3>3, SMTT(20)
      <4>2. y \in h.isFree \ {p}
        BY <4>1, <2>2
      <4> QED  BY <4>2, <3>3 DEF NoneBehind
    <3>4. CASE y = p /\ x # p
      <4>1. x \in h.isFree
        BY <3>4, <2>2
      <4>2. ~ (p <= High(x))
        BY <4>1, <3>1, <3>4, <1>2, <1>3, <1>4
      <4> QED  BY <4>2, <3>1, <3>4, <1>1
    <3> QED  BY <3>2, <3>3, <3>4
  <2>4. Good(h, p, out)
    BY <2>2, <2>3 DEF Pending, Good
  <2> QED  BY <2>1, <2>4, <1>1 DEF Keeps
<1>5. CASE Before(h, p) # {}
  <2>1. /\ q # None /\ q \in h.isFree /\ q \in StartsOf(h) /\ p = q + h.this[q] /\ p <= High(q)
        /\ High(q) = High(p)
    BY <1>2, <1>3, <1>5
  <2>2. g = MergeFree(h, q, p, q) /\ c = q
    BY <1>5 DEF q, PutStep2, PutPiece
  <2>3. q \in Nat /\ q \in Addr /\ h.this[q] \in Nat \ {0} /\ h.this[p] \in Nat \ {0} /\ q < p
    BY <2>1, <1>1, Numbers DEF Heaps, StartsOf
  <2>4. /\ Pending(g, q, out)
        /\ g.sects = h.sects /\ g.frontier = h.frontier
        /\ g.isFree = h.isFree \ {p}
        /\ StartsOf(g) = StartsOf(h) \ {p}
        /\ \A x \in Addr \ {q, p} : g.this[x] = h.this[x]
        /\ g.this[q] = h.this[q] + h.this[p]
        /\ \A x \in Addr \ {p} : g.tag[x] = h.tag[x]
    <3>1. q \in h.isFree \ {p} /\ {q, p} = {p, q}
      BY <2>1, <2>3
    <3>2. TakesIn(g, h, q, p, out)
      BY <2>1, <2>2, <3>1, <1>1, MergeFreeIs
    <3> QED  BY <3>2 DEF TakesIn
  <2>5. FreeIn(g, q) = g.isFree /\ g.isFree \ {q} = (h.isFree \ {p}) \ {q}
        /\ g.isFree \cup {q} = g.isFree
    BY <2>1, <2>3, <2>4, <1>1, NoneIs DEF FreeIn
  <2>6. Apart(g, g.isFree)
    <3> SUFFICES ASSUME NEW x \in g.isFree, NEW y \in g.isFree, y = x + g.this[x]
                 PROVE  y > High(x)
      BY DEF Apart
    <3>1. x \in StartsOf(h) /\ x \in Addr /\ x # p /\ y \in h.isFree \ {p}
          /\ x \in h.isFree \ {p} /\ q \in h.isFree \ {p}
      BY <2>1, <2>3, <2>4, <1>1 DEF StartsOf
    <3>2. CASE x = q
      <4>1. y = p + h.this[p]
        BY <3>2, <2>1, <2>3, <2>4
      <4> QED  BY <3>1, <3>2, <4>1, <2>1 DEF NoneBehind
    <3>3. CASE x # q
      <4>1. y = x + h.this[x]
        BY <3>1, <3>3, <2>4
      <4> QED  BY <3>1, <4>1 DEF Pending, Apart
    <3> QED  BY <3>2, <3>3
  <2>7. Good(g, q, out)
    BY <2>4, <2>5, <2>6 DEF Good, Pending
  <2>8. q \in StartsOf(g) /\ StartsOf(h) \subseteq Addr
    BY <2>1, <2>3, <2>4 DEF StartsOf
  <2> QED  BY <2>2, <2>4, <2>7, <2>8 DEF Keeps
<1> QED  BY <1>4, <1>5

\* Steps 1 and 2 of piecePutMixed: the neighbours that are free are in the
\* tree, and no piece is now a neighbour of the one to link.
LEMMA PutIs ==
    ASSUME NEW h, NEW p, NEW out, Pending(h, p, out), NEW m, m = Merged(h, p)
    PROVE  /\ ~ Broken(h, p)
           /\ Good(m.heap, m.piece, out) /\ m.piece \in StartsOf(m.heap)
           /\ Keeps(m.heap, h, h.isFree \cup {p})
           /\ \A q \in Behind(h, p) : q \notin StartsOf(m.heap)
<1>1. PICK g : g = PutStep1(h, p)
  OBVIOUS
<1>2. /\ Pending(g, p, out) /\ NoneBehind(g, p)
      /\ Keeps(g, h, h.isFree \cup {p}) /\ g.isFree \subseteq h.isFree
      /\ \A q \in Behind(h, p) : q \notin StartsOf(g)
  BY <1>1, MergeBehind
<1>3. m.heap = PutStep2(g, p) /\ m.piece = PutPiece(g, p)
  BY <1>1 DEF Merged, PutStep1, PutStep2, PutPiece
<1>4. /\ Good(m.heap, m.piece, out) /\ m.piece \in StartsOf(m.heap)
      /\ Keeps(m.heap, g, g.isFree \cup {p})
  BY <1>2, <1>3, MergeBefore
<1>5. Keeps(m.heap, h, h.isFree \cup {p})
  BY <1>2, <1>4 DEF Keeps
<1>6. ~ Broken(h, p)
  <2> SUFFICES ASSUME NEW q \in Before(h, p) \cup Behind(h, p)  PROVE InTree(h, q)
    BY DEF Broken
  <2>1. h \in Heaps /\ p \in StartsOf(h) /\ \A x \in StartsOf(h) : PieceFits(h, x)
    BY DEF Pending, Tiled
  <2>2. p \in Nat /\ h.this[p] \in Nat \ {0}
    BY <2>1, Numbers DEF StartsOf, Heaps
  <2>3. q \in h.isFree /\ (q = mxmemPrev(h, p) \/ q = mxmemNext(h, p)) /\ q # None
    BY DEF Before, Behind
  <2>4. q # p
    <3>1. CASE q = mxmemPrev(h, p)
      <4>1. q \in StartsOf(h) /\ mxmemNext(h, q) = p
        BY <2>1, <2>3, <3>1, PrevIs
      <4>2. p = q + h.this[q]
        BY <4>1, <2>1, NextIs, NoneIs
      <4>3. h.this[q] \in Nat \ {0} /\ q \in Nat
        BY <4>1, <2>1, Numbers DEF StartsOf, Heaps
      <4> QED  BY <4>2, <4>3, <2>2
    <3>2. CASE q = mxmemNext(h, p)
      <4>1. q = p + h.this[p]
        BY <2>1, <2>3, <3>2, NextIs
      <4> QED  BY <4>1, <2>2
    <3> QED  BY <3>1, <3>2, <2>3
  <2> QED  BY <2>3, <2>4, InTreeIs DEF Pending
<1> QED  BY <1>2, <1>4, <1>5, <1>6 DEF Keeps

\* Steps 3 and 4.
LEMMA LinkedIs ==
    ASSUME NEW h, NEW c \in StartsOf(h), NEW out, Good(h, c, out), NEW g,
           g = Freed(Linked(h, c), c)
    PROVE  /\ Good(g, None, out)
           /\ StartsOf(g) = StartsOf(h) /\ g.sects = h.sects /\ g.frontier = h.frontier
           /\ g.this = h.this /\ g.tag = h.tag /\ c \in g.isFree
<1>1. h \in Heaps /\ c \in Addr /\ h.this[c] \in 1 .. Quanta /\ c # None
  <2>1. h \in Heaps /\ c \in Addr /\ h.this[c] > 0
    BY DEF Good, StartsOf
  <2> QED  BY <2>1, Numbers, NoneIs DEF Heaps
<1> DEFINE tree == mxmemLink(h.tree, c, h.this[c])
<1>2. TreeFor(tree, h.this, (h.isFree \ {c}) \cup {c})
  BY <1>1, LinkIs DEF Good
<1>3. tree \in FreeTrees
  BY <1>2 DEF TreeFor
<1>4. g = [h EXCEPT !.tree = tree, !.isFree = h.isFree \cup {c}]
  BY <1>1 DEF Freed, Linked, Heaps
<1> DEFINE free == h.isFree \cup {c}
<1>9. free \subseteq Addr
  BY <1>1 DEF Heaps
<1> HIDE DEF tree, free
<1>5. /\ g \in Heaps /\ g.sects = h.sects /\ g.frontier = h.frontier
      /\ g.isFree = free /\ g.this = h.this /\ g.prev = h.prev /\ g.tag = h.tag
      /\ g.tree = tree
  BY <1>1, <1>3, <1>4, <1>9 DEF Heaps, free
<1>6. Tiled(g) /\ StartsOf(g) = StartsOf(h)
  BY <1>5, SameTiles DEF Good
<1>7. FreeIn(g, None) = FreeIn(h, c) /\ g.isFree \ {None} = (h.isFree \ {c}) \cup {c}
  BY <1>1, <1>5, NoneIs DEF FreeIn, Heaps, free
<1>8. Good(g, None, out)
  BY <1>2, <1>5, <1>6, <1>7 DEF Good, Apart, Sound
<1> QED  BY <1>5, <1>6, <1>8 DEF free

=============================================================================
