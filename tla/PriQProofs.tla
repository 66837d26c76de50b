----------------------------- MODULE PriQProofs -----------------------------
(***************************************************************************)
(* Proofs about PriQ: between calls the array of a priority queue fits and *)
(* has what was put in and not taken out, what is taken out has the least  *)
(* key, and the queue passes its own check when its keys differ.           *)
(***************************************************************************)
EXTENDS PriQ, FiniteSetTheorems, SequenceTheorems, WellFoundedInduction, TLAPS

-----------------------------------------------------------------------------
(* Numbers.                                                                *)

NumberLess == {p \in Nat \X Nat : p[1] < p[2]}

\* The order of the natural numbers, as a relation.
LEMMA NumberLessIs ==
    /\ IsWellFoundedOn(NumberLess, Nat)
    /\ \A x, y \in Nat : <<x, y>> \in NumberLess <=> x < y
  BY NatLessThanWellFounded DEF OpToRel, NumberLess

\* A set of numbers has a least one.
LEMMA LeastNumber ==
    ASSUME NEW T \in SUBSET Nat, T # {}
    PROVE  \E m \in T : \A n \in T : m <= n
<1>1. IsWellFoundedOn(NumberLess, Nat)
  BY NumberLessIs
<1>2. PICK m \in T : \A n \in T : ~ (<<n, m>> \in NumberLess)
  BY <1>1, WFMin
<1>3. ASSUME NEW n \in T  PROVE m <= n
  <2>1. n \in Nat /\ m \in Nat /\ <<n, m>> \notin NumberLess
    BY <1>2
  <2> QED  BY <2>1, NumberLessIs
<1> QED  BY <1>3

\* Every part but the first has a parent before it, of which it is a child.
LEMMA Parent ==
    ASSUME NEW i \in Nat, i >= 2
    PROVE  /\ heapParent(i) \in 1 .. i - 1
           /\ i = heapLeft(heapParent(i)) \/ i = heapRight(heapParent(i))
  BY DEF heapParent, heapLeft, heapRight

\* The parent of a child.
LEMMA Children ==
    ASSUME NEW i \in Nat \ {0}
    PROVE  /\ heapParent(heapLeft(i)) = i /\ heapParent(heapRight(i)) = i
           /\ heapLeft(i) \in Nat /\ heapLeft(i) > i
           /\ heapRight(i) \in Nat /\ heapRight(i) > i
  BY DEF heapParent, heapLeft, heapRight

-----------------------------------------------------------------------------
(* The bag of a sequence.                                                  *)

Places(s, p) == {i \in 1 .. Len(s) : s[i] = p}

\* How often each part is in the sequence.
LEMMA BagIs ==
    ASSUME NEW S, NEW s \in Seq(S)
    PROVE  /\ DOMAIN BagOf(s) = ToSet(s)
           /\ \A p \in ToSet(s) : BagOf(s)[p] = Cardinality(Places(s, p))
           /\ \A p : /\ IsFiniteSet(Places(s, p)) /\ Cardinality(Places(s, p)) \in Nat
                     /\ p \in ToSet(s) <=> Cardinality(Places(s, p)) # 0
<1>1. Len(s) \in Nat /\ DOMAIN s = 1 .. Len(s)
  BY LenProperties
<1>2. ASSUME NEW p
      PROVE  /\ IsFiniteSet(Places(s, p)) /\ Cardinality(Places(s, p)) \in Nat
             /\ p \in ToSet(s) <=> Cardinality(Places(s, p)) # 0
  <2>1. IsFiniteSet(1 .. Len(s)) /\ Places(s, p) \subseteq 1 .. Len(s)
    BY <1>1, FS_Interval DEF Places
  <2>2. IsFiniteSet(Places(s, p))
    BY <2>1, FS_Subset
  <2>3. p \in ToSet(s) <=> Places(s, p) # {}
    BY <1>1 DEF ToSet, Places
  <2> QED  BY <2>2, <2>3, FS_CardinalityType, FS_EmptySet
<1>3. ASSUME NEW p \in ToSet(s)  PROVE BagOf(s)[p] = Cardinality(Places(s, p))
  BY DEF BagOf, Places
<1> QED  BY <1>2, <1>3 DEF BagOf

\* Two sequences with as many places for each part have the same bag.
LEMMA SameBag ==
    ASSUME NEW S, NEW s \in Seq(S), NEW t \in Seq(S),
           \A p : Cardinality(Places(s, p)) = Cardinality(Places(t, p))
    PROVE  BagOf(s) = BagOf(t)
<1>1. ToSet(s) = ToSet(t)
  BY BagIs, SMTT(20)
<1>2. ASSUME NEW p \in ToSet(s)
      PROVE  Cardinality({i \in 1 .. Len(s) : s[i] = p}) = Cardinality({i \in 1 .. Len(t) : t[i] = p})
  BY DEF Places
<1> QED  BY <1>1, <1>2 DEF BagOf

\* What an exchange does to a sequence.
Exchanges(s, i, j, t) ==
    /\ Len(t) = Len(s)
    /\ \A k \in 1 .. Len(s) : t[k] = IF k = j THEN s[i] ELSE IF k = i THEN s[j] ELSE s[k]
    /\ BagOf(t) = BagOf(s)

\* An exchange leaves the bag as it is.
LEMMA BagExchange ==
    ASSUME NEW S, NEW s \in Seq(S), NEW i \in 1 .. Len(s), NEW j \in 1 .. Len(s)
    PROVE  /\ Exchange(s, i, j) \in Seq(S)
           /\ Exchanges(s, i, j, Exchange(s, i, j))
<1> PICK n, t : n = Len(s) /\ t = Exchange(s, i, j)
  OBVIOUS
<1>1. /\ n \in Nat /\ DOMAIN s = 1 .. n /\ s \in [1 .. n -> S]
      /\ \A k \in 1 .. n : s[k] \in S
  BY LenProperties
<1>2. /\ t \in [1 .. n -> S]
      /\ \A k \in 1 .. n : t[k] = IF k = j THEN s[i] ELSE IF k = i THEN s[j] ELSE s[k]
  BY <1>1 DEF Exchange
<1>3. t \in Seq(S) /\ Len(t) = n
  BY <1>1, <1>2
<1>4. ASSUME NEW p
      PROVE  Cardinality(Places(t, p)) = Cardinality(Places(s, p))
  <2> DEFINE swap(k) == IF k = i THEN j ELSE IF k = j THEN i ELSE k
             f == [k \in Places(s, p) |-> swap(k)]
  <2>1. \A k \in 1 .. n : swap(k) \in 1 .. n /\ swap(swap(k)) = k /\ t[swap(k)] = s[k]
    BY <1>2
  <2>2. \A k \in Places(s, p) : swap(k) \in Places(t, p)
    BY <1>3, <2>1 DEF Places
  <2>3. \A k \in Places(t, p) : swap(k) \in Places(s, p)
    BY <1>3, <2>1 DEF Places
  <2>4. \A k \in Places(s, p) \cup Places(t, p) : swap(swap(k)) = k
    BY <1>3, <2>1 DEF Places
  <2> HIDE DEF swap
  <2>5. f \in Bijection(Places(s, p), Places(t, p))
    BY <2>2, <2>3, <2>4 DEF Bijection, Injection, Surjection, IsInjective
  <2>6. IsFiniteSet(Places(s, p))
    BY BagIs
  <2> QED  BY <2>5, <2>6, FS_Bijection DEF ExistsBijection
<1>5. BagOf(t) = BagOf(s)
  BY <1>3, <1>4, SameBag
<1> QED  BY <1>2, <1>3, <1>5 DEF Exchanges

\* Something more at the end.
LEMMA BagAppend ==
    ASSUME NEW S, NEW s \in Seq(S), NEW x \in S
    PROVE  BagOf(Append(s, x)) = BagOf(s) (+) SetToBag({x})
<1> PICK n, t : n = Len(s) /\ t = Append(s, x)
  OBVIOUS
<1>1. /\ n \in Nat /\ t \in Seq(S) /\ Len(t) = n + 1
      /\ t[n + 1] = x /\ \A i \in 1 .. n : t[i] = s[i]
  BY LenProperties, AppendProperties
<1>2. ASSUME NEW p
      PROVE  Cardinality(Places(t, p)) = Cardinality(Places(s, p)) + (IF p = x THEN 1 ELSE 0)
  <2>1. IsFiniteSet(Places(s, p)) /\ Cardinality(Places(s, p)) \in Nat
    BY BagIs
  <2>2. n + 1 \notin Places(s, p)
    BY <1>1 DEF Places
  <2>3. CASE p = x
    <3>1. Places(t, p) = Places(s, p) \cup {n + 1}
      BY <1>1, <2>3 DEF Places
    <3> QED  BY <2>1, <2>3, <2>2, <3>1, FS_AddElement, ZenonT(30)
  <2>4. CASE p # x
    <3>1. Places(t, p) = Places(s, p)
      BY <1>1, <2>4 DEF Places
    <3> QED  BY <2>1, <2>4, <3>1
  <2> QED  BY <2>3, <2>4
<1>3. ToSet(t) = ToSet(s) \cup {x}
  <2>1. DOMAIN s = 1 .. n /\ DOMAIN t = 1 .. n + 1
    BY <1>1, LenProperties
  <2> QED  BY <1>1, <2>1 DEF ToSet
<1>4. ASSUME NEW p \in ToSet(s) \cup {x}
      PROVE  BagOf(t)[p] = (IF p \in ToSet(s) THEN BagOf(s)[p] ELSE 0) + (IF p \in {x} THEN 1 ELSE 0)
  <2>1. BagOf(t)[p] = Cardinality(Places(s, p)) + (IF p = x THEN 1 ELSE 0)
    BY <1>1, <1>2, <1>3, BagIs, ZenonT(30)
  <2>2. Cardinality(Places(s, p)) = IF p \in ToSet(s) THEN BagOf(s)[p] ELSE 0
    BY BagIs
  <2> QED  BY <2>1, <2>2
<1>5. BagOf(s) (+) SetToBag({x}) =
        [p \in ToSet(s) \cup {x} |->
            (IF p \in ToSet(s) THEN BagOf(s)[p] ELSE 0) + (IF p \in {x} THEN 1 ELSE 0)]
  <2>1. DOMAIN BagOf(s) = ToSet(s)
    BY BagIs
  <2> QED  BY <2>1 DEF (+), SetToBag
<1>6. BagOf(t) = [p \in ToSet(s) \cup {x} |-> BagOf(t)[p]]
  BY <1>1, <1>3 DEF BagOf
<1> QED  BY <1>4, <1>5, <1>6

\* The last one off.
LEMMA BagFront ==
    ASSUME NEW S, NEW s \in Seq(S), s # <<>>
    PROVE  /\ Front(s) \in Seq(S) /\ Len(Front(s)) = Len(s) - 1
           /\ \A i \in 1 .. Len(s) - 1 : Front(s)[i] = s[i]
           /\ BagOf(Front(s)) = BagOf(s) (-) SetToBag({s[Len(s)]})
<1> PICK n, t, x : n = Len(s) /\ t = Front(s) /\ x = s[n]
  OBVIOUS
<1>1. n \in Nat \ {0} /\ x \in S
  BY LenProperties, EmptySeq
<1>2. t \in Seq(S) /\ Len(t) = n - 1 /\ \A i \in 1 .. n - 1 : t[i] = s[i]
  BY <1>1, SubSeqProperties DEF Front
<1>3. Append(t, x) = s
  <2>1. /\ Append(t, x) \in Seq(S) /\ Len(Append(t, x)) = n
        /\ \A i \in 1 .. n : Append(t, x)[i] = s[i]
    BY <1>1, <1>2, AppendProperties
  <2> QED  BY <2>1, SeqEqual
<1> DEFINE b == BagOf(t)
           c == b (+) SetToBag({x})
<1>4. DOMAIN b = ToSet(t) /\ \A p \in ToSet(t) : b[p] \in Nat \ {0}
  BY <1>2, BagIs
<1>5. DOMAIN c = ToSet(t) \cup {x}
      /\ \A p \in ToSet(t) \cup {x} :
            c[p] = (IF p \in ToSet(t) THEN b[p] ELSE 0) + (IF p \in {x} THEN 1 ELSE 0)
  BY <1>4 DEF (+), SetToBag
<1> HIDE DEF b, c
<1> DEFINE d == [p \in DOMAIN c |-> IF p \in {x} THEN c[p] - 1 ELSE c[p]]
<1>6. \A p \in DOMAIN c : d[p] = IF p \in ToSet(t) THEN b[p] ELSE 0
  BY <1>4, <1>5
<1>7. {p \in DOMAIN d : d[p] > 0} = ToSet(t)
  BY <1>4, <1>5, <1>6
<1>8. c (-) SetToBag({x}) = [p \in {q \in DOMAIN d : d[q] > 0} |-> d[p]]
  BY DEF (-), SetToBag
<1> HIDE DEF d
<1>9. c (-) SetToBag({x}) = [p \in ToSet(t) |-> b[p]]
  BY <1>5, <1>6, <1>7, <1>8
<1>10. b = [p \in ToSet(t) |-> b[p]]
  BY DEF b, BagOf
<1>11. c = BagOf(s)
  BY <1>1, <1>2, <1>3, BagAppend DEF b, c
<1> QED  BY <1>2, <1>9, <1>10, <1>11 DEF b

-----------------------------------------------------------------------------
(* The invariant.                                                          *)

\* The part i is in order with its parent.
InOrder(i) == argv[heapParent(i)].key <= argv[i].key

\* The children of k are in order with the parent of k.
Passable(k) ==
    \A i \in 2 .. argc : heapParent(i) = k /\ k > 1 => argv[heapParent(k)].key <= argv[i].key

\* The heap is in order but at the part that is being sifted: inward, that part
\* may come before its parent; outward, its children may come before it.
HeapBut ==
    /\ sift.dir = "none" => \A i \in 2 .. argc : InOrder(i)
    /\ sift.dir = "inward" =>
          /\ sift.at \in 1 .. argc
          /\ \A i \in 2 .. argc : i # sift.at => InOrder(i)
          /\ Passable(sift.at)
    /\ sift.dir = "outward" /\ argc > 0 =>
          /\ sift.at \in 1 .. argc
          /\ \A i \in 2 .. argc : heapParent(i) # sift.at => InOrder(i)
          /\ Passable(sift.at)

\* What was taken out comes before what is left.
TakenFirst == extracted # Nothing => \A i \in 1 .. argc : extracted.key <= argv[i].key

Inv ==
    /\ argv \in Seq(Part)
    /\ size \in Nat \ {0} /\ argc <= size
    /\ sift \in [dir : {"inward", "outward"}, at : Nat] \cup {NoSift}
    /\ BagOf(argv) = content
    /\ HeapBut
    /\ TakenFirst

\* A part and its key.
LEMMA PartType ==
    ASSUME Inv
    PROVE  argc \in Nat /\ \A i \in 1 .. argc : argv[i] \in Part /\ argv[i].key \in Int
<1>1. argc \in Nat /\ \A i \in 1 .. argc : argv[i] \in Part
  BY LenProperties DEF Inv, argc
<1>2. \A p \in Part : p.key \in Int
  BY PriQConstants DEF Part
<1> QED  BY <1>1, <1>2

\* In a heap the first part has the least key: a part that comes before it and is
\* the first of its kind in the array has a parent that comes before it too.
LEMMA RootLeast ==
    ASSUME Inv, \A i \in 2 .. argc : InOrder(i)
    PROVE  \A i \in 1 .. argc : argv[1].key <= argv[i].key
<1> DEFINE T == {i \in 1 .. argc : argv[i].key < argv[1].key}
<1> SUFFICES ASSUME T # {}  PROVE FALSE
  BY PartType
<1>1. T \in SUBSET Nat
  BY PartType
<1>2. PICK m \in T : \A n \in T : m <= n
  BY <1>1, LeastNumber
<1>3. m \in 2 .. argc /\ m \in Nat /\ argc \in Nat
  BY PartType
<1>4. heapParent(m) \in 1 .. argc /\ heapParent(m) < m
  BY <1>3, Parent
<1>5. heapParent(m) \in T
  BY <1>3, <1>4, PartType DEF InOrder
<1> QED  BY <1>2, <1>3, <1>4, <1>5

\* A heap in order is one whatever part a sift would be at.
LEMMA InitInv == PriqInit => Inv
<1> SUFFICES ASSUME PriqInit  PROVE Inv
  OBVIOUS
<1>1. argv = <<>> /\ argv \in Seq(Part) /\ argc = 0
  BY DEF PriqInit, argc
<1>2. BagOf(argv) = content
  <2>1. ToSet(argv) = {}
    BY <1>1 DEF ToSet
  <2>2. BagOf(argv) = [p \in {} |-> Cardinality({i \in 1 .. Len(argv) : argv[i] = p})]
    BY <2>1 DEF BagOf
  <2> QED  BY <2>2 DEF PriqInit, EmptyBag, SetToBag
<1>3. size \in Nat \ {0}
  BY PriQConstants DEF PriqInit
<1> QED  BY <1>1, <1>2, <1>3 DEF PriqInit, Inv, HeapBut, TakenFirst, NoSift

\* What is put in stands last, where it may come before its parent only.
LEMMA InvInsert == ASSUME Inv, priqInsert  PROVE Inv'
<1>1. PICK p \in Part : argv' = Append(argv, p) /\ content' = content (+) SetToBag({p})
  BY DEF priqInsert
<1>2. PICK n : n = argc
  OBVIOUS
<1>3. /\ n \in Nat /\ argv' \in Seq(Part) /\ argc' = n + 1
      /\ argv'[n + 1] = p /\ \A i \in 1 .. n : argv'[i] = argv[i]
  BY <1>1, <1>2, PartType, AppendProperties DEF Inv, argc
<1>4. BagOf(argv)' = content'
  BY <1>1, BagAppend DEF Inv
<1>5. size' \in Nat \ {0} /\ n + 1 <= size'
  BY <1>2, <1>3 DEF Inv, priqInsert
<1>6. sift = NoSift /\ sift' = [dir |-> "inward", at |-> n + 1] /\ extracted' = Nothing
  BY <1>2 DEF priqInsert, PriqCall
<1>7. ASSUME NEW i \in 2 .. n  PROVE InOrder(i)'
  <2>1. heapParent(i) \in 1 .. n
    BY <1>3, Parent
  <2>2. InOrder(i)
    BY <1>2, <1>6 DEF Inv, HeapBut, NoSift
  <2> QED  BY <1>3, <2>1, <2>2 DEF InOrder, heapParent
<1>8. ASSUME NEW i \in 2 .. n + 1  PROVE heapParent(i) # n + 1
  BY <1>3, Parent
<1>9. HeapBut'
  BY <1>3, <1>6, <1>7, <1>8 DEF HeapBut, Passable, heapParent
<1> QED  BY <1>3, <1>4, <1>5, <1>6, <1>9 DEF Inv, TakenFirst

\* What is taken out has the least key, and the last part, which takes its place,
\* may come behind its children only.
LEMMA InvExtractMin == ASSUME Inv, priqExtractMin  PROVE Inv'
<1>1. PICK n, t : n = argc /\ t = Exchange(argv, 1, n)
  OBVIOUS
<1>2. n \in Nat \ {0} /\ argv \in Seq(Part) /\ 1 \in 1 .. n /\ n \in 1 .. n
  BY <1>1, PartType DEF priqExtractMin, Inv
<1>3. /\ t \in Seq(Part) /\ Len(t) = n /\ t[n] = argv[1]
      /\ \A k \in 2 .. n - 1 : t[k] = argv[k]
      /\ \A k \in 1 .. n - 1 : \E j \in 1 .. n : t[k] = argv[j]
      /\ BagOf(t) = BagOf(argv)
  <2>1. /\ t \in Seq(Part) /\ Len(t) = Len(argv) /\ BagOf(t) = BagOf(argv)
        /\ \A k \in 1 .. Len(argv) : t[k] =
               IF k = n THEN argv[1] ELSE IF k = 1 THEN argv[n] ELSE argv[k]
    <3>1. argv \in Seq(Part) /\ 1 \in 1 .. Len(argv) /\ n \in 1 .. Len(argv)
      BY <1>1, <1>2 DEF argc
    <3>2. t = Exchange(argv, 1, n)
      BY <1>1
    <3>3. t \in Seq(Part) /\ Exchanges(argv, 1, n, t)
      BY <3>1, <3>2, BagExchange
    <3> QED  BY <3>3 DEF Exchanges
  <2>2. n = Len(argv)
    BY <1>1 DEF argc
  <2> QED  BY <1>2, <2>1, <2>2
<1>4. argv' = Front(t)
  BY <1>1 DEF priqExtractMin
<1>5. /\ argv' \in Seq(Part) /\ argc' = n - 1 /\ \A k \in 1 .. n - 1 : argv'[k] = t[k]
      /\ BagOf(argv)' = BagOf(argv) (-) SetToBag({argv[1]})
  <2>1. t # <<>>
    BY <1>2, <1>3
  <2> QED  BY <1>2, <1>3, <1>4, <2>1, BagFront, ZenonT(30) DEF argc
<1>6. BagOf(argv)' = content'
  BY <1>5 DEF Inv, priqExtractMin
<1>7. sift = NoSift /\ sift' = [dir |-> "outward", at |-> 1] /\ extracted' = argv[1]
  BY DEF priqExtractMin, PriqCall
<1>8. size' \in Nat \ {0} /\ n - 1 <= size'
  BY <1>1, <1>2 DEF Inv, priqExtractMin
<1>9. \A i \in 2 .. n : InOrder(i)
  BY <1>1, <1>7 DEF Inv, HeapBut, NoSift
<1>10. \A i \in 1 .. n : argv[1].key <= argv[i].key
  BY <1>1, <1>9, RootLeast
<1>11. TakenFirst'
  <2>1. \A i \in 1 .. n - 1 : \E j \in 1 .. n : argv'[i] = argv[j]
    BY <1>3, <1>5
  <2> QED  BY <1>5, <1>7, <1>10, <2>1 DEF TakenFirst
<1>12. ASSUME NEW i \in 2 .. n - 1, heapParent(i) # 1  PROVE InOrder(i)'
  <2>1. heapParent(i) \in 2 .. n - 1
    BY <1>2, <1>12, Parent
  <2>2. argv'[i] = argv[i] /\ argv'[heapParent(i)] = argv[heapParent(i)]
    BY <1>2, <1>3, <1>5, <2>1
  <2>3. argv[heapParent(i)].key <= argv[i].key
    BY <1>2, <1>9 DEF InOrder
  <2> QED  BY <2>2, <2>3 DEF InOrder, heapParent
<1>13. HeapBut'
  BY <1>2, <1>5, <1>7, <1>12 DEF HeapBut, Passable, heapParent
<1> QED  BY <1>5, <1>6, <1>7, <1>8, <1>11, <1>13 DEF Inv

\* An exchange in a sift leaves alone what a queue has.
LEMMA Exchanged ==
    ASSUME Inv, NEW i \in 1 .. argc, NEW j \in 1 .. argc, argv' = Exchange(argv, i, j),
           UNCHANGED <<size, extracted, content>>
    PROVE  /\ argv' \in Seq(Part) /\ argc' = argc
           /\ argv'[j] = argv[i] /\ argv'[i] = argv[j]
           /\ \A k \in 1 .. argc : k \notin {i, j} => argv'[k] = argv[k]
           /\ size' \in Nat \ {0} /\ argc' <= size'
           /\ BagOf(argv)' = content' /\ TakenFirst'
<1>1. /\ argv' \in Seq(Part) /\ argc' = argc
      /\ \A k \in 1 .. argc : argv'[k] = IF k = j THEN argv[i] ELSE IF k = i THEN argv[j] ELSE argv[k]
      /\ BagOf(argv)' = BagOf(argv)
  <2>1. argv \in Seq(Part) /\ i \in 1 .. Len(argv) /\ j \in 1 .. Len(argv)
    BY DEF Inv, argc
  <2>2. PICK t : t = Exchange(argv, i, j)
    OBVIOUS
  <2>3. /\ t \in Seq(Part) /\ Len(t) = Len(argv) /\ BagOf(t) = BagOf(argv)
        /\ \A k \in 1 .. Len(argv) : t[k] =
               IF k = j THEN argv[i] ELSE IF k = i THEN argv[j] ELSE argv[k]
    <3>1. t \in Seq(Part) /\ Exchanges(argv, i, j, t)
      BY <2>1, <2>2, BagExchange
    <3> QED  BY <3>1 DEF Exchanges
  <2>4. argv' = t
    BY <2>2
  <2> QED  BY <2>3, <2>4 DEF argc, BagOf
<1>2. TakenFirst'
  <2>1. \A k \in 1 .. argc : \E l \in 1 .. argc : argv'[k] = argv[l]
    BY <1>1
  <2> QED  BY <1>1, <2>1 DEF Inv, TakenFirst
<1> QED  BY <1>1, <1>2 DEF Inv

\* heapSiftInward.
LEMMA InvInward == ASSUME Inv, SiftInward  PROVE Inv'
<1>1. PICK n, k, p : n = argc /\ k = sift.at /\ p = heapParent(k)
  OBVIOUS
<1>2. /\ n \in Nat /\ k \in 1 .. n
      /\ \A i \in 2 .. n : i # k => InOrder(i)
      /\ Passable(k)
  BY <1>1, PartType DEF SiftInward, Inv, HeapBut
<1>3. CASE k = 1 \/ argv[p].key < argv[k].key
  <2>1. sift' = NoSift /\ argv' = argv
    BY <1>1, <1>3 DEF SiftInward
  <2>2. \A i \in 2 .. n : InOrder(i)
    <3>1. k \in 2 .. n => argv[p].key <= argv[k].key
      BY <1>1, <1>2, <1>3, PartType, Parent
    <3> QED  BY <1>1, <1>2, <3>1 DEF InOrder
  <2>3. HeapBut'
    BY <1>1, <2>1, <2>2 DEF HeapBut, InOrder, argc, heapParent, NoSift
  <2> QED  BY <2>1, <2>3 DEF Inv, SiftInward, TakenFirst, argc, BagOf
<1>4. CASE k # 1 /\ ~ (argv[p].key < argv[k].key)
  <2>1. argv' = Exchange(argv, k, p) /\ sift' = [sift EXCEPT !.at = p]
    BY <1>1, <1>4 DEF SiftInward
  <2>2. k \in 2 .. n /\ p \in 1 .. n /\ p < k /\ p \in Nat
    BY <1>1, <1>2, <1>4, Parent
  <2>3. /\ argv' \in Seq(Part) /\ argc' = n /\ argv'[p] = argv[k] /\ argv'[k] = argv[p]
        /\ \A i \in 1 .. n : i \notin {k, p} => argv'[i] = argv[i]
        /\ size' \in Nat \ {0} /\ argc' <= size' /\ BagOf(argv)' = content' /\ TakenFirst'
    BY <1>1, <1>2, <2>1, <2>2, Exchanged DEF SiftInward
  <2>4. sift' = [dir |-> "inward", at |-> p]
    BY <2>1 DEF SiftInward, Inv, NoSift
  <2>5. \A i \in 1 .. n : argv[i].key \in Int
    BY <1>1, PartType
  <2>6. argv[k].key <= argv[p].key
    BY <1>2, <1>4, <2>2, <2>5
  <2>7. ASSUME NEW i \in 2 .. n, i # p  PROVE argv'[heapParent(i)].key <= argv'[i].key
    <3>1. heapParent(i) \in 1 .. n /\ heapParent(i) < i
      BY <1>2, Parent
    <3>2. CASE i = k
      BY <1>1, <2>3, <2>6, <3>2
    <3>3. CASE i # k /\ heapParent(i) = p
      <4>1. argv[p].key <= argv[i].key
        BY <1>2, <3>3 DEF InOrder
      <4>2. argv'[i] = argv[i] /\ argv'[heapParent(i)] = argv[k]
        BY <2>3, <2>7, <3>3
      <4>3. argv[k].key \in Int /\ argv[p].key \in Int /\ argv[i].key \in Int
        BY <2>2, <2>5
      <4> QED  BY <2>6, <4>1, <4>2, <4>3
    <3>4. CASE i # k /\ heapParent(i) = k
      <4>1. argv[p].key <= argv[i].key
        BY <1>1, <1>2, <1>4, <3>4 DEF Passable
      <4> QED  BY <2>3, <2>7, <3>4, <4>1
    <3>5. CASE i # k /\ heapParent(i) \notin {p, k}
      <4>1. argv[heapParent(i)].key <= argv[i].key
        BY <1>2, <3>5 DEF InOrder
      <4> QED  BY <2>3, <2>7, <3>1, <3>5, <4>1
    <3> QED  BY <3>2, <3>3, <3>4, <3>5
  <2>8. ASSUME NEW i \in 2 .. n, heapParent(i) = p, p > 1
        PROVE  argv'[heapParent(p)].key <= argv'[i].key
    <3>1. p \in 2 .. n /\ heapParent(p) \in 1 .. n /\ heapParent(p) < p /\ p < i /\ heapParent(p) \in Nat
      BY <1>2, <2>2, <2>8, Parent
    <3>2. argv'[heapParent(p)] = argv[heapParent(p)] /\ argv[heapParent(p)].key <= argv[p].key
      BY <1>2, <2>2, <2>3, <3>1 DEF InOrder
    <3>3. CASE i = k
      BY <2>3, <3>2, <3>3
    <3>4. CASE i # k
      <4>1. argv[p].key <= argv[i].key /\ argv'[i] = argv[i]
        BY <1>2, <2>3, <2>8, <3>1, <3>4 DEF InOrder
      <4> QED  BY <2>5, <3>1, <3>2, <4>1
    <3> QED  BY <3>3, <3>4
  <2>9. HeapBut'
    BY <2>2, <2>3, <2>4, <2>7, <2>8 DEF HeapBut, InOrder, Passable, heapParent
  <2> QED  BY <2>2, <2>3, <2>4, <2>9 DEF Inv
<1> QED  BY <1>3, <1>4

\* Imax: the least of a part and its children.
LEMMA ImaxLeast ==
    ASSUME Inv, NEW i \in 1 .. argc
    PROVE  /\ Imax(i) \in 1 .. argc
           /\ Imax(i) # i => Imax(i) \in 2 .. argc /\ heapParent(Imax(i)) = i
           /\ argv[Imax(i)].key <= argv[i].key
           /\ \A c \in 2 .. argc : heapParent(c) = i => argv[Imax(i)].key <= argv[c].key
<1> PICK n, l, r, m : n = argc /\ l = heapLeft(i) /\ r = heapRight(i) /\ m = Lesser(l, i)
  OBVIOUS
<1>1. n \in Nat /\ \A k \in 1 .. n : argv[k].key \in Int
  BY PartType
<1>2. /\ l \in Nat /\ l > i /\ heapParent(l) = i
      /\ r \in Nat /\ r > i /\ heapParent(r) = i
  BY <1>1, Children
<1>3. /\ m \in {l, i} /\ m \in 1 .. n
      /\ argv[m].key <= argv[i].key
      /\ l <= n => argv[m].key <= argv[l].key
  BY <1>1, <1>2 DEF Lesser
<1>4. /\ Imax(i) \in {m, r} /\ Imax(i) \in 1 .. n
      /\ argv[Imax(i)].key <= argv[m].key
      /\ r <= n => argv[Imax(i)].key <= argv[r].key
  <2>1. Imax(i) = IF r <= n /\ argv[r].key <= argv[m].key THEN r ELSE m
    BY DEF Imax, Lesser
  <2> QED  BY <1>1, <1>2, <1>3, <2>1
<1>5. ASSUME NEW c \in 2 .. n, heapParent(c) = i  PROVE c \in {l, r}
  BY <1>1, <1>5, Parent
<1>6. PICK x : x = Imax(i)
  OBVIOUS
<1>7. ASSUME NEW c \in 2 .. n, heapParent(c) = i  PROVE argv[x].key <= argv[c].key
  <2>1. c = l \/ c = r
    BY <1>5, <1>7
  <2>2. argv[x].key \in Int /\ argv[m].key \in Int /\ argv[c].key \in Int
    BY <1>1, <1>3, <1>4, <1>6
  <2> QED  BY <1>3, <1>4, <1>6, <2>1, <2>2
<1>8. argv[x].key <= argv[i].key
  <2>1. argv[x].key \in Int /\ argv[m].key \in Int /\ argv[i].key \in Int
    BY <1>1, <1>3, <1>4, <1>6
  <2> QED  BY <1>3, <1>4, <1>6, <2>1
<1> QED  BY <1>1, <1>2, <1>3, <1>4, <1>6, <1>7, <1>8

\* heapSiftOutward.
LEMMA InvOutward == ASSUME Inv, SiftOutward  PROVE Inv'
<1>1. PICK n, k, m : n = argc /\ k = sift.at /\ m = Imax(k)
  OBVIOUS
<1>2. n \in Nat /\ n = argc /\ sift.dir = "outward"
  BY <1>1, PartType DEF SiftOutward
<1>3. CASE n = 0
  <2>1. sift' = NoSift /\ argv' = argv
    BY <1>1, <1>3 DEF SiftOutward
  <2>2. argc' = 0
    BY <1>2, <1>3, <2>1 DEF argc
  <2>3. 2 .. 0 = {}
    OBVIOUS
  <2>4. argc' = 0 /\ 2 .. argc' = {}
    BY <2>2, <2>3
  <2>5. HeapBut'
    BY <2>1, <2>4 DEF HeapBut, NoSift
  <2> QED  BY <2>1, <2>5 DEF Inv, SiftOutward, TakenFirst, argc, BagOf
<1>4. CASE n # 0
  <2>1. /\ k \in 1 .. n
        /\ \A i \in 2 .. n : heapParent(i) # k => InOrder(i)
        /\ Passable(k)
    BY <1>1, <1>2, <1>4 DEF Inv, HeapBut
  <2>2. /\ m \in 1 .. n /\ (m # k => m \in 2 .. n /\ heapParent(m) = k)
        /\ argv[m].key <= argv[k].key
        /\ \A c \in 2 .. n : heapParent(c) = k => argv[m].key <= argv[c].key
    BY <1>1, <2>1, ImaxLeast
  <2>3. CASE m = k
    <3>1. sift' = NoSift /\ argv' = argv
      BY <1>1, <2>3 DEF SiftOutward
    <3>2. \A i \in 2 .. n : InOrder(i)
      BY <2>1, <2>2, <2>3 DEF InOrder
    <3>3. HeapBut'
      BY <1>1, <3>1, <3>2 DEF HeapBut, InOrder, argc, heapParent, NoSift
    <3> QED  BY <3>1, <3>3 DEF Inv, SiftOutward, TakenFirst, argc, BagOf
  <2>4. CASE m # k
    <3>1. argv' = Exchange(argv, k, m) /\ sift' = [sift EXCEPT !.at = m]
      BY <1>1, <1>4, <2>4 DEF SiftOutward
    <3>2. m \in 2 .. n /\ heapParent(m) = k /\ k < m /\ m \in Nat /\ k \in Nat
      BY <1>2, <2>1, <2>2, <2>4, Parent
    <3>3. /\ argv' \in Seq(Part) /\ argc' = n /\ argv'[m] = argv[k] /\ argv'[k] = argv[m]
          /\ \A i \in 1 .. n : i \notin {k, m} => argv'[i] = argv[i]
          /\ size' \in Nat \ {0} /\ argc' <= size' /\ BagOf(argv)' = content' /\ TakenFirst'
      BY <1>1, <2>1, <2>2, <3>1, Exchanged DEF SiftOutward
    <3>4. sift' = [dir |-> "outward", at |-> m]
      BY <1>2, <3>1 DEF Inv, NoSift
    <3>5. ASSUME NEW i \in 2 .. n, heapParent(i) # m
          PROVE  argv'[heapParent(i)].key <= argv'[i].key
      <4>1. heapParent(i) \in 1 .. n /\ heapParent(i) < i /\ heapParent(i) \in Nat
        BY <1>2, Parent
      <4>2. CASE i = m
        BY <2>2, <3>2, <3>3, <4>2
      <4>3. CASE i = k
        <5>1. argv[heapParent(k)].key <= argv[m].key
          BY <2>1, <3>2, <4>3, <1>1 DEF Passable
        <5>2. heapParent(k) \notin {k, m}
          BY <3>2, <3>5, <4>1, <4>3
        <5> QED  BY <3>3, <4>1, <4>3, <5>1, <5>2
      <4>4. CASE i \notin {k, m} /\ heapParent(i) = k
        BY <2>2, <3>3, <4>4
      <4>5. CASE i \notin {k, m} /\ heapParent(i) # k
        <5>1. argv[heapParent(i)].key <= argv[i].key
          BY <2>1, <4>5 DEF InOrder
        <5> QED  BY <3>3, <3>5, <4>1, <4>5, <5>1
      <4> QED  BY <4>2, <4>3, <4>4, <4>5
    <3>6. ASSUME NEW i \in 2 .. n, heapParent(i) = m
          PROVE  argv'[heapParent(m)].key <= argv'[i].key
      <4>1. i > m /\ i \notin {k, m}
        BY <1>2, <3>2, <3>6, Parent
      <4>2. argv[m].key <= argv[i].key
        BY <2>1, <3>2, <3>6 DEF InOrder
      <4> QED  BY <3>2, <3>3, <4>1, <4>2
    <3>7. HeapBut'
      BY <3>2, <3>3, <3>4, <3>5, <3>6 DEF HeapBut, InOrder, Passable, heapParent
    <3> QED  BY <3>2, <3>3, <3>4, <3>7 DEF Inv
  <2> QED  BY <2>3, <2>4
<1> QED  BY <1>3, <1>4

-----------------------------------------------------------------------------
(* Theorems.                                                               *)

\* Every step keeps the invariant.
LEMMA InvStep == Inv /\ [PriqNext]_priqVars => Inv'
<1> SUFFICES ASSUME Inv, [PriqNext]_priqVars  PROVE Inv'
  OBVIOUS
<1>1. CASE UNCHANGED priqVars
  BY <1>1 DEF priqVars, Inv, HeapBut, InOrder, Passable, TakenFirst, argc, BagOf, heapParent
<1> QED  BY <1>1, InvInsert, InvExtractMin, InvInward, InvOutward DEF PriqNext

\* The invariant holds always, in the middle of a sift too.
THEOREM InvCorrect == PriqSpec => []Inv
  BY InitInv, InvStep, PTL DEF PriqSpec

\* A heap of different keys passes heapCheck.
LEMMA InvChecked ==
    ASSUME Inv, sift = NoSift, DifferentKeys
    PROVE  heapCheck
<1> SUFFICES ASSUME NEW i \in 2 .. argc
             PROVE  ~ (argv[heapParent(i)].key >= argv[i].key)
  BY DEF heapCheck
<1>1. PICK n \in Nat : n = argc /\ \A k \in 1 .. n : argv[k].key \in Int
  BY PartType
<1>2. PICK p : p = heapParent(i)
  OBVIOUS
<1>3. i \in 1 .. n /\ p \in 1 .. n /\ p # i
  BY <1>1, <1>2, Parent
<1>4. argv[p].key # argv[i].key
  BY <1>1, <1>3 DEF DifferentKeys
<1>5. argv[p].key <= argv[i].key
  BY <1>2 DEF Inv, HeapBut, InOrder, NoSift
<1>6. argv[p].key \in Int /\ argv[i].key \in Int
  BY <1>1, <1>3
<1> QED  BY <1>2, <1>4, <1>5, <1>6

\* Between calls the parts fit, are what was put in and not taken out, and what
\* was taken out last had the least key; the queue's own check finds nothing
\* when the keys differ.
THEOREM LeastCorrect == PriqSpec => []LeastFirst
<1>1. Inv => LeastFirst
  BY InvChecked DEF Inv, TakenFirst, LeastFirst
<1> QED  BY <1>1, InvCorrect, PTL
=============================================================================
