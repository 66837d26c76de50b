-------------------------- MODULE DomainRepProofs --------------------------
(***************************************************************************)
(* Proofs about DomainRep, for every set of programs: that the count of    *)
(* look-ups is right, also after an ERROR, and that no domain's table is   *)
(* opened before its hash code is there, nor its body run twice.           *)
(*                                                                         *)
(* What is still to be done is a sequence of tasks; every step takes off   *)
(* the first and puts others in front of the rest, or an ERROR drops them  *)
(* all.  Both properties count tasks of a kind, so that the lemmas on      *)
(* counting come first.                                                    *)
(***************************************************************************)
EXTENDS DomainRep, FiniteSetTheorems, SequenceTheorems, TLAPS

-----------------------------------------------------------------------------
(* Counting in sequences.                                                  *)

At(s, T) == {i \in DOMAIN s : s[i] \in T}
Count(s, T) == Cardinality(At(s, T))

\* The places are finitely many.
LEMMA CountType ==
    ASSUME NEW S, NEW s \in Seq(S), NEW T
    PROVE  IsFiniteSet(At(s, T)) /\ Count(s, T) \in Nat
<1>1. At(s, T) \in SUBSET (1 .. Len(s)) /\ Len(s) \in Nat
  BY LenProperties DEF At
<1>2. IsFiniteSet(1 .. Len(s))
  BY <1>1, FS_Interval
<1>3. IsFiniteSet(At(s, T))
  BY <1>1, <1>2, FS_Subset
<1> QED  BY <1>3, FS_CardinalityType DEF Count

\* A count is of nothing exactly if no place has it.
LEMMA CountNone ==
    ASSUME NEW S, NEW s \in Seq(S), NEW T
    PROVE  Count(s, T) = 0 <=> \A i \in 1 .. Len(s) : s[i] \notin T
<1>1. Count(s, T) = 0 <=> At(s, T) = {}
  BY CountType, FS_EmptySet DEF Count
<1> QED  BY <1>1, LenProperties DEF At

\* The count of two sequences one after the other.
LEMMA CountConcat ==
    ASSUME NEW S, NEW s \in Seq(S), NEW t \in Seq(S), NEW T
    PROVE  Count(s \o t, T) = Count(s, T) + Count(t, T)
<1> DEFINE n == Len(s)
           after == {n + i : i \in At(t, T)}
<1>1. n \in Nat /\ DOMAIN s = 1 .. n /\ DOMAIN t = 1 .. Len(t) /\ Len(t) \in Nat
  BY LenProperties
<1>2. /\ s \o t \in Seq(S) /\ DOMAIN (s \o t) = 1 .. n + Len(t)
      /\ \A i \in 1 .. n + Len(t) : (s \o t)[i] = IF i <= n THEN s[i] ELSE t[i - n]
  <2>1. s \o t \in Seq(S) /\ Len(s \o t) = n + Len(t)
    BY ConcatProperties
  <2>2. DOMAIN (s \o t) = 1 .. Len(s \o t)
    BY <2>1, LenProperties
  <2> QED  BY <2>1, <2>2, ConcatProperties
<1> HIDE DEF n
<1>3. At(s \o t, T) = At(s, T) \cup after
  <2>1. ASSUME NEW i \in At(s \o t, T)  PROVE i \in At(s, T) \cup after
    <3>1. CASE i <= n
      BY <1>1, <1>2, <2>1, <3>1 DEF At
    <3>2. CASE i > n
      <4>1. i - n \in 1 .. Len(t) /\ t[i - n] \in T
        BY <1>1, <1>2, <2>1, <3>2 DEF At
      <4>2. i - n \in At(t, T)
        BY <1>1, <4>1 DEF At
      <4>3. i = n + (i - n)
        BY <1>1, <1>2, <2>1 DEF At
      <4> QED  BY <4>2, <4>3
    <3> QED  BY <1>1, <1>2, <2>1, <3>1, <3>2 DEF At
  <2>2. ASSUME NEW i \in At(s, T)  PROVE i \in At(s \o t, T)
    BY <1>1, <1>2, <2>2 DEF At
  <2>3. ASSUME NEW i \in At(t, T)  PROVE n + i \in At(s \o t, T)
    BY <1>1, <1>2, <2>3 DEF At
  <2> QED  BY <2>1, <2>2, <2>3
<1>4. At(s, T) \cap after = {}
  BY <1>1 DEF At
<1>5. IsFiniteSet(At(s, T)) /\ IsFiniteSet(At(t, T))
  BY CountType
<1>6. IsFiniteSet(after) /\ Cardinality(after) = Cardinality(At(t, T))
  <2> DEFINE shift == [i \in At(t, T) |-> n + i]
  <2>1. shift \in [At(t, T) -> after]
    OBVIOUS
  <2>2. \A i, j \in At(t, T) : shift[i] = shift[j] => i = j
    BY <1>1 DEF At
  <2>3. \A k \in after : \E i \in At(t, T) : shift[i] = k
    OBVIOUS
  <2>4. shift \in Bijection(At(t, T), after)
    BY <2>1, <2>2, <2>3 DEF Bijection, Injection, Surjection, IsInjective
  <2> QED  BY <1>5, <2>4, FS_Bijection DEF ExistsBijection
<1>7. Cardinality(At(s, T) \cup after)
          = Cardinality(At(s, T)) + Cardinality(after) - Cardinality(At(s, T) \cap after)
  BY <1>5, <1>6, FS_Union
<1>8. Count(s, T) \in Nat /\ Count(t, T) \in Nat
  BY CountType
<1>9. Cardinality(At(s, T) \cap after) = 0
  BY <1>4, FS_EmptySet
<1>10. Count(s \o t, T) = Cardinality(At(s, T) \cup after)
  BY <1>3 DEF Count
<1> HIDE DEF after
<1>11. PICK a, b : a = Cardinality(At(s, T)) /\ b = Cardinality(after)
  OBVIOUS
<1>12. a \in Nat /\ b \in Nat /\ Count(s, T) = a /\ Count(t, T) = b
  BY <1>6, <1>8, <1>11 DEF Count
<1>13. Count(s \o t, T) = a + b - 0
  BY <1>7, <1>9, <1>10, <1>11
<1> QED  BY <1>12, <1>13

\* The count of one thing.
LEMMA CountOne ==
    ASSUME NEW x, NEW T
    PROVE  Count(<<x>>, T) = IF x \in T THEN 1 ELSE 0
<1>1. DOMAIN <<x>> = {1} /\ <<x>>[1] = x
  OBVIOUS
<1>2. CASE x \in T
  <2>1. At(<<x>>, T) = {1}
    BY <1>1, <1>2 DEF At
  <2> QED  BY <1>2, <2>1, FS_Singleton DEF Count
<1>3. CASE x \notin T
  <2>1. At(<<x>>, T) = {}
    BY <1>1, <1>3 DEF At
  <2> QED  BY <1>3, <2>1, FS_EmptySet DEF Count
<1> QED  BY <1>2, <1>3

\* The count of a sequence and of what is behind its head.
LEMMA CountHead ==
    ASSUME NEW S, NEW s \in Seq(S), s # <<>>, NEW T
    PROVE  Count(s, T) = (IF Head(s) \in T THEN 1 ELSE 0) + Count(Tail(s), T)
<1>1. Head(s) \in S /\ Tail(s) \in Seq(S) /\ <<Head(s)>> \in Seq(S)
  BY HeadTailProperties
<1>2. s = <<Head(s)>> \o Tail(s)
  <2>1. /\ <<Head(s)>> \o Tail(s) \in Seq(S)
        /\ Len(<<Head(s)>> \o Tail(s)) = 1 + Len(Tail(s))
        /\ \A i \in 1 .. 1 + Len(Tail(s)) : (<<Head(s)>> \o Tail(s))[i] =
              IF i <= 1 THEN <<Head(s)>>[i] ELSE Tail(s)[i - 1]
    BY <1>1, ConcatProperties
  <2>2. /\ Len(s) \in Nat \ {0} /\ Len(Tail(s)) = Len(s) - 1 /\ Head(s) = s[1]
        /\ \A i \in 1 .. Len(s) - 1 : Tail(s)[i] = s[i + 1]
    BY <1>1, EmptySeq, HeadTailProperties
  <2>3. ASSUME NEW i \in 1 .. Len(s)  PROVE s[i] = (<<Head(s)>> \o Tail(s))[i]
    <3>1. CASE i = 1
      BY <2>1, <2>2, <3>1
    <3>2. CASE i # 1
      BY <2>1, <2>2, <3>2
    <3> QED  BY <3>1, <3>2
  <2> QED  BY <2>1, <2>2, <2>3, SeqEqual
<1>3. PICK h, t : h = <<Head(s)>> /\ t = Tail(s)
  OBVIOUS
<1>4. Count(h \o t, T) = Count(h, T) + Count(t, T)
  BY <1>1, <1>3, CountConcat
<1> QED  BY <1>2, <1>3, <1>4, CountOne

\* The count after a step that puts "new" in place of the head.
LEMMA CountStep ==
    ASSUME NEW S, NEW s \in Seq(S), s # <<>>, NEW new \in Seq(S), NEW T
    PROVE  Count(new \o Tail(s), T)
               = Count(new, T) + Count(s, T) - (IF Head(s) \in T THEN 1 ELSE 0)
<1>1. PICK t \in Seq(S) : t = Tail(s)
  BY HeadTailProperties
<1>2. Count(new \o t, T) = Count(new, T) + Count(t, T)
  BY CountConcat
<1>3. Count(s, T) = (IF Head(s) \in T THEN 1 ELSE 0) + Count(t, T)
  BY <1>1, CountHead
<1>4. Count(new, T) \in Nat /\ Count(t, T) \in Nat
  BY CountType
<1> QED  BY <1>1, <1>2, <1>3, <1>4

\* Where the elements are after such a step.
LEMMA StepPlaces ==
    ASSUME NEW S, NEW s \in Seq(S), s # <<>>, NEW new \in Seq(S),
           NEW u, u = new \o Tail(s)
    PROVE  /\ u \in Seq(S) /\ Len(u) = Len(new) + Len(s) - 1
           /\ \A i \in 1 .. Len(new) : i \in 1 .. Len(u) /\ u[i] = new[i]
           /\ \A i \in 2 .. Len(s) : Len(new) + i - 1 \in 1 .. Len(u) /\ u[Len(new) + i - 1] = s[i]
           /\ \A i \in 1 .. Len(u) : i > Len(new) =>
                 i - Len(new) + 1 \in 2 .. Len(s) /\ u[i] = s[i - Len(new) + 1]
           /\ s[1] = Head(s) /\ 1 \in 1 .. Len(s)
<1>1. PICK t \in Seq(S) :
         t = Tail(s) /\ Len(t) = Len(s) - 1 /\ \A i \in 1 .. Len(t) : t[i] = s[i + 1]
  BY HeadTailProperties
<1>2. Len(s) \in Nat \ {0} /\ Len(new) \in Nat
  BY EmptySeq, LenProperties
<1>3. /\ u \in Seq(S) /\ Len(u) = Len(new) + Len(t)
      /\ \A i \in 1 .. Len(new) + Len(t) : u[i] = IF i <= Len(new) THEN new[i] ELSE t[i - Len(new)]
  BY <1>1, ConcatProperties
<1>4. PICK n, k : n = Len(new) /\ k = Len(s)
  OBVIOUS
<1>5. ASSUME NEW i \in 2 .. k
      PROVE  n + i - 1 \in 1 .. Len(u) /\ u[n + i - 1] = s[i]
  <2>1. n + i - 1 \in 1 .. n + Len(t) /\ ~ (n + i - 1 <= n) /\ (n + i - 1) - n = i - 1
    BY <1>1, <1>2, <1>4
  <2>2. i - 1 \in 1 .. Len(t) /\ (i - 1) + 1 = i
    BY <1>1, <1>2, <1>4
  <2>3. u[n + i - 1] = t[i - 1] /\ t[i - 1] = s[i]
    BY <1>1, <1>3, <1>4, <2>1, <2>2
  <2> QED  BY <1>3, <1>4, <2>1, <2>3
<1>6. ASSUME NEW i \in 1 .. Len(u), i > n
      PROVE  i - n + 1 \in 2 .. k /\ u[i] = s[i - n + 1]
  <2>1. i - n \in 1 .. Len(t) /\ i - n + 1 \in 2 .. k /\ ~ (i <= n)
    BY <1>1, <1>2, <1>3, <1>4, <1>6
  <2> QED  BY <1>1, <1>3, <1>4, <2>1
<1>7. s[1] = Head(s)
  OBVIOUS
<1> QED  BY <1>1, <1>2, <1>3, <1>4, <1>5, <1>6, <1>7

-----------------------------------------------------------------------------
(* The shape of the records and of what is to be done.                     *)

Whats == {"prepareHash", "build", "getHash", "firstHash", "hashed", "expand", "built", "need"}
Lookings == {"getExport", "testExport", "get", "own", "endget", "defaults", "parents",
             "extendees", "force", "define"}
TaskType ==
    [do : Whats, rep : Nat]
    \cup [do : Lookings, rep : Nat, exp : Exp, skip : BOOLEAN]
RepType ==
    [dom : Nat, orig : Nat \cup {None}, child : Nat \cup {None}, hashed : BOOLEAN,
     opened : BOOLEAN, built : BOOLEAN, exports : SUBSET Exp, defaults : SUBSET Exp,
     parents : Seq(Nat), extendees : Seq(Nat), ngets : Nat]

Doms == DOMAIN prog.base
Recs == 1 .. Len(reps)

\* A record that is made from an original has one, and a child.
RecordOk(r) ==
    /\ reps[r].dom \in Doms
    /\ reps[r].orig # None => reps[r].orig \in Recs /\ reps[r].child \in Recs
    /\ \A i \in 1 .. Len(reps[r].parents) : reps[r].parents[i] \in Recs
    /\ \A i \in 1 .. Len(reps[r].extendees) : reps[r].extendees[i] \in Recs

\* A task is about a record that is there, and only copies are expanded.
TaskOk(t) == t.rep \in Recs /\ (t.do = "expand" => reps[t.rep].orig # None)

Shape ==
    /\ \E n \in Dom : prog \in Program(1 .. n)
    /\ reps \in Seq(RepType)
    /\ todo \in Seq(TaskType)
    /\ left \in Seq(Nat) /\ Len(left) = Len(reps)
    /\ Doms \subseteq Recs
    /\ \A r \in Recs : RecordOk(r)
    /\ \A i \in 1 .. Len(todo) : TaskOk(todo[i])

\* What a program has for its domains.
LEMMA ProgramType ==
    ASSUME Shape
    PROVE  /\ Doms \subseteq Nat
           /\ prog.base \in [Doms -> Doms \cup {None}]
           /\ prog.defaults \in [Doms -> SUBSET Exp]
           /\ prog.hashing \in [Doms -> Seq(Statement(Doms))]
           /\ prog.body \in [Doms -> Seq(Statement(Doms))]
           /\ prog.extends \in [Doms -> Seq(Doms)]
<1>1. PICK n \in Dom : prog \in Program(1 .. n)
  BY DEF Shape
<1>2. Doms = 1 .. n
  BY <1>1 DEF Program, Doms
<1> QED  BY <1>1, <1>2 DEF Program, Dom

\* The first task.
LEMMA TopType ==
    ASSUME Shape, todo # <<>>
    PROVE  /\ Top \in TaskType /\ TaskOk(Top) /\ Top.rep \in Recs /\ Top.rep \in Nat
           /\ RecordOk(Top.rep) /\ reps[Top.rep] \in RepType
           /\ Top.do \in Lookings => Top.exp \in Exp /\ Top.skip \in BOOLEAN
<1>1. Top \in TaskType /\ Top = todo[1] /\ 1 \in 1 .. Len(todo)
  BY StepPlaces, HeadTailProperties, EmptySeq DEF Shape, Top
<1>2. TaskOk(Top) /\ Top.rep \in Recs
  BY <1>1 DEF Shape, TaskOk
<1>3. Top.rep \in Nat /\ (Top.do \in Lookings => Top.exp \in Exp /\ Top.skip \in BOOLEAN)
  BY <1>1 DEF TaskType, Whats, Lookings
<1>4. reps[Top.rep] \in RepType
  BY <1>2, LenProperties DEF Shape, Recs
<1> QED  BY <1>1, <1>2, <1>3, <1>4 DEF Shape

\* The records.
LEMMA RecType ==
    ASSUME Shape, NEW r \in Recs
    PROVE  reps[r] \in RepType /\ reps[r].ngets \in Nat /\ left[r] \in Nat /\ r \in Nat
<1>1. reps[r] \in RepType /\ left[r] \in Nat /\ r \in Nat
  BY LenProperties DEF Shape, Recs
<1> QED  BY <1>1 DEF RepType

\* What the code of a domain calls.
LEMMA CodeType ==
    ASSUME Shape, NEW r \in Recs, NEW st \in Seq(Statement(Doms))
    PROVE  /\ Code(r, st) \in Seq(TaskType)
           /\ \A i \in 1 .. Len(Code(r, st)) :
                 /\ Code(r, st)[i].do \in {"define", "getExport", "testExport", "getHash"}
                 /\ Code(r, st)[i].rep \in Recs
<1>1. r \in Nat /\ Doms \subseteq Nat /\ Doms \subseteq Recs
  BY ProgramType, LenProperties DEF Shape, Recs
<1>2. Len(st) \in Nat /\ DOMAIN st = 1 .. Len(st) /\ \A i \in 1 .. Len(st) : st[i] \in Statement(Doms)
  BY LenProperties
<1>3. ASSUME NEW s \in Statement(Doms)
      PROVE  /\ Task(r, s) \in TaskType /\ Task(r, s).rep \in Recs
             /\ Task(r, s).do \in {"define", "getExport", "testExport", "getHash"}
  <2>1. s.op \in Ops /\ s.exp \in Exp /\ (s.dom # Self => s.dom \in Doms)
    BY DEF Statement
  <2>2. PICK q \in Nat : q = (IF s.dom = Self THEN r ELSE s.dom) /\ q \in Recs
    BY <1>1, <2>1
  <2>3. CASE s.op = "define"
    BY <1>1, <2>1, <2>3 DEF Task, Look, TaskType, Lookings
  <2>4. CASE s.op = "get"
    BY <2>1, <2>2, <2>4 DEF Task, Look, TaskType, Lookings
  <2>5. CASE s.op = "test"
    BY <2>1, <2>2, <2>5 DEF Task, Look, TaskType, Lookings
  <2>6. CASE s.op = "hash"
    BY <2>1, <2>2, <2>6 DEF Task, Do, TaskType, Whats
  <2> QED  BY <2>1, <2>3, <2>4, <2>5, <2>6 DEF Ops
<1>4. Code(r, st) \in Seq(TaskType) /\ Len(Code(r, st)) = Len(st)
      /\ \A i \in 1 .. Len(st) : Code(r, st)[i] = Task(r, st[i])
  BY <1>2, <1>3 DEF Code
<1> QED  BY <1>2, <1>3, <1>4

-----------------------------------------------------------------------------
(* The invariant.                                                          *)

EndGets(r) == {t \in TaskType : t.do = "endget" /\ t.rep = r}
Builts(r) == {Do("built", r)}
HashTasks == {"prepareHash", "hashed", "expand"}

\* A table is built behind what puts its hash code there.
HashFirst ==
    \A i \in 1 .. Len(todo) : todo[i].do = "build" =>
        /\ ~IsExtend(todo[i].rep)
        /\ \/ reps[todo[i].rep].hashed
           \/ \E j \in 1 .. i - 1 : todo[j].rep = todo[i].rep /\ todo[j].do \in HashTasks

\* The body of a record is in progress at most once, while its table is open
\* and it is not yet built.
RunsOnce ==
    \A r \in Recs :
        /\ reps[r].opened => reps[r].hashed
        /\ reps[r].built => reps[r].opened
        /\ Count(todo, Builts(r)) <= (IF reps[r].opened /\ ~reps[r].built THEN 1 ELSE 0)

Balanced == \A r \in Recs : reps[r].ngets = Count(todo, EndGets(r)) + left[r]

Inv == Shape /\ HashFirst /\ RunsOnce /\ Balanced

\* The counts that the properties speak of.
LEMMA DepthIs ==
    ASSUME Shape, NEW r
    PROVE  Depth(r) = Count(todo, EndGets(r))
<1>1. DOMAIN todo = 1 .. Len(todo) /\ \A i \in 1 .. Len(todo) : todo[i] \in TaskType
  BY LenProperties DEF Shape
<1>2. {i \in DOMAIN todo : todo[i].do = "endget" /\ todo[i].rep = r} = At(todo, EndGets(r))
  BY <1>1 DEF At, EndGets
<1> QED  BY <1>2 DEF Depth, Count

\* The invariant means both properties.
LEMMA InvMeans == ASSUME Inv  PROVE NgetsBalanced /\ BuiltOnce
<1>1. DOMAIN reps = Recs /\ Shape
  BY LenProperties DEF Inv, Shape, Recs
<1>2. NgetsBalanced
  BY <1>1, DepthIs DEF NgetsBalanced, Inv, Balanced
<1>3. ASSUME NEW r \in Recs
      PROVE  Cardinality({i \in DOMAIN todo : todo[i] = Do("built", r)})
                 <= (IF reps[r].built THEN 0 ELSE 1)
  <2>1. {i \in DOMAIN todo : todo[i] = Do("built", r)} = At(todo, Builts(r))
    BY DEF At, Builts
  <2>2. Count(todo, Builts(r)) \in Nat
    BY <1>1, CountType DEF Shape
  <2>3. Cardinality({i \in DOMAIN todo : todo[i] = Do("built", r)}) = Count(todo, Builts(r))
    BY <2>1 DEF Count
  <2> QED  BY <2>2, <2>3 DEF Inv, RunsOnce
<1> QED  BY <1>1, <1>2, <1>3 DEF BuiltOnce, Inv, RunsOnce

-----------------------------------------------------------------------------
(* What a step may do to the records, and what it keeps then.              *)

\* Records are added, and what is there keeps its domain and its original.
Grown ==
    /\ prog' = prog
    /\ reps' \in Seq(RepType) /\ left' \in Seq(Nat)
    /\ Len(left') = Len(reps') /\ Len(reps') >= Len(reps)
    /\ \A r \in 1 .. Len(reps') : RecordOk(r)'
    /\ \A r \in Recs :
          /\ reps'[r].dom = reps[r].dom /\ reps'[r].orig = reps[r].orig
          /\ reps[r].hashed => reps'[r].hashed
    /\ \A r \in 1 .. Len(reps') : r \notin Recs =>
          /\ ~reps'[r].opened /\ ~reps'[r].built
          /\ reps'[r].ngets = 0 /\ left'[r] = 0

\* The counts are the same.
SameCounts == \A r \in Recs : reps'[r].ngets = reps[r].ngets /\ left'[r] = left[r]
SameBodies == \A r \in Recs : reps'[r].opened = reps[r].opened /\ reps'[r].built = reps[r].built

\* The shape is kept if the new tasks are about records that are there.
LEMMA ShapeKept ==
    ASSUME Shape, todo # <<>>, Grown, NEW new \in Seq(TaskType), todo' = new \o Rest,
           \A i \in 1 .. Len(new) : TaskOk(new[i])
    PROVE  /\ Shape'
           /\ \A i \in 1 .. Len(todo') : todo'[i].rep \in Recs
           /\ \A r \in Recs : IsExtend(r)' = IsExtend(r)
<1>1. /\ todo' \in Seq(TaskType)
      /\ \A i \in 1 .. Len(todo') : TaskOk(todo'[i])
  <2> PICK u : u = todo'
    OBVIOUS
  <2>1. u = new \o Tail(todo) /\ Len(new) \in Nat
    BY LenProperties DEF Rest
  <2>2. /\ u \in Seq(TaskType) /\ Len(u) \in Nat
        /\ \A i \in 1 .. Len(new) : i \in 1 .. Len(u) /\ u[i] = new[i]
        /\ \A i \in 1 .. Len(u) : i > Len(new) =>
                 i - Len(new) + 1 \in 2 .. Len(todo) /\ u[i] = todo[i - Len(new) + 1]
    BY <2>1, StepPlaces, LenProperties DEF Shape
  <2>3. ASSUME NEW i \in 1 .. Len(u)  PROVE TaskOk(u[i])
    <3>1. CASE i <= Len(new)
      BY <2>1, <2>2, <3>1
    <3>2. CASE i > Len(new)
      <4>1. i - Len(new) + 1 \in 1 .. Len(todo) /\ u[i] = todo[i - Len(new) + 1]
        BY <2>1, <2>2, <3>2
      <4> QED  BY <4>1 DEF Shape
    <3> QED  BY <2>1, <3>1, <3>2
  <2> QED  BY <2>2, <2>3
<1>2. Doms' = Doms /\ Recs \subseteq Recs' /\ Recs' = 1 .. Len(reps')
  BY LenProperties DEF Grown, Doms, Recs, Shape
<1>3. ASSUME NEW t, TaskOk(t)
      PROVE  t.rep \in Recs' /\ (t.do = "expand" => reps'[t.rep].orig # None)
  BY <1>2, <1>3 DEF TaskOk, Grown
<1>4. (\A i \in 1 .. Len(todo) : TaskOk(todo[i]))'
  BY <1>1, <1>3 DEF TaskOk
<1>5. \A r \in Recs : IsExtend(r)' = IsExtend(r)
  BY DEF IsExtend, Grown
<1>6. Shape'
  BY <1>1, <1>2, <1>4 DEF Shape, Grown
<1> QED  BY <1>1, <1>5, <1>6 DEF TaskOk

\* Tables are still built behind what puts the hash code there, if the step has
\* put it there or has left something to do so.
LEMMA HashKept ==
    ASSUME Shape, HashFirst, todo # <<>>, Grown, NEW new \in Seq(TaskType), todo' = new \o Rest,
           \A i \in 1 .. Len(new) : TaskOk(new[i]),
           \A i \in 1 .. Len(new) : new[i].do = "build" =>
              /\ ~IsExtend(new[i].rep)
              /\ \E j \in 1 .. i - 1 : new[j].rep = new[i].rep /\ new[j].do \in HashTasks,
           Top.do \in HashTasks /\ ~IsExtend(Top.rep) =>
              \/ reps'[Top.rep].hashed
              \/ \E j \in 1 .. Len(new) : new[j].rep = Top.rep /\ new[j].do \in HashTasks
    PROVE  HashFirst'
<1> PICK u : u = todo'
  OBVIOUS
<1> DEFINE n == Len(new)
<1>1. u = new \o Tail(todo) /\ n \in Nat /\ Len(todo) \in Nat
  BY LenProperties DEF Rest, Shape
<1>2. /\ u \in Seq(TaskType) /\ Len(u) \in Nat
      /\ \A i \in 1 .. n : i \in 1 .. Len(u) /\ u[i] = new[i]
      /\ \A i \in 2 .. Len(todo) : n + i - 1 \in 1 .. Len(u) /\ u[n + i - 1] = todo[i]
      /\ \A i \in 1 .. Len(u) : i > n => i - n + 1 \in 2 .. Len(todo) /\ u[i] = todo[i - n + 1]
      /\ todo[1] = Top
  BY <1>1, StepPlaces, LenProperties DEF Shape, Top
<1> HIDE DEF n
<1>3. ASSUME NEW i \in 1 .. Len(u), u[i].do = "build"
      PROVE  /\ ~IsExtend(u[i].rep)' /\ u[i].rep \in Recs
             /\ \/ reps'[u[i].rep].hashed
                \/ \E j \in 1 .. i - 1 : u[j].rep = u[i].rep /\ u[j].do \in HashTasks
  <2>1. u[i].rep \in Recs /\ IsExtend(u[i].rep)' = IsExtend(u[i].rep)
    BY ShapeKept
  <2>2. CASE i <= n
    <3>1. i \in 1 .. n /\ u[i] = new[i]
      BY <1>1, <1>2, <2>2
    <3>2. PICK j \in 1 .. i - 1 : new[j].rep = new[i].rep /\ new[j].do \in HashTasks
      BY <1>3, <3>1 DEF n
    <3>3. j \in 1 .. n
      BY <1>1, <3>1
    <3> QED  BY <1>2, <1>3, <2>1, <3>1, <3>2, <3>3 DEF n
  <2>3. CASE i > n
    <3>1. PICK k \in 2 .. Len(todo) : k = i - n + 1 /\ u[i] = todo[k]
      BY <1>2, <2>3
    <3>2. /\ ~IsExtend(u[i].rep)
          /\ \/ reps[u[i].rep].hashed
             \/ \E j \in 1 .. k - 1 : todo[j].rep = u[i].rep /\ todo[j].do \in HashTasks
      <4>1. k \in 1 .. Len(todo) /\ todo[k].do = "build"
        BY <1>1, <1>3, <3>1
      <4> QED  BY <3>1, <4>1 DEF HashFirst
    <3>3. CASE reps[u[i].rep].hashed
      BY <2>1, <3>2, <3>3 DEF Grown
    <3>4. ASSUME NEW j \in 1 .. k - 1, todo[j].rep = u[i].rep, todo[j].do \in HashTasks
          PROVE  \/ reps'[u[i].rep].hashed
                 \/ \E m \in 1 .. i - 1 : u[m].rep = u[i].rep /\ u[m].do \in HashTasks
      <4>1. CASE j = 1
        <5>1. CASE reps'[Top.rep].hashed
          BY <1>2, <3>4, <4>1, <5>1
        <5>2. ASSUME NEW m \in 1 .. n, new[m].rep = Top.rep, new[m].do \in HashTasks
              PROVE  \E l \in 1 .. i - 1 : u[l].rep = u[i].rep /\ u[l].do \in HashTasks
          <6>1. m \in 1 .. i - 1 /\ u[m] = new[m]
            BY <1>1, <1>2, <2>3
          <6> QED  BY <1>2, <3>4, <4>1, <5>2, <6>1
        <5> QED  BY <1>2, <3>2, <3>4, <4>1, <5>1, <5>2 DEF n
      <4>2. CASE j # 1
        <5>1. j \in 2 .. Len(todo) /\ n + j - 1 \in 1 .. i - 1
          BY <1>1, <1>2, <3>1, <4>2
        <5>2. u[n + j - 1] = todo[j]
          BY <1>2, <5>1
        <5> QED  BY <3>4, <5>1, <5>2
      <4> QED  BY <4>1, <4>2
    <3> QED  BY <2>1, <3>2, <3>3, <3>4
  <2>4. i <= n \/ i > n
    BY <1>1, <1>2
  <2> QED  BY <2>2, <2>3, <2>4
<1> QED  BY <1>3 DEF HashFirst

\* How the counts move.
LEMMA CountsMove ==
    ASSUME Shape, todo # <<>>, Grown, NEW new \in Seq(TaskType), todo' = new \o Rest,
           \A i \in 1 .. Len(new) : TaskOk(new[i])
    PROVE  /\ \A T : Count(todo', T)
                         = Count(new, T) + Count(todo, T) - (IF Top \in T THEN 1 ELSE 0)
           /\ \A r : r \notin Recs =>
                 Count(todo', EndGets(r)) = 0 /\ Count(todo', Builts(r)) = 0
<1>1. todo' = new \o Tail(todo) /\ Top = Head(todo) /\ todo \in Seq(TaskType)
  BY DEF Rest, Top, Shape
<1>2. ASSUME NEW T
      PROVE  Count(todo', T) = Count(new, T) + Count(todo, T) - (IF Top \in T THEN 1 ELSE 0)
  BY <1>1, CountStep
<1>3. ASSUME NEW r, r \notin Recs
      PROVE  Count(todo', EndGets(r)) = 0 /\ Count(todo', Builts(r)) = 0
  <2>1. todo' \in Seq(TaskType) /\ \A i \in 1 .. Len(todo') : todo'[i].rep \in Recs
    BY ShapeKept DEF Shape
  <2>2. \A i \in 1 .. Len(todo') : todo'[i] \notin EndGets(r) /\ todo'[i] \notin Builts(r)
    BY <1>3, <2>1 DEF EndGets, Builts, Do
  <2> QED  BY <2>1, <2>2, CountNone
<1> QED  BY <1>2, <1>3

\* Nothing that is counted is added or taken off.
LEMMA NoneCounted ==
    ASSUME NEW new \in Seq(TaskType), NEW r, NEW what \in {"endget", "built"},
           \A i \in 1 .. Len(new) : new[i].do # what
    PROVE  /\ what = "endget" => Count(new, EndGets(r)) = 0
           /\ what = "built" => Count(new, Builts(r)) = 0
<1>1. what = "endget" => \A i \in 1 .. Len(new) : new[i] \notin EndGets(r)
  BY DEF EndGets
<1>2. what = "built" => \A i \in 1 .. Len(new) : new[i] \notin Builts(r)
  BY DEF Builts, Do
<1> QED  BY <1>1, <1>2, CountNone

\* A step that neither begins nor ends a get keeps the balance.
LEMMA BalancedKept ==
    ASSUME Shape, Balanced, todo # <<>>, Grown, NEW new \in Seq(TaskType), todo' = new \o Rest,
           \A i \in 1 .. Len(new) : TaskOk(new[i]) /\ new[i].do # "endget",
           Top.do # "endget", SameCounts
    PROVE  Balanced'
<1>1. Recs' = 1 .. Len(reps')
  BY DEF Recs
<1>2. ASSUME NEW r \in Recs
      PROVE  reps'[r].ngets = Count(todo', EndGets(r)) + left'[r]
  <2>1. Count(new, EndGets(r)) = 0 /\ Top \notin EndGets(r)
    BY NoneCounted DEF EndGets
  <2>2. Count(todo, EndGets(r)) \in Nat
    BY CountType DEF Shape
  <2>3. Count(todo', EndGets(r)) = Count(todo, EndGets(r))
    BY <2>1, <2>2, CountsMove
  <2> QED  BY <2>3 DEF Balanced, SameCounts
<1>3. ASSUME NEW r \in 1 .. Len(reps'), r \notin Recs
      PROVE  reps'[r].ngets = Count(todo', EndGets(r)) + left'[r]
  <2>1. Count(todo', EndGets(r)) = 0
    BY <1>3, CountsMove
  <2> QED  BY <1>3, <2>1 DEF Grown
<1> QED  BY <1>1, <1>2, <1>3 DEF Balanced

\* A step that neither begins nor ends a body keeps it that bodies run once.
LEMMA OnceKept ==
    ASSUME Shape, RunsOnce, todo # <<>>, Grown, NEW new \in Seq(TaskType), todo' = new \o Rest,
           \A i \in 1 .. Len(new) : TaskOk(new[i]) /\ new[i].do # "built",
           Top.do # "built", SameBodies
    PROVE  RunsOnce'
<1>1. Recs' = 1 .. Len(reps')
  BY DEF Recs
<1>2. ASSUME NEW r \in Recs
      PROVE  /\ reps'[r].opened => reps'[r].hashed
             /\ reps'[r].built => reps'[r].opened
             /\ Count(todo', Builts(r)) <= (IF reps'[r].opened /\ ~reps'[r].built THEN 1 ELSE 0)
  <2>1. Count(new, Builts(r)) = 0
    BY NoneCounted
  <2>4. Top \notin Builts(r)
    BY DEF Builts, Do
  <2>2. Count(todo, Builts(r)) \in Nat
    BY CountType DEF Shape
  <2>3. Count(todo', Builts(r)) = Count(todo, Builts(r))
    BY <2>1, <2>2, <2>4, CountsMove
  <2> QED  BY <2>3 DEF RunsOnce, SameBodies, Grown
<1>3. ASSUME NEW r \in 1 .. Len(reps'), r \notin Recs
      PROVE  /\ ~reps'[r].opened /\ ~reps'[r].built
             /\ Count(todo', Builts(r)) = 0
  BY <1>3, CountsMove DEF Grown
<1> QED  BY <1>1, <1>2, <1>3 DEF RunsOnce

\* Steps that begin and end no get and no body.
Plain(new) ==
    /\ \A i \in 1 .. Len(new) :
          TaskOk(new[i]) /\ new[i].do \notin {"build", "endget", "built"}
    /\ Top.do \notin {"endget", "built"}
    /\ Top.do \in HashTasks /\ ~IsExtend(Top.rep) =>
          \/ reps'[Top.rep].hashed
          \/ \E j \in 1 .. Len(new) : new[j].rep = Top.rep /\ new[j].do \in HashTasks

\* They keep the invariant.
LEMMA PlainStep ==
    ASSUME Inv, todo # <<>>, Grown, SameCounts, SameBodies,
           NEW new \in Seq(TaskType), todo' = new \o Rest, Plain(new)
    PROVE  Inv'
<1>1. /\ \A i \in 1 .. Len(new) : TaskOk(new[i])
      /\ \A i \in 1 .. Len(new) :
            new[i].do # "build" /\ new[i].do # "endget" /\ new[i].do # "built"
      /\ Top.do # "endget" /\ Top.do # "built"
  BY DEF Plain
<1>2. Shape'
  BY <1>1, ShapeKept DEF Inv
<1>3. HashFirst'
  BY <1>1, HashKept DEF Inv, Plain
<1>4. Balanced' /\ RunsOnce'
  BY <1>1, BalancedKept, OnceKept DEF Inv
<1> QED  BY <1>2, <1>3, <1>4 DEF Inv

\* Tasks that may be put in place of the first.
Fits(new) ==
    /\ \A i \in 1 .. Len(new) : TaskOk(new[i])
    /\ \A i \in 1 .. Len(new) : new[i].do = "build" =>
          /\ ~IsExtend(new[i].rep)
          /\ \E j \in 1 .. i - 1 : new[j].rep = new[i].rep /\ new[j].do \in HashTasks
    /\ Top.do \in HashTasks /\ ~IsExtend(Top.rep) =>
          \/ reps'[Top.rep].hashed
          \/ \E j \in 1 .. Len(new) : new[j].rep = Top.rep /\ new[j].do \in HashTasks

\* Shape and HashFirst are kept, and the counts move by what is new and by the
\* first task.
LEMMA StepMoves ==
    ASSUME Inv, todo # <<>>, Grown, NEW new \in Seq(TaskType), todo' = new \o Rest, Fits(new)
    PROVE  /\ Shape' /\ HashFirst'
           /\ \A T : /\ Count(todo', T)
                            = Count(new, T) + Count(todo, T) - (IF Top \in T THEN 1 ELSE 0)
                     /\ Count(todo', T) \in Nat /\ Count(todo, T) \in Nat
                     /\ Top \in T => Count(todo, T) # 0
           /\ \A r : r \notin Recs =>
                 Count(todo', EndGets(r)) = 0 /\ Count(todo', Builts(r)) = 0
<1>1. \A i \in 1 .. Len(new) : TaskOk(new[i])
  BY DEF Fits
<1>2. Shape /\ HashFirst
  BY DEF Inv
<1>3. Shape'
  BY <1>1, <1>2, ShapeKept
<1>4. HashFirst'
  BY <1>1, <1>2, HashKept DEF Fits
<1>5. /\ \A T : Count(todo', T)
                    = Count(new, T) + Count(todo, T) - (IF Top \in T THEN 1 ELSE 0)
      /\ \A r : r \notin Recs =>
            Count(todo', EndGets(r)) = 0 /\ Count(todo', Builts(r)) = 0
  BY <1>1, <1>2, CountsMove
<1>6. \A T : Count(todo', T) \in Nat /\ Count(todo, T) \in Nat
  BY <1>2, <1>3, CountType DEF Shape
<1>7. ASSUME NEW T, Top \in T  PROVE Count(todo, T) # 0
  <2>1. todo[1] = Top /\ 1 \in 1 .. Len(todo)
    BY <1>2, StepPlaces DEF Shape, Top
  <2> QED  BY <1>2, <1>7, <2>1, CountNone DEF Shape
<1> QED  BY <1>3, <1>4, <1>5, <1>6, <1>7

\* The balance is kept if each count of look-ups moves with the tasks.
LEMMA BalanceMoves ==
    ASSUME Inv, todo # <<>>, Grown, NEW new \in Seq(TaskType), todo' = new \o Rest, Fits(new),
           \A r \in Recs :
              /\ left'[r] = left[r]
              /\ reps'[r].ngets = reps[r].ngets + Count(new, EndGets(r))
                                  - (IF Top \in EndGets(r) THEN 1 ELSE 0)
    PROVE  Balanced'
<1>1. Recs' = 1 .. Len(reps')
  BY DEF Recs
<1>2. ASSUME NEW r \in Recs
      PROVE  reps'[r].ngets = Count(todo', EndGets(r)) + left'[r]
  <2>1. PICK a, b, c, k :
           /\ a = Count(todo, EndGets(r)) /\ b = Count(new, EndGets(r)) /\ c = left[r]
           /\ k = (IF Top \in EndGets(r) THEN 1 ELSE 0)
    OBVIOUS
  <2>2. a \in Nat /\ b \in Nat /\ c \in Nat /\ k \in {0, 1}
    <3>1. left[r] \in Nat
      BY LenProperties DEF Inv, Shape, Recs
    <3>2. Count(todo, EndGets(r)) \in Nat /\ Count(new, EndGets(r)) \in Nat
      BY CountType DEF Inv, Shape
    <3> QED  BY <2>1, <3>1, <3>2
  <2>3. Count(todo', EndGets(r)) = b + a - k
    BY <2>1, StepMoves
  <2>4. reps[r].ngets = a + c
    BY <2>1 DEF Inv, Balanced
  <2>5. reps'[r].ngets = (a + c) + b - k /\ left'[r] = c
    BY <2>1, <2>4
  <2> QED  BY <2>2, <2>3, <2>5
<1>3. ASSUME NEW r \in 1 .. Len(reps'), r \notin Recs
      PROVE  reps'[r].ngets = Count(todo', EndGets(r)) + left'[r]
  <2>1. Count(todo', EndGets(r)) = 0
    BY <1>3, StepMoves
  <2> QED  BY <1>3, <2>1 DEF Grown
<1> QED  BY <1>1, <1>2, <1>3 DEF Balanced

\* Bodies run once if this is kept for the records that are there.
LEMMA OnceMoves ==
    ASSUME Inv, todo # <<>>, Grown, NEW new \in Seq(TaskType), todo' = new \o Rest, Fits(new),
           \A r \in Recs :
              /\ reps'[r].opened => reps'[r].hashed
              /\ reps'[r].built => reps'[r].opened
              /\ Count(todo', Builts(r)) <= (IF reps'[r].opened /\ ~reps'[r].built THEN 1 ELSE 0)
    PROVE  RunsOnce'
<1>1. Recs' = 1 .. Len(reps')
  BY DEF Recs
<1>2. ASSUME NEW r \in 1 .. Len(reps'), r \notin Recs
      PROVE  /\ ~reps'[r].opened /\ ~reps'[r].built
             /\ Count(todo', Builts(r)) = 0
  BY <1>2, StepMoves DEF Grown
<1> QED  BY <1>1, <1>2 DEF RunsOnce

\* A step that neither begins nor ends a body keeps it that bodies run once.
LEMMA OnceSame ==
    ASSUME Inv, todo # <<>>, Grown, NEW new \in Seq(TaskType), todo' = new \o Rest, Fits(new),
           \A i \in 1 .. Len(new) : new[i].do # "built",
           Top.do # "built", SameBodies
    PROVE  RunsOnce'
<1>1. \A i \in 1 .. Len(new) : TaskOk(new[i]) /\ new[i].do # "built"
  BY DEF Fits
<1> QED  BY <1>1, OnceKept DEF Inv

\* Nothing new.
LEMMA NoneNew ==
    ASSUME NEW new \in Seq(TaskType), Len(new) = 0
    PROVE  /\ \A T : Count(new, T) = 0
           /\ \A i \in 1 .. Len(new) : new[i].do # "built"
           /\ Top.do \notin HashTasks => Fits(new)
<1>1. 1 .. Len(new) = {}
  OBVIOUS
<1>2. ASSUME NEW T  PROVE Count(new, T) = 0
  BY <1>1, CountNone
<1>3. Top.do \notin HashTasks => Fits(new)
  BY <1>1 DEF Fits
<1> QED  BY <1>1, <1>2, <1>3

-----------------------------------------------------------------------------
(* Steps that leave the records alone.                                     *)

\* What a task is that Do makes.
LEMMA DoIs ==
    ASSUME NEW what \in Whats, NEW r \in Nat
    PROVE  Do(what, r) \in TaskType /\ Do(what, r).do = what /\ Do(what, r).rep = r
  BY DEF Do, TaskType

\* What a task is that Look makes.
LEMMA LookIs ==
    ASSUME NEW what \in Lookings, NEW r \in Nat, NEW e \in Exp, NEW k \in BOOLEAN
    PROVE  /\ Look(what, r, e, k) \in TaskType
           /\ Look(what, r, e, k).do = what /\ Look(what, r, e, k).rep = r
  BY DEF Look, TaskType

\* A step that leaves the records alone.
LEMMA SameRecords ==
    ASSUME Shape, UNCHANGED <<prog, reps, left>>
    PROVE  Grown /\ SameCounts /\ SameBodies
<1>1. Recs = 1 .. Len(reps) /\ Len(reps) \in Nat
  BY LenProperties DEF Recs, Shape
<1>2. \A r \in Recs : RecordOk(r)'
  BY DEF Shape, RecordOk, Doms, Recs
<1> QED  BY <1>1, <1>2 DEF Grown, SameCounts, SameBodies, Shape

\* Nothing new: the first task is done.
LEMMA NothingNew ==
    ASSUME Shape, todo # <<>>, todo' = Rest
    PROVE  \E new \in Seq(TaskType) : Len(new) = 0 /\ todo' = new \o Rest
<1>1. Rest \in Seq(TaskType)
  BY HeadTailProperties DEF Shape, Rest
<1>2. <<>> \in Seq(TaskType) /\ Len(<<>>) = 0 /\ todo' = <<>> \o Rest
  BY <1>1, ConcatEmptySeq
<1> QED  BY <1>2

\* The first task is done, and there is nothing new.
LEMMA DoneStep ==
    ASSUME Inv, todo # <<>>, todo' = Rest, Grown, SameCounts, SameBodies,
           Top.do \notin {"endget", "built"},
           Top.do \in HashTasks /\ ~IsExtend(Top.rep) => reps'[Top.rep].hashed
    PROVE  Inv'
<1>1. PICK new \in Seq(TaskType) : Len(new) = 0 /\ todo' = new \o Rest
  BY NothingNew DEF Inv
<1>2. Plain(new)
  BY <1>1 DEF Plain
<1> QED  BY <1>1, <1>2, PlainStep

\* The first task is replaced by one that is not counted.
LEMMA OneStep ==
    ASSUME Inv, todo # <<>>, UNCHANGED <<prog, reps, left>>,
           NEW t \in TaskType, todo' = <<t>> \o Rest,
           t.do \notin {"build", "endget", "built", "expand"}, t.rep \in Recs,
           Top.do \notin {"endget", "built"} \cup HashTasks
    PROVE  Inv'
<1> PICK new : new = <<t>>
  OBVIOUS
<1>1. new \in Seq(TaskType) /\ Len(new) = 1 /\ new[1] = t
  OBVIOUS
<1>2. Plain(new)
  BY <1>1 DEF Plain, TaskOk
<1> QED  BY <1>1, <1>2, PlainStep, SameRecords DEF Inv

\* The first task is replaced by two of these.
LEMMA TwoStep ==
    ASSUME Inv, todo # <<>>, UNCHANGED <<prog, reps, left>>,
           NEW t \in TaskType, NEW u \in TaskType, todo' = <<t, u>> \o Rest,
           t.do \notin {"build", "endget", "built", "expand"}, t.rep \in Recs,
           u.do \notin {"build", "endget", "built", "expand"}, u.rep \in Recs,
           Top.do \notin {"endget", "built"} \cup HashTasks
    PROVE  Inv'
<1> PICK new : new = <<t, u>>
  OBVIOUS
<1>1. new \in Seq(TaskType) /\ Len(new) = 2 /\ new[1] = t /\ new[2] = u
  OBVIOUS
<1>2. Plain(new)
  BY <1>1 DEF Plain, TaskOk
<1> QED  BY <1>1, <1>2, PlainStep, SameRecords DEF Inv

\* A sequence of two from two of one.
LEMMA Joined ==
    ASSUME NEW S, NEW a \in S, NEW b \in S
    PROVE  <<a>> \o <<b>> = <<a, b>>
<1> PICK s, t : s = <<a>> /\ t = <<b>>
  OBVIOUS
<1>1. /\ s \in Seq(S) /\ Len(s) = 1 /\ s[1] = a
      /\ t \in Seq(S) /\ Len(t) = 1 /\ t[1] = b
      /\ <<a, b>> \in Seq(S) /\ Len(<<a, b>>) = 2
  OBVIOUS
<1>2. /\ s \o t \in Seq(S) /\ Len(s \o t) = 2
      /\ \A i \in 1 .. 2 : (s \o t)[i] = IF i <= 1 THEN s[i] ELSE t[i - 1]
  BY <1>1, ConcatProperties
<1>3. \A i \in 1 .. 2 : (s \o t)[i] = <<a, b>>[i]
  <2>1. (s \o t)[1] = a /\ (s \o t)[2] = b
    BY <1>1, <1>2
  <2> QED  BY <2>1
<1>4. s \o t = <<a, b>>
  BY <1>1, <1>2, <1>3, SeqEqual
<1> QED  BY <1>4

\* getHash! prepares the hash code, of an extend also that of its first domain.
LEMMA InvGetHash == ASSUME Inv, getHash  PROVE Inv'
<1>1. /\ todo # <<>> /\ Top.do = "getHash" /\ UNCHANGED <<prog, reps, left>>
      /\ Top.rep \in Recs /\ Top.rep \in Nat
  BY TopType DEF getHash, Inv
<1> DEFINE a == Do("prepareHash", Top.rep)
           b == Do("firstHash", Top.rep)
<1>2. a \in TaskType /\ a.do = "prepareHash" /\ a.rep = Top.rep
      /\ b \in TaskType /\ b.do = "firstHash" /\ b.rep = Top.rep
  BY <1>1, DoIs DEF Whats
<1>3. todo' = <<a>> \o (IF IsExtend(Top.rep) THEN <<b>> ELSE <<>>) \o Rest
  BY DEF getHash
<1> HIDE DEF a, b
<1>4. <<a>> \o <<b>> = <<a, b>> /\ <<a>> \o <<>> = <<a>>
  <2>1. <<a>> \in Seq(TaskType)
    BY <1>2
  <2> QED  BY <1>2, <2>1, ConcatEmptySeq, Joined
<1>5. CASE IsExtend(Top.rep)
  <2>1. todo' = <<a, b>> \o Rest
    BY <1>3, <1>4, <1>5
  <2> QED  BY <1>1, <1>2, <2>1, TwoStep DEF HashTasks
<1>6. CASE ~IsExtend(Top.rep)
  <2>1. todo' = <<a>> \o Rest
    BY <1>3, <1>4, <1>6
  <2> QED  BY <1>1, <1>2, <2>1, OneStep DEF HashTasks
<1> QED  BY <1>5, <1>6

\* The first domain that an extend has, if it has any.
LEMMA InvFirstHash == ASSUME Inv, firstHash  PROVE Inv'
<1> DEFINE pars == reps[Top.rep].parents
<1>1. /\ todo # <<>> /\ Top.do = "firstHash" /\ UNCHANGED <<prog, reps, left>>
      /\ RecordOk(Top.rep) /\ reps[Top.rep] \in RepType
      /\ todo' = (IF pars = <<>> THEN <<>> ELSE <<Do("getHash", Head(pars))>>) \o Rest
      /\ Rest \in Seq(TaskType)
  BY TopType, HeadTailProperties DEF firstHash, Inv, Shape, Rest
<1>2. CASE pars = <<>>
  <2>1. todo' = Rest
    BY <1>1, <1>2, ConcatEmptySeq
  <2> QED  BY <1>1, <2>1, DoneStep, SameRecords DEF Inv, HashTasks
<1>3. CASE pars # <<>>
  <2>1. pars \in Seq(Nat)
    BY <1>1 DEF RepType
  <2>2. Head(pars) \in Nat /\ Head(pars) = pars[1] /\ 1 \in 1 .. Len(pars)
    BY <1>3, <2>1
  <2>3. Head(pars) \in Recs
    BY <1>1, <2>2 DEF RecordOk
  <2> DEFINE t == Do("getHash", Head(pars))
  <2>4. t \in TaskType /\ t.do = "getHash" /\ t.rep \in Recs
    BY <2>2, <2>3, DoIs DEF Whats
  <2>5. todo' = <<t>> \o Rest
    BY <1>1, <1>3
  <2> HIDE DEF t
  <2> QED  BY <1>1, <2>4, <2>5, OneStep DEF HashTasks
<1> QED  BY <1>2, <1>3

\* getExport0! looks the export up and sees what to make of the answer.
LEMMA InvGetExport0 == ASSUME Inv, getExport0  PROVE Inv'
<1> DEFINE t == Look("get", Top.rep, Top.exp, FALSE)
           u == IF Top.do = "getExport" THEN Do("need", Top.rep)
                ELSE Look("force", Top.rep, Top.exp, FALSE)
<1>1. /\ todo # <<>> /\ Top.do \in {"getExport", "testExport"} /\ UNCHANGED <<prog, reps, left>>
      /\ Top.rep \in Recs /\ Top.rep \in Nat /\ Top.exp \in Exp
      /\ todo' = <<t, u>> \o Rest
  BY TopType DEF getExport0, Inv, Lookings
<1>2. t \in TaskType /\ t.do = "get" /\ t.rep = Top.rep
  BY <1>1 DEF Look, TaskType, Lookings
<1>3. u \in TaskType /\ u.do \in {"need", "force"} /\ u.rep = Top.rep
  <2>1. CASE Top.do = "getExport"
    BY <1>1, <2>1, DoIs DEF Whats
  <2>2. CASE Top.do # "getExport"
    BY <1>1, <2>2 DEF Look, TaskType, Lookings
  <2> QED  BY <2>1, <2>2
<1> HIDE DEF t, u
<1> QED  BY <1>1, <1>2, <1>3, TwoStep DEF HashTasks

\* A test that succeeds is followed by the look-up it is made for.
LEMMA InvTryForce == ASSUME Inv, TryForce  PROVE Inv'
<1> DEFINE t == Look("getExport", Top.rep, Top.exp, FALSE)
<1>1. /\ todo # <<>> /\ Top.do = "force" /\ UNCHANGED <<prog, reps, left>>
      /\ Top.rep \in Recs /\ Top.rep \in Nat /\ Top.exp \in Exp
      /\ todo' = (IF found = None THEN <<>> ELSE <<t>>) \o Rest
      /\ Rest \in Seq(TaskType)
  BY TopType, HeadTailProperties DEF TryForce, Inv, Lookings, Shape, Rest
<1>2. t \in TaskType /\ t.do = "getExport" /\ t.rep = Top.rep
  BY <1>1 DEF Look, TaskType, Lookings
<1> HIDE DEF t
<1>3. CASE found = None
  <2>1. todo' = Rest
    BY <1>1, <1>3, ConcatEmptySeq
  <2> QED  BY <1>1, <2>1, DoneStep, SameRecords DEF Inv, HashTasks
<1>4. CASE found # None
  BY <1>1, <1>2, <1>4, OneStep DEF HashTasks
<1> QED  BY <1>3, <1>4

\* Tasks that are done at once.
LEMMA InvDone == ASSUME Inv, Passed \/ Prepared \/ Defaults  PROVE Inv'
<1>1. /\ todo # <<>> /\ todo' = Rest /\ UNCHANGED <<prog, reps, left>>
      /\ Top.do \in {"get", "build", "defaults", "parents", "extendees"}
  BY DEF Passed, Prepared, Defaults
<1> QED  BY <1>1, DoneStep, SameRecords DEF Inv, HashTasks

\* Where getaux looks.
LEMMA PlacesType ==
    ASSUME NEW r \in Nat, NEW e \in Exp, NEW k \in BOOLEAN
    PROVE  /\ Places(r, e, k) \in Seq(TaskType)
           /\ \A i \in 1 .. Len(Places(r, e, k)) :
                 /\ Places(r, e, k)[i].do \in {"defaults", "parents", "extendees"}
                 /\ Places(r, e, k)[i].rep = r
<1> DEFINE L == {t \in TaskType : t.do \in {"defaults", "parents", "extendees"} /\ t.rep = r}
<1>1. \A what \in {"defaults", "parents", "extendees"}, b \in BOOLEAN : Look(what, r, e, b) \in L
  BY LookIs DEF Lookings
<1>2. TRUE \in BOOLEAN /\ FALSE \in BOOLEAN
  OBVIOUS
<1>3. /\ Look("parents", r, e, TRUE) \in L /\ Look("extendees", r, e, TRUE) \in L
      /\ Look("defaults", r, e, FALSE) \in L /\ Look("parents", r, e, FALSE) \in L
      /\ Look("extendees", r, e, FALSE) \in L
      /\ Look("defaults", r, e, k) \in L /\ Look("parents", r, e, k) \in L
      /\ Look("extendees", r, e, k) \in L
  BY <1>1, <1>2
<1> DEFINE without == <<Look("parents", r, e, TRUE), Look("extendees", r, e, TRUE)>>
           with == <<Look("defaults", r, e, FALSE), Look("parents", r, e, FALSE),
                     Look("extendees", r, e, FALSE)>>
<1>4. /\ without \in Seq(L) /\ with \in Seq(L) /\ <<>> \in Seq(L)
      /\ <<Look("parents", r, e, k)>> \in Seq(L)
      /\ <<Look("defaults", r, e, k), Look("extendees", r, e, k)>> \in Seq(L)
  <2> HIDE DEF L
  <2>1. \A a, b, c \in L : /\ <<a>> \in Seq(L) /\ <<a, b>> \in Seq(L)
                           /\ <<a, b, c>> \in Seq(L) /\ <<>> \in Seq(L)
    OBVIOUS
  <2> QED  BY <1>3, <2>1
<1> HIDE DEF L
<1>5. without \o with \in Seq(L)
  BY <1>4, ConcatProperties
<1>6. Places(r, e, k) \in Seq(L)
  BY <1>4, <1>5 DEF Places
<1>7. /\ \A i \in 1 .. Len(Places(r, e, k)) : Places(r, e, k)[i] \in L
      /\ L \subseteq TaskType
  BY <1>6, LenProperties DEF L
<1>8. Places(r, e, k) \in Seq(TaskType)
  BY <1>6, <1>7, SeqMonotonic
<1> QED  BY <1>7, <1>8 DEF L

\* getaux after the domain's own exports.
LEMMA InvOwn == ASSUME Inv, Own  PROVE Inv'
<1>1. /\ todo # <<>> /\ Top.do = "own" /\ UNCHANGED <<prog, reps, left>>
      /\ Top.rep \in Recs /\ Top.rep \in Nat /\ Top.exp \in Exp /\ Top.skip \in BOOLEAN
      /\ Rest \in Seq(TaskType)
  BY TopType, HeadTailProperties DEF Own, Inv, Lookings, Shape, Rest
<1>2. CASE OwnHas(Top.rep, Top.exp)
  <2>1. todo' = Rest
    BY <1>1, <1>2, ConcatEmptySeq DEF Own
  <2> QED  BY <1>1, <2>1, DoneStep, SameRecords DEF Inv, HashTasks
<1>3. CASE ~OwnHas(Top.rep, Top.exp)
  <2> PICK new : new = Places(Top.rep, Top.exp, Top.skip)
    OBVIOUS
  <2>1. todo' = new \o Rest
    BY <1>3 DEF Own
  <2>2. new \in Seq(TaskType) /\ \A i \in 1 .. Len(new) :
           new[i].do \in {"defaults", "parents", "extendees"} /\ new[i].rep \in Recs
    BY <1>1, PlacesType
  <2>3. Plain(new)
    BY <1>1, <2>2 DEF Plain, TaskOk, HashTasks
  <2> QED  BY <1>1, <2>1, <2>2, <2>3, PlainStep, SameRecords DEF Inv
<1> QED  BY <1>2, <1>3

\* getauxArray looks in each of the domains in turn.
LEMMA InvGetauxArray == ASSUME Inv, getauxArray  PROVE Inv'
<1> DEFINE doms == IF Top.do = "parents" THEN reps[Top.rep].parents ELSE reps[Top.rep].extendees
<1>1. /\ todo # <<>> /\ Top.do \in {"parents", "extendees"} /\ UNCHANGED <<prog, reps, left>>
      /\ RecordOk(Top.rep) /\ reps[Top.rep] \in RepType
      /\ Top.exp \in Exp /\ Top.skip \in BOOLEAN
      /\ todo' = Remaining(Top, doms) \o Rest
  BY TopType DEF getauxArray, Inv, Lookings
<1>2. doms \in Seq(Nat) /\ \A i \in 1 .. Len(doms) : doms[i] \in Recs
  BY <1>1 DEF RecordOk, RepType
<1> HIDE DEF doms
<1>3. Len(doms) \in Nat /\ DOMAIN doms = 1 .. Len(doms) /\ \A i \in 1 .. Len(doms) : doms[i] \in Nat
  BY <1>2, LenProperties
<1> PICK new : new = Remaining(Top, doms)
  OBVIOUS
<1>4. \A i \in 1 .. Len(doms) :
         /\ Look("get", doms[i], Top.exp, Top.skip) \in TaskType
         /\ Look("get", doms[i], Top.exp, Top.skip).do = "get"
         /\ Look("get", doms[i], Top.exp, Top.skip).rep = doms[i]
  BY <1>1, <1>3, LookIs DEF Lookings
<1>5. /\ new \in Seq(TaskType) /\ Len(new) = Len(doms)
      /\ \A i \in 1 .. Len(doms) : new[i] = Look("get", doms[i], Top.exp, Top.skip)
  BY <1>3, <1>4 DEF Remaining
<1>6. Plain(new)
  BY <1>1, <1>2, <1>4, <1>5 DEF Plain, TaskOk, HashTasks
<1> QED  BY <1>1, <1>5, <1>6, PlainStep, SameRecords DEF Inv

\* getExtend counts nothing.
LEMMA InvGetExtend == ASSUME Inv, getExtend  PROVE Inv'
<1> DEFINE t == Do("prepareHash", Top.rep)
           u == Look("own", Top.rep, Top.exp, Top.skip)
<1>1. /\ todo # <<>> /\ Top.do = "get" /\ UNCHANGED <<prog, reps, left>>
      /\ Top.rep \in Recs /\ Top.rep \in Nat /\ Top.exp \in Exp /\ Top.skip \in BOOLEAN
      /\ todo' = <<t, u>> \o Rest
  BY TopType DEF getExtend, Inv, Lookings
<1>2. t \in TaskType /\ t.do = "prepareHash" /\ t.rep = Top.rep
  BY <1>1, DoIs DEF Whats
<1>3. u \in TaskType /\ u.do = "own" /\ u.rep = Top.rep
  BY <1>1, LookIs DEF Lookings
<1> HIDE DEF t, u
<1> QED  BY <1>1, <1>2, <1>3, TwoStep DEF HashTasks

\* prepareHash! leaves the hash code there or a task behind that puts it there.
LEMMA InvPrepareHash == ASSUME Inv, prepareHash  PROVE Inv'
<1> DEFINE r == Top.rep
           code == Code(r, prog.hashing[reps[r].dom])
           new == IF reps[r].hashed THEN <<>>
                  ELSE IF reps[r].orig = None
                  THEN code \o <<Do("hashed", r)>>
                  ELSE IF IsExtend(r)
                  THEN <<Do("prepareHash", reps[r].orig), Do("expand", r)>>
                  ELSE <<Do("prepareHash", reps[r].orig), Do("getHash", reps[r].child),
                         Do("expand", r)>>
<1>1. /\ todo # <<>> /\ Top.do = "prepareHash" /\ UNCHANGED <<prog, reps, left>>
      /\ Shape /\ r \in Recs /\ r \in Nat /\ RecordOk(r) /\ reps[r] \in RepType
  BY TopType DEF prepareHash, Inv
<1>2. todo' = new \o Rest
  BY DEF prepareHash
<1>3. /\ \A what \in {"prepareHash", "getHash", "expand", "hashed"}, q \in Recs :
            /\ Do(what, q) \in TaskType /\ Do(what, q).do = what /\ Do(what, q).rep = q
  BY <1>1, LenProperties, DoIs DEF Recs, Shape, Whats
<1>4. Recs \subseteq Nat
  BY <1>1, LenProperties DEF Recs, Shape
<1>5. ASSUME NEW s \in Seq(TaskType), s = new  PROVE Plain(s) => Inv'
  BY <1>1, <1>2, <1>5, PlainStep, SameRecords DEF Inv
<1>6. CASE reps[r].hashed
  <2> PICK s : s = new
    OBVIOUS
  <2>1. s \in Seq(TaskType) /\ Len(s) = 0
    BY <1>6
  <2>2. Plain(s)
    BY <1>1, <1>6, <2>1 DEF Plain
  <2> QED  BY <1>5, <2>1, <2>2
<1>7. CASE ~reps[r].hashed /\ reps[r].orig = None
  <2>1. prog.hashing[reps[r].dom] \in Seq(Statement(Doms))
    BY <1>1, ProgramType DEF RecordOk
  <2>2. /\ code \in Seq(TaskType)
        /\ \A i \in 1 .. Len(code) :
              /\ code[i].do \in {"define", "getExport", "testExport", "getHash"}
              /\ code[i].rep \in Recs
    BY <1>1, <2>1, CodeType
  <2>3. PICK t \in TaskType : t = Do("hashed", r) /\ t.do = "hashed" /\ t.rep = r
    BY <1>1, <1>3
  <2>4. PICK c \in Seq(TaskType) : c = code
    BY <2>2
  <2>5. PICK d \in Seq(TaskType) : d = <<t>> /\ Len(d) = 1 /\ d[1] = t
    <3> HIDE DEF new, code
    <3>1. <<t>> \in Seq(TaskType) /\ Len(<<t>>) = 1 /\ <<t>>[1] = t
      OBVIOUS
    <3> QED  BY <3>1
  <2>6. new = c \o d
    BY <1>7, <2>3, <2>4, <2>5
  <2> HIDE DEF new, code
  <2> PICK s : s = new
    OBVIOUS
  <2>7. /\ s \in Seq(TaskType) /\ Len(s) = Len(c) + 1 /\ Len(c) \in Nat
        /\ \A i \in 1 .. Len(c) + 1 : s[i] = IF i <= Len(c) THEN c[i] ELSE d[i - Len(c)]
    BY <2>5, <2>6, ConcatProperties, LenProperties
  <2>8. s[Len(c) + 1] = t /\ \A i \in 1 .. Len(c) : s[i] = c[i]
    BY <2>5, <2>7
  <2>9. \A i \in 1 .. Len(s) : s[i] = t \/ (i \in 1 .. Len(c) /\ s[i] = c[i])
    BY <2>7, <2>8
  <2>10. Plain(s)
    BY <1>1, <2>2, <2>3, <2>4, <2>7, <2>8, <2>9, SMTT(20) DEF Plain, TaskOk, HashTasks
  <2> QED  BY <1>5, <2>7, <2>10
<1>8. CASE ~reps[r].hashed /\ reps[r].orig # None
  <2>1. reps[r].orig \in Recs /\ reps[r].child \in Recs
    BY <1>1, <1>8 DEF RecordOk
  <2>2. PICK a \in TaskType, b \in TaskType, c \in TaskType :
           /\ a = Do("prepareHash", reps[r].orig) /\ a.do = "prepareHash" /\ a.rep = reps[r].orig
           /\ b = Do("getHash", reps[r].child) /\ b.do = "getHash" /\ b.rep = reps[r].child
           /\ c = Do("expand", r) /\ c.do = "expand" /\ c.rep = r
    BY <1>1, <1>3, <2>1
  <2>3. new = <<a, c>> \/ new = <<a, b, c>>
    BY <1>8, <2>2
  <2>4. TaskOk(a) /\ TaskOk(b) /\ TaskOk(c)
    BY <1>1, <1>8, <2>1, <2>2 DEF TaskOk
  <2> HIDE DEF new
  <2> PICK s : s = new
    OBVIOUS
  <2>5. CASE s = <<a, c>>
    <3>1. s \in Seq(TaskType) /\ Len(s) = 2 /\ s[1] = a /\ s[2] = c
      BY <2>5
    <3>2. Plain(s)
      BY <1>1, <2>2, <2>4, <3>1 DEF Plain, HashTasks
    <3> QED  BY <1>5, <3>1, <3>2
  <2>6. CASE s = <<a, b, c>>
    <3>1. s \in Seq(TaskType) /\ Len(s) = 3 /\ s[1] = a /\ s[2] = b /\ s[3] = c
      BY <2>6
    <3>2. Plain(s)
      BY <1>1, <2>2, <2>4, <3>1 DEF Plain, HashTasks
    <3> QED  BY <1>5, <3>1, <3>2
  <2> QED  BY <2>3, <2>5, <2>6
<1> QED  BY <1>6, <1>7, <1>8

-----------------------------------------------------------------------------
(* Steps that change a record.                                             *)

\* One record is changed, and it is still about the same domain.
LEMMA Changed ==
    ASSUME Shape, NEW r \in Recs, NEW rec \in RepType, reps' = [reps EXCEPT ![r] = rec],
           prog' = prog, left' = left,
           rec.dom = reps[r].dom, rec.orig = reps[r].orig, rec.child = reps[r].child,
           reps[r].hashed => rec.hashed,
           \A i \in 1 .. Len(rec.parents) : rec.parents[i] \in Recs,
           \A i \in 1 .. Len(rec.extendees) : rec.extendees[i] \in Recs
    PROVE  /\ Grown /\ Len(reps') = Len(reps)
           /\ \A q \in Recs : reps'[q] = IF q = r THEN rec ELSE reps[q]
<1>1. /\ reps' \in Seq(RepType) /\ Len(reps') = Len(reps)
      /\ \A q \in 1 .. Len(reps) : reps'[q] = IF q = r THEN rec ELSE reps[q]
  BY ExceptSeq DEF Shape, Recs
<1>2. Len(reps) \in Nat /\ Recs' = Recs /\ Recs = 1 .. Len(reps) /\ Doms' = Doms
  BY <1>1, LenProperties DEF Recs, Doms, Shape
<1>3. ASSUME NEW q \in Recs  PROVE RecordOk(q)'
  <2>1. RecordOk(q)
    BY DEF Shape
  <2>2. PICK x : x = reps'[q] /\ (q = r => x = rec) /\ (q # r => x = reps[q])
    BY <1>1, <1>2
  <2>3. /\ x.dom \in Doms
        /\ x.orig # None => x.orig \in Recs /\ x.child \in Recs
        /\ \A i \in 1 .. Len(x.parents) : x.parents[i] \in Recs
        /\ \A i \in 1 .. Len(x.extendees) : x.extendees[i] \in Recs
    <3>1. CASE q = r
      BY <2>1, <2>2, <3>1 DEF RecordOk
    <3>2. CASE q # r
      BY <2>1, <2>2, <3>2 DEF RecordOk
    <3> QED  BY <3>1, <3>2
  <2> QED  BY <1>2, <2>2, <2>3 DEF RecordOk
<1>4. \A q \in Recs : /\ reps'[q].dom = reps[q].dom /\ reps'[q].orig = reps[q].orig
                      /\ reps[q].hashed => reps'[q].hashed
  BY <1>1, <1>2
<1>5. left' \in Seq(Nat) /\ Len(left') = Len(reps') /\ Len(reps') >= Len(reps)
  BY <1>1, <1>2 DEF Shape
<1> HIDE DEF Recs
<1>6. Grown
  BY <1>1, <1>2, <1>3, <1>4, <1>5 DEF Grown
<1> QED  BY <1>1, <1>2, <1>6

\* f1 has put the hash code there.
LEMMA InvHashed == ASSUME Inv, Hashed  PROVE Inv'
<1> DEFINE r == Top.rep
           rec == [reps[r] EXCEPT !.hashed = TRUE]
<1>1. /\ todo # <<>> /\ Top.do = "hashed" /\ prog' = prog /\ left' = left
      /\ todo' = Rest /\ reps' = [reps EXCEPT ![r] = rec]
      /\ Shape /\ r \in Recs /\ RecordOk(r) /\ reps[r] \in RepType
  BY TopType DEF Hashed, Inv
<1>2. /\ rec \in RepType /\ rec.dom = reps[r].dom /\ rec.orig = reps[r].orig
      /\ rec.child = reps[r].child /\ rec.hashed
      /\ rec.parents = reps[r].parents /\ rec.extendees = reps[r].extendees
      /\ rec.ngets = reps[r].ngets /\ rec.opened = reps[r].opened /\ rec.built = reps[r].built
  BY <1>1 DEF RepType
<1> HIDE DEF rec
<1>3. /\ Grown /\ \A q \in Recs : reps'[q] = IF q = r THEN rec ELSE reps[q]
  <2>1. /\ \A i \in 1 .. Len(rec.parents) : rec.parents[i] \in Recs
        /\ \A i \in 1 .. Len(rec.extendees) : rec.extendees[i] \in Recs
    BY <1>1, <1>2 DEF RecordOk
  <2> QED  BY <1>1, <1>2, <2>1, Changed
<1>4. SameCounts /\ SameBodies /\ reps'[r].hashed
  BY <1>1, <1>2, <1>3 DEF SameCounts, SameBodies
<1> QED  BY <1>1, <1>3, <1>4, DoneStep

\* An export is entered.
LEMMA InvDefine == ASSUME Inv, Define  PROVE Inv'
<1> DEFINE r == Top.rep
           rec == [reps[r] EXCEPT !.exports = @ \cup {Top.exp}]
<1>1. /\ todo # <<>> /\ Top.do = "define" /\ prog' = prog /\ left' = left
      /\ todo' = Rest /\ reps' = [reps EXCEPT ![r] = rec] /\ Top.exp \in Exp
      /\ Shape /\ r \in Recs /\ RecordOk(r) /\ reps[r] \in RepType
  BY TopType DEF Define, Inv, Lookings
<1>2. /\ rec \in RepType /\ rec.dom = reps[r].dom /\ rec.orig = reps[r].orig
      /\ rec.child = reps[r].child /\ rec.hashed = reps[r].hashed
      /\ rec.parents = reps[r].parents /\ rec.extendees = reps[r].extendees
      /\ rec.ngets = reps[r].ngets /\ rec.opened = reps[r].opened /\ rec.built = reps[r].built
  BY <1>1 DEF RepType
<1> HIDE DEF rec
<1>3. /\ Grown /\ \A q \in Recs : reps'[q] = IF q = r THEN rec ELSE reps[q]
  <2>1. /\ \A i \in 1 .. Len(rec.parents) : rec.parents[i] \in Recs
        /\ \A i \in 1 .. Len(rec.extendees) : rec.extendees[i] \in Recs
    BY <1>1, <1>2 DEF RecordOk
  <2> QED  BY <1>1, <1>2, <2>1, Changed, ZenonT(30)
<1>4. SameCounts /\ SameBodies
  BY <1>1, <1>2, <1>3 DEF SameCounts, SameBodies
<1> QED  BY <1>1, <1>3, <1>4, DoneStep DEF HashTasks

\* The body has been run: it is not in progress any more.
LEMMA InvBuilt == ASSUME Inv, Built  PROVE Inv'
<1> DEFINE r == Top.rep
           rec == [reps[r] EXCEPT !.built = TRUE]
<1>1. /\ todo # <<>> /\ Top.do = "built" /\ prog' = prog /\ left' = left
      /\ todo' = Rest /\ reps' = [reps EXCEPT ![r] = rec]
      /\ Shape /\ r \in Recs /\ RecordOk(r) /\ reps[r] \in RepType /\ Top \in TaskType
      /\ Rest \in Seq(TaskType)
  BY TopType, HeadTailProperties DEF Built, Inv, Shape, Rest
<1>2. /\ rec \in RepType /\ rec.dom = reps[r].dom /\ rec.orig = reps[r].orig
      /\ rec.child = reps[r].child /\ rec.hashed = reps[r].hashed
      /\ rec.parents = reps[r].parents /\ rec.extendees = reps[r].extendees
      /\ rec.ngets = reps[r].ngets /\ rec.opened = reps[r].opened /\ rec.built
  BY <1>1 DEF RepType
<1> HIDE DEF rec
<1>3. /\ Grown /\ Len(reps') = Len(reps)
      /\ \A q \in Recs : reps'[q] = IF q = r THEN rec ELSE reps[q]
  <2>1. /\ \A i \in 1 .. Len(rec.parents) : rec.parents[i] \in Recs
        /\ \A i \in 1 .. Len(rec.extendees) : rec.extendees[i] \in Recs
    BY <1>1, <1>2 DEF RecordOk
  <2> QED  BY <1>1, <1>2, <2>1, Changed
<1>4. PICK new \in Seq(TaskType) : Len(new) = 0 /\ todo' = new \o Rest
  BY <1>1, NothingNew
<1>5. SameCounts
  BY <1>1, <1>2, <1>3 DEF SameCounts
<1>6. Top \in Builts(r) /\ (\A q : Top \in Builts(q) <=> q = r) /\ (\A q : Top \notin EndGets(q))
  <2>1. Top = Do("built", r)
    BY <1>1 DEF Do, TaskType, Whats, Lookings
  <2>2. Do("built", r).rep = r /\ \A q : Do("built", q).rep = q
    BY DEF Do
  <2> QED  BY <1>1, <2>1, <2>2 DEF Builts, EndGets
<1>7. Fits(new) /\ \A T : Count(new, T) = 0
  BY <1>1, <1>4, NoneNew DEF HashTasks
<1>8. Shape' /\ HashFirst'
  BY <1>1, <1>3, <1>4, <1>7, StepMoves
<1>9. Balanced'
  <2>1. \A q \in Recs : left'[q] = left[q] /\ reps'[q].ngets = reps[q].ngets + 0 - 0
    <3>1. \A q \in Recs : reps[q].ngets \in Nat
      BY <1>1, RecType
    <3> QED  BY <1>1, <1>5, <3>1 DEF SameCounts
  <2>2. \A q \in Recs : Count(new, EndGets(q)) = 0 /\ Top \notin EndGets(q)
    BY <1>6, <1>7
  <2> QED  BY <1>1, <1>3, <1>4, <1>7, <2>1, <2>2, BalanceMoves
<1>10. ASSUME NEW q \in Recs
       PROVE  /\ reps'[q].opened => reps'[q].hashed
              /\ reps'[q].built => reps'[q].opened
              /\ Count(todo', Builts(q)) <= (IF reps'[q].opened /\ ~reps'[q].built THEN 1 ELSE 0)
  <2>1. /\ reps[q].opened => reps[q].hashed
        /\ reps[q].built => reps[q].opened
        /\ Count(todo, Builts(q)) <= (IF reps[q].opened /\ ~reps[q].built THEN 1 ELSE 0)
    BY DEF Inv, RunsOnce
  <2>2. \A T : /\ Count(todo', T)
                     = Count(new, T) + Count(todo, T) - (IF Top \in T THEN 1 ELSE 0)
               /\ Count(todo, T) \in Nat
               /\ Top \in T => Count(todo, T) # 0
    BY <1>1, <1>3, <1>4, <1>7, StepMoves
  <2>3. PICK a, b : a = Count(todo, Builts(q)) /\ b = Count(todo', Builts(q))
    OBVIOUS
  <2>4. /\ a \in Nat /\ b = 0 + a - (IF Top \in Builts(q) THEN 1 ELSE 0)
        /\ Top \in Builts(q) => a # 0
    BY <1>7, <2>2, <2>3
  <2>5. CASE q = r
    <3>1. Top \in Builts(q)
      BY <1>6, <2>5
    <3>2. a = 1 /\ b = 0 /\ reps[r].opened
      BY <2>1, <2>3, <2>4, <2>5, <3>1
    <3>3. reps'[q].opened /\ reps'[q].hashed /\ reps'[q].built
      BY <1>2, <1>3, <2>1, <2>5, <3>2
    <3> QED  BY <2>3, <3>2, <3>3
  <2>6. CASE q # r
    <3>1. reps'[q] = reps[q] /\ b = a
      BY <1>3, <1>6, <2>4, <2>6
    <3> QED  BY <2>1, <2>3, <3>1
  <2> QED  BY <2>5, <2>6
<1>11. RunsOnce'
  BY <1>1, <1>3, <1>4, <1>7, <1>10, OnceMoves
<1> QED  BY <1>8, <1>9, <1>11 DEF Inv

\* The look-up that ends is taken off the count.
LEMMA InvEndGet == ASSUME Inv, EndGet  PROVE Inv'
<1> DEFINE r == Top.rep
           rec == [reps[r] EXCEPT !.ngets = Finished(r)]
<1>1. /\ todo # <<>> /\ Top.do = "endget" /\ prog' = prog /\ left' = left
      /\ todo' = Rest /\ reps' = [reps EXCEPT ![r] = rec]
      /\ Shape /\ r \in Recs /\ RecordOk(r) /\ reps[r] \in RepType /\ Top \in TaskType
      /\ Rest \in Seq(TaskType)
  BY TopType, HeadTailProperties DEF EndGet, Inv, Shape, Rest
<1>2. PICK new \in Seq(TaskType) : Len(new) = 0 /\ todo' = new \o Rest
  BY <1>1, NothingNew
<1>3. (\A q : Top \in EndGets(q) <=> q = r) /\ Top.do \notin HashTasks /\ Top.do # "built"
  BY <1>1 DEF EndGets, HashTasks
<1>4. \A q \in Recs : Count(todo, EndGets(q)) \in Nat /\ left[q] \in Nat
  BY <1>1, CountType, LenProperties DEF Shape, Recs
<1>5. reps[r].ngets = Count(todo, EndGets(r)) + left[r] /\ Count(todo, EndGets(r)) # 0
  <2>1. todo[1] = Top /\ 1 \in 1 .. Len(todo)
    BY <1>1, <1>2, StepPlaces DEF Shape, Top
  <2>2. Count(todo, EndGets(r)) # 0
    BY <1>1, <1>3, <2>1, CountNone DEF Shape
  <2> QED  BY <1>1, <2>2 DEF Inv, Balanced
<1>6. Finished(r) \in Nat /\ reps[r].ngets \in Nat
  BY <1>1, <1>4, <1>5 DEF Finished
<1>7. /\ rec \in RepType /\ rec.dom = reps[r].dom /\ rec.orig = reps[r].orig
      /\ rec.child = reps[r].child /\ rec.hashed = reps[r].hashed
      /\ rec.parents = reps[r].parents /\ rec.extendees = reps[r].extendees
      /\ rec.opened = reps[r].opened /\ rec.built = reps[r].built
      /\ rec.ngets = reps[r].ngets - 1
  BY <1>1, <1>6 DEF RepType, Finished
<1> HIDE DEF rec
<1>8. /\ Grown /\ Len(reps') = Len(reps)
      /\ \A q \in Recs : reps'[q] = IF q = r THEN rec ELSE reps[q]
  <2>1. /\ \A i \in 1 .. Len(rec.parents) : rec.parents[i] \in Recs
        /\ \A i \in 1 .. Len(rec.extendees) : rec.extendees[i] \in Recs
    BY <1>1, <1>7 DEF RecordOk
  <2> QED  BY <1>1, <1>7, <2>1, Changed, ZenonT(30)
<1>9. SameBodies
  BY <1>1, <1>7, <1>8 DEF SameBodies
<1>10. Fits(new) /\ (\A T : Count(new, T) = 0) /\ \A i \in 1 .. Len(new) : new[i].do # "built"
  BY <1>2, <1>3, NoneNew
<1>11. Shape' /\ HashFirst'
  BY <1>1, <1>2, <1>8, <1>10, StepMoves
<1>12. RunsOnce'
  BY <1>1, <1>2, <1>3, <1>8, <1>9, <1>10, OnceSame
<1>13. \A q \in Recs :
          /\ left'[q] = left[q]
          /\ reps'[q].ngets = reps[q].ngets + Count(new, EndGets(q))
                              - (IF Top \in EndGets(q) THEN 1 ELSE 0)
  <2>1. ASSUME NEW q \in Recs
        PROVE  reps'[q].ngets = reps[q].ngets + 0 - (IF q = r THEN 1 ELSE 0)
    <3>1. reps[q].ngets \in Nat
      BY <1>1, RecType
    <3>2. CASE q = r
      BY <1>6, <1>7, <1>8, <3>2
    <3>3. CASE q # r
      BY <1>8, <3>1, <3>3
    <3> QED  BY <3>2, <3>3
  <2>2. \A q \in Recs : Count(new, EndGets(q)) = 0 /\ (Top \in EndGets(q) <=> q = r)
    BY <1>3, <1>10
  <2> QED  BY <1>1, <2>1, <2>2
<1>14. Balanced'
  BY <1>1, <1>2, <1>8, <1>10, <1>13, BalanceMoves
<1> QED  BY <1>11, <1>12, <1>14 DEF Inv

\* A sequence of four tasks, and what it counts.
Four(new, a, b, c, d) ==
    /\ new \in Seq(TaskType) /\ Len(new) = 4
    /\ new[1] = a /\ new[2] = b /\ new[3] = c /\ new[4] = d
    /\ \A T : Count(new, T) = (IF a \in T THEN 1 ELSE 0) + (IF b \in T THEN 1 ELSE 0)
                            + (IF c \in T THEN 1 ELSE 0) + (IF d \in T THEN 1 ELSE 0)

\* Two tasks after two are four.
LEMMA FourTasks ==
    ASSUME NEW a \in TaskType, NEW b \in TaskType, NEW c \in TaskType, NEW d \in TaskType,
           NEW new, new = <<a, b>> \o <<c, d>>
    PROVE  Four(new, a, b, c, d)
<1> PICK s, t : s = <<a, b>> /\ t = <<c, d>>
  OBVIOUS
<1>1. /\ s \in Seq(TaskType) /\ Len(s) = 2 /\ s[1] = a /\ s[2] = b
      /\ t \in Seq(TaskType) /\ Len(t) = 2 /\ t[1] = c /\ t[2] = d
  OBVIOUS
<1>2. /\ new \in Seq(TaskType) /\ Len(new) = 4
      /\ \A i \in 1 .. 4 : new[i] = IF i <= 2 THEN s[i] ELSE t[i - 2]
  BY <1>1, ConcatProperties
<1>3. new[1] = a /\ new[2] = b /\ new[3] = c /\ new[4] = d
  BY <1>1, <1>2
<1>4. ASSUME NEW x \in TaskType, NEW y \in TaskType, NEW T
      PROVE  Count(<<x, y>>, T) = (IF x \in T THEN 1 ELSE 0) + (IF y \in T THEN 1 ELSE 0)
  <2>1. <<x>> \in Seq(TaskType) /\ <<y>> \in Seq(TaskType)
    OBVIOUS
  <2>2. <<x>> \o <<y>> = <<x, y>>
    BY Joined
  <2>3. \A u, v \in Seq(TaskType) : Count(u \o v, T) = Count(u, T) + Count(v, T)
    BY CountConcat
  <2>4. Count(<<x>> \o <<y>>, T) = Count(<<x>>, T) + Count(<<y>>, T)
    BY <2>1, <2>3
  <2> QED  BY <2>2, <2>4, CountOne
<1>5. ASSUME NEW T
      PROVE  Count(new, T) = (IF a \in T THEN 1 ELSE 0) + (IF b \in T THEN 1 ELSE 0)
                             + (IF c \in T THEN 1 ELSE 0) + (IF d \in T THEN 1 ELSE 0)
  <2>1. Count(new, T) = Count(s, T) + Count(t, T)
    BY <1>1, CountConcat
  <2>2. /\ Count(s, T) = (IF a \in T THEN 1 ELSE 0) + (IF b \in T THEN 1 ELSE 0)
        /\ Count(t, T) = (IF c \in T THEN 1 ELSE 0) + (IF d \in T THEN 1 ELSE 0)
    BY <1>4
  <2>3. PICK i, j, k, l : /\ i = (IF a \in T THEN 1 ELSE 0) /\ j = (IF b \in T THEN 1 ELSE 0)
                          /\ k = (IF c \in T THEN 1 ELSE 0) /\ l = (IF d \in T THEN 1 ELSE 0)
    OBVIOUS
  <2>4. i \in Nat /\ j \in Nat /\ k \in Nat /\ l \in Nat
    BY <2>3
  <2>5. Count(new, T) = (i + j) + (k + l)
    BY <2>1, <2>2, <2>3
  <2>6. Count(new, T) = i + j + k + l
    BY <2>4, <2>5
  <2> QED  BY <2>3, <2>6
<1> QED  BY <1>2, <1>3, <1>5 DEF Four

\* The records are the same, and the look-ups left are as many as there are.
LEMMA GrownSame ==
    ASSUME Shape, prog' = prog, reps' = reps, left' \in Seq(Nat), Len(left') = Len(reps)
    PROVE  Grown /\ SameBodies
<1>1. Recs = 1 .. Len(reps) /\ Len(reps) \in Nat
  BY LenProperties DEF Recs, Shape
<1>2. \A r \in Recs : RecordOk(r)'
  BY DEF Shape, RecordOk, Doms, Recs
<1> QED  BY <1>1, <1>2 DEF Grown, SameBodies, Shape

\* Records that are there may be changed, and others added, if they are still
\* about the same domains and name records that are there.
LEMMA GrownBy ==
    ASSUME Shape, prog' = prog, reps' \in Seq(RepType), left' \in Seq(Nat),
           Len(left') = Len(reps'), Len(reps') >= Len(reps),
           \A q \in Recs :
              /\ reps'[q].dom = reps[q].dom /\ reps'[q].orig = reps[q].orig
              /\ reps'[q].child = reps[q].child /\ (reps[q].hashed => reps'[q].hashed),
           \A q \in 1 .. Len(reps') :
              /\ \A i \in 1 .. Len(reps'[q].parents) : reps'[q].parents[i] \in 1 .. Len(reps')
              /\ \A i \in 1 .. Len(reps'[q].extendees) : reps'[q].extendees[i] \in 1 .. Len(reps'),
           \A q \in 1 .. Len(reps') : q \notin Recs =>
              /\ reps'[q].dom \in Doms
              /\ reps'[q].orig \in Recs /\ reps'[q].child \in Recs
              /\ ~reps'[q].opened /\ ~reps'[q].built
              /\ reps'[q].ngets = 0 /\ left'[q] = 0
    PROVE  Grown
<1>1. Recs' = 1 .. Len(reps') /\ Recs \subseteq Recs' /\ Doms' = Doms
  <2>1. Len(reps) \in Nat /\ Len(reps') \in Nat
    BY LenProperties DEF Shape
  <2> QED  BY <2>1 DEF Recs, Doms
<1>2. ASSUME NEW q \in Recs'  PROVE RecordOk(q)'
  <2>1. PICK x : x = reps'[q]
    OBVIOUS
  <2>2. x.dom \in Doms' /\ (x.orig # None => x.orig \in Recs' /\ x.child \in Recs')
    <3>1. CASE q \in Recs
      <4>1. RecordOk(q)
        BY <3>1 DEF Shape
      <4>2. x.dom = reps[q].dom /\ x.orig = reps[q].orig /\ x.child = reps[q].child
        BY <2>1, <3>1
      <4> QED  BY <1>1, <4>1, <4>2 DEF RecordOk
    <3>2. CASE q \notin Recs
      <4>1. x.dom \in Doms /\ x.orig \in Recs /\ x.child \in Recs
        BY <1>1, <1>2, <2>1, <3>2
      <4> QED  BY <1>1, <4>1
    <3> QED  BY <3>1, <3>2
  <2>3. /\ \A i \in 1 .. Len(x.parents) : x.parents[i] \in Recs'
        /\ \A i \in 1 .. Len(x.extendees) : x.extendees[i] \in Recs'
    BY <1>1, <1>2, <2>1
  <2> QED  BY <2>1, <2>2, <2>3 DEF RecordOk
<1> HIDE DEF Recs
<1>3. \A q \in 1 .. Len(reps') : RecordOk(q)'
  BY <1>1, <1>2
<1> QED  BY <1>3 DEF Grown

\* The look-up that begins is put on the count.
LEMMA InvGet == ASSUME Inv, get  PROVE Inv'
<1> DEFINE r == Top.rep
           rec == [reps[r] EXCEPT !.ngets = @ + 1]
           a == Do("prepareHash", r)
           b == Do("build", r)
           c == Look("own", r, Top.exp, Top.skip)
           d == Look("endget", r, Top.exp, Top.skip)
<1>1. /\ todo # <<>> /\ Top.do = "get" /\ ~IsExtend(r) /\ prog' = prog /\ left' = left
      /\ todo' = <<a, b>> \o <<c, d>> \o Rest /\ reps' = [reps EXCEPT ![r] = rec]
      /\ Shape /\ r \in Recs /\ RecordOk(r) /\ reps[r] \in RepType /\ r \in Nat
      /\ Top.exp \in Exp /\ Top.skip \in BOOLEAN
  BY TopType DEF get, Inv, Lookings, PrepareGetter
<1>2. /\ rec \in RepType /\ rec.dom = reps[r].dom /\ rec.orig = reps[r].orig
      /\ rec.child = reps[r].child /\ rec.hashed = reps[r].hashed
      /\ rec.parents = reps[r].parents /\ rec.extendees = reps[r].extendees
      /\ rec.opened = reps[r].opened /\ rec.built = reps[r].built
      /\ rec.ngets = reps[r].ngets + 1
  <2>1. PICK n \in Nat : n = reps[r].ngets + 1
    BY <1>1, RecType
  <2>2. rec = [reps[r] EXCEPT !.ngets = n]
    BY <2>1
  <2> HIDE DEF rec
  <2> QED  BY <1>1, <2>1, <2>2 DEF RepType
<1>3. /\ a \in TaskType /\ a.do = "prepareHash" /\ a.rep = r
      /\ b \in TaskType /\ b.do = "build" /\ b.rep = r
  BY <1>1, DoIs DEF Whats
<1>4. /\ c \in TaskType /\ c.do = "own" /\ c.rep = r
      /\ d \in TaskType /\ d.do = "endget" /\ d.rep = r
  BY <1>1, LookIs DEF Lookings
<1> HIDE DEF rec, a, b, c, d
<1>5. /\ Grown /\ Len(reps') = Len(reps)
      /\ \A q \in Recs : reps'[q] = IF q = r THEN rec ELSE reps[q]
  <2>1. /\ \A i \in 1 .. Len(rec.parents) : rec.parents[i] \in Recs
        /\ \A i \in 1 .. Len(rec.extendees) : rec.extendees[i] \in Recs
    BY <1>1, <1>2 DEF RecordOk
  <2> QED  BY <1>1, <1>2, <2>1, Changed
<1>6. SameBodies
  BY <1>1, <1>2, <1>5 DEF SameBodies
<1> PICK new : new = <<a, b>> \o <<c, d>>
  OBVIOUS
<1>7. /\ new \in Seq(TaskType) /\ Len(new) = 4
      /\ new[1] = a /\ new[2] = b /\ new[3] = c /\ new[4] = d
      /\ \A T : Count(new, T) = (IF a \in T THEN 1 ELSE 0) + (IF b \in T THEN 1 ELSE 0)
                              + (IF c \in T THEN 1 ELSE 0) + (IF d \in T THEN 1 ELSE 0)
  <2>1. PICK w \in TaskType, x \in TaskType, y \in TaskType, z \in TaskType :
           w = a /\ x = b /\ y = c /\ z = d
    BY <1>3, <1>4
  <2>2. new = <<w, x>> \o <<y, z>>
    BY <2>1
  <2>3. Four(new, w, x, y, z)
    BY <2>2, FourTasks
  <2> QED  BY <2>1, <2>3 DEF Four
<1>8. todo' = new \o Rest
  BY <1>1
<1>9. \A i \in 1 .. Len(new) : i = 1 \/ i = 2 \/ i = 3 \/ i = 4
  BY <1>7
<1>10. Fits(new) /\ \A i \in 1 .. Len(new) : new[i].do # "built"
  <2>1. \A i \in 1 .. Len(new) :
           TaskOk(new[i]) /\ new[i].do # "built" /\ new[i].rep = r /\ (new[i].do = "build" => i = 2)
    BY <1>1, <1>3, <1>4, <1>7, <1>9 DEF TaskOk
  <2>2. 1 \in 1 .. 2 - 1 /\ new[1].rep = r /\ new[1].do \in HashTasks
    BY <1>3, <1>7 DEF HashTasks
  <2>3. \A i \in 1 .. Len(new) : new[i].do = "build" =>
          /\ ~IsExtend(new[i].rep)
          /\ \E j \in 1 .. i - 1 : new[j].rep = new[i].rep /\ new[j].do \in HashTasks
    BY <1>1, <2>1, <2>2
  <2>4. Top.do \notin HashTasks
    BY <1>1 DEF HashTasks
  <2> QED  BY <2>1, <2>3, <2>4 DEF Fits
<1>11. Shape' /\ HashFirst'
  BY <1>1, <1>5, <1>7, <1>8, <1>10, StepMoves
<1>12. RunsOnce'
  BY <1>1, <1>5, <1>6, <1>7, <1>8, <1>10, OnceSame
<1>13. \A q \in Recs :
          /\ left'[q] = left[q]
          /\ reps'[q].ngets = reps[q].ngets + Count(new, EndGets(q))
                              - (IF Top \in EndGets(q) THEN 1 ELSE 0)
  <2>1. ASSUME NEW q \in Recs
        PROVE  reps'[q].ngets = reps[q].ngets + (IF q = r THEN 1 ELSE 0) - 0
    <3>1. reps[q].ngets \in Nat /\ reps[r].ngets \in Nat
      BY <1>1, RecType
    <3>2. CASE q = r
      BY <1>2, <1>5, <3>1, <3>2
    <3>3. CASE q # r
      BY <1>5, <3>1, <3>3
    <3> QED  BY <3>2, <3>3
  <2>2. ASSUME NEW q \in Recs
        PROVE  /\ a \notin EndGets(q) /\ b \notin EndGets(q) /\ c \notin EndGets(q)
               /\ (d \in EndGets(q) <=> q = r) /\ Top \notin EndGets(q)
    BY <1>1, <1>3, <1>4 DEF EndGets
  <2>3. \A q \in Recs : Count(new, EndGets(q)) = IF q = r THEN 1 ELSE 0
    BY <1>7, <2>2
  <2> QED  BY <1>1, <2>1, <2>2, <2>3
<1>14. Balanced'
  BY <1>1, <1>5, <1>7, <1>8, <1>10, <1>13, BalanceMoves
<1> QED  BY <1>11, <1>12, <1>14 DEF Inv

-----------------------------------------------------------------------------
(* ERRORs and calls by the client.                                         *)

\* The empty sequence of tasks.
LEMMA NoTasks ==
    \E none \in Seq(TaskType) : none = <<>> /\ Len(none) = 0 /\ \A T : Count(none, T) = 0
<1>1. <<>> \in Seq(TaskType) /\ Len(<<>>) = 0
  OBVIOUS
<1>2. \A none \in Seq(TaskType) : Len(none) = 0 => \A T : Count(none, T) = 0
  BY NoneNew
<1> QED  BY <1>1, <1>2

\* No task is left, and each count is of what an ERROR has cut off.
LEMMA ErrorKept ==
    ASSUME Inv, todo' = <<>>, Grown, Len(reps') = Len(reps), SameBodies,
           \A r \in Recs : reps'[r].ngets = left'[r]
    PROVE  Inv'
<1>1. PICK none \in Seq(TaskType) : none = todo' /\ Len(none) = 0 /\ \A T : Count(none, T) = 0
  BY NoTasks
<1>2. 1 .. Len(none) = {}
  BY <1>1
<1>3. Recs' = Recs /\ Doms' = Doms
  BY DEF Recs, Doms, Grown
<1>4. Shape'
  <2>1. prog' = prog /\ (\E n \in Dom : prog \in Program(1 .. n)) /\ Doms \subseteq Recs
    BY DEF Inv, Shape, Grown
  <2>2. \A r \in Recs : RecordOk(r)'
    BY DEF Grown, Recs
  <2>3. reps' \in Seq(RepType) /\ left' \in Seq(Nat) /\ Len(left') = Len(reps')
    BY DEF Grown
  <2> QED  BY <1>1, <1>2, <1>3, <2>1, <2>2, <2>3 DEF Shape
<1>5. HashFirst'
  BY <1>1, <1>2 DEF HashFirst
<1>6. ASSUME NEW r \in Recs
      PROVE  /\ reps'[r].opened => reps'[r].hashed
             /\ reps'[r].built => reps'[r].opened
             /\ 0 <= (IF reps'[r].opened /\ ~reps'[r].built THEN 1 ELSE 0)
  BY DEF Inv, RunsOnce, SameBodies, Grown
<1>7. RunsOnce'
  BY <1>1, <1>2, <1>3, <1>6 DEF RunsOnce
<1>8. Balanced'
  <2>1. \A r \in Recs : left'[r] \in Nat
    BY LenProperties DEF Grown, Recs
  <2> QED  BY <1>1, <1>2, <1>3, <2>1 DEF Balanced
<1> QED  BY <1>4, <1>5, <1>7, <1>8 DEF Inv

\* An ERROR counts as left the look-ups that were in progress.
LEMMA InvNeed == ASSUME Inv, Need  PROVE Inv'
<1>1. /\ todo # <<>> /\ Top.do = "need" /\ prog' = prog /\ reps' = reps /\ Shape
  BY DEF Need, Inv
<1>2. CASE found # None
  <2>1. todo' = Rest /\ left' = left
    BY <1>2 DEF Need
  <2>2. Grown /\ SameCounts /\ SameBodies
    BY <1>1, <2>1, SameRecords
  <2> QED  BY <1>1, <2>1, <2>2, DoneStep DEF HashTasks
<1>3. CASE found = None
  <2>1. todo' = <<>> /\ left' = [r \in DOMAIN left |-> left[r] + Depth(r)]
    BY <1>3 DEF Need, Error
  <2>2. \A r \in Recs : Depth(r) = Count(todo, EndGets(r)) /\ Depth(r) \in Nat
    BY <1>1, DepthIs, CountType DEF Shape
  <2>3. DOMAIN left = Recs /\ Recs = 1 .. Len(reps) /\ Len(reps) \in Nat
    BY <1>1, LenProperties DEF Shape, Recs
  <2>4. \A r \in Recs : left'[r] = left[r] + Depth(r) /\ left'[r] \in Nat
    BY <1>1, <2>1, <2>2, <2>3, RecType
  <2>5. left' \in Seq(Nat) /\ Len(left') = Len(reps)
    BY <2>1, <2>3, <2>4
  <2>6. Grown /\ SameBodies
    BY <1>1, <2>3, <2>5, GrownSame
  <2>7. \A r \in Recs : reps'[r].ngets = left'[r]
    <3>1. ASSUME NEW r \in Recs  PROVE reps[r].ngets = Count(todo, EndGets(r)) + left[r]
      BY <3>1 DEF Inv, Balanced
    <3>2. \A r \in Recs : left[r] \in Nat
      BY <1>1, RecType
    <3> QED  BY <1>1, <2>2, <2>4, <3>1, <3>2
  <2> QED  BY <1>1, <2>1, <2>6, <2>7, ErrorKept
<1> QED  BY <1>2, <1>3

\* A broken get is counted, and never counted down.
LEMMA InvBreakCircle == ASSUME Inv, BreakCircle  PROVE Inv'
<1> DEFINE r == Top.rep
           rec == [reps[r] EXCEPT !.ngets = @ + 1]
<1>1. /\ todo # <<>> /\ prog' = prog /\ reps' = [reps EXCEPT ![r] = rec] /\ todo' = <<>>
      /\ left' = [q \in DOMAIN left |-> left[q] + Depth(q) + (IF q = r THEN 1 ELSE 0)]
      /\ Shape /\ r \in Recs /\ RecordOk(r) /\ reps[r] \in RepType
  BY TopType DEF BreakCircle, Inv
<1>2. /\ rec \in RepType /\ rec.dom = reps[r].dom /\ rec.orig = reps[r].orig
      /\ rec.child = reps[r].child /\ rec.hashed = reps[r].hashed
      /\ rec.parents = reps[r].parents /\ rec.extendees = reps[r].extendees
      /\ rec.opened = reps[r].opened /\ rec.built = reps[r].built
      /\ rec.ngets = reps[r].ngets + 1
  <2>1. PICK n \in Nat : n = reps[r].ngets + 1
    BY <1>1, RecType
  <2>2. rec = [reps[r] EXCEPT !.ngets = n]
    BY <2>1
  <2> HIDE DEF rec
  <2> QED  BY <1>1, <2>1, <2>2 DEF RepType
<1> HIDE DEF rec
<1>3. \A q \in Recs : Depth(q) = Count(todo, EndGets(q)) /\ Depth(q) \in Nat
  BY <1>1, DepthIs, CountType DEF Shape
<1>4. DOMAIN left = Recs /\ Recs = 1 .. Len(reps) /\ Len(reps) \in Nat
  BY <1>1, LenProperties DEF Shape, Recs
<1>5. \A q \in Recs : /\ left'[q] = left[q] + Depth(q) + (IF q = r THEN 1 ELSE 0)
                     /\ left'[q] \in Nat /\ left[q] \in Nat
  BY <1>1, <1>3, <1>4, RecType
<1>6. left' \in Seq(Nat) /\ Len(left') = Len(reps)
  BY <1>1, <1>4, <1>5
<1>7. /\ reps' \in Seq(RepType) /\ Len(reps') = Len(reps)
      /\ \A q \in Recs : reps'[q] = IF q = r THEN rec ELSE reps[q]
  BY <1>1, <1>2, ExceptSeq DEF Shape, Recs
<1>8. Grown
  <2>1. \A q \in Recs :
           /\ reps'[q].dom = reps[q].dom /\ reps'[q].orig = reps[q].orig
           /\ reps'[q].child = reps[q].child /\ (reps[q].hashed => reps'[q].hashed)
           /\ reps'[q].parents = reps[q].parents /\ reps'[q].extendees = reps[q].extendees
    BY <1>2, <1>7
  <2>2. \A q \in Recs : RecordOk(q)
    BY <1>1 DEF Shape
  <2>3. \A q \in Recs :
           /\ \A i \in 1 .. Len(reps'[q].parents) : reps'[q].parents[i] \in Recs
           /\ \A i \in 1 .. Len(reps'[q].extendees) : reps'[q].extendees[i] \in Recs
    BY <2>1, <2>2 DEF RecordOk
  <2>4. 1 .. Len(reps') = Recs /\ Len(reps') >= Len(reps) /\ Len(left') = Len(reps')
    BY <1>4, <1>6, <1>7
  <2>5. \A q \in 1 .. Len(reps') :
           /\ \A i \in 1 .. Len(reps'[q].parents) : reps'[q].parents[i] \in 1 .. Len(reps')
           /\ \A i \in 1 .. Len(reps'[q].extendees) : reps'[q].extendees[i] \in 1 .. Len(reps')
    BY <2>3, <2>4
  <2>6. \A q \in 1 .. Len(reps') : q \in Recs
    BY <2>4
  <2>7. \A q \in Recs :
           /\ reps'[q].dom = reps[q].dom /\ reps'[q].orig = reps[q].orig
           /\ reps'[q].child = reps[q].child /\ (reps[q].hashed => reps'[q].hashed)
    BY <2>1
  <2> QED  BY <1>1, <1>6, <1>7, <2>4, <2>5, <2>6, <2>7, GrownBy
<1>9. SameBodies
  BY <1>2, <1>7 DEF SameBodies
<1>10. \A q \in Recs : reps'[q].ngets = left'[q]
  <2>1. ASSUME NEW q \in Recs
        PROVE  /\ reps[q].ngets = Count(todo, EndGets(q)) + left[q]
               /\ reps'[q].ngets = reps[q].ngets + (IF q = r THEN 1 ELSE 0)
    <3>1. reps[q].ngets \in Nat
      BY <1>1, RecType
    <3>2. reps'[q].ngets = reps[q].ngets + (IF q = r THEN 1 ELSE 0)
      BY <1>2, <1>7, <3>1
    <3> QED  BY <3>2 DEF Inv, Balanced
  <2> QED  BY <1>3, <1>5, <2>1
<1> QED  BY <1>1, <1>7, <1>8, <1>9, <1>10, ErrorKept

\* The client's look-up is the only task.
LEMMA InvCall == ASSUME Inv, NEW d \in Doms, NEW e \in Exp, Call(d, e)  PROVE Inv'
<1> DEFINE t == Look("getExport", d, e, FALSE)
<1>1. todo = <<>> /\ todo' = <<t>> /\ UNCHANGED <<prog, reps, left>> /\ Shape
  BY DEF Call, Inv
<1>2. d \in Recs /\ d \in Nat
  BY <1>1, LenProperties DEF Shape, Recs
<1>3. t \in TaskType /\ t.do = "getExport" /\ t.rep = d
  BY <1>2 DEF Look, TaskType, Lookings
<1> HIDE DEF t
<1>4. Recs' = Recs /\ Doms' = Doms /\ \A r : RecordOk(r)' <=> RecordOk(r)
  BY <1>1 DEF RecordOk, Recs, Doms
<1>5. todo' \in Seq(TaskType) /\ Len(todo') = 1 /\ todo'[1] = t
  BY <1>1, <1>3
<1>6. Shape'
  <2>1. \A i \in 1 .. Len(todo') : todo'[i] = t
    BY <1>5
  <2>2. \A i \in 1 .. Len(todo') :
           todo'[i].rep \in Recs' /\ (todo'[i].do = "expand" => reps'[todo'[i].rep].orig # None)
    BY <1>2, <1>3, <1>4, <2>1
  <2>3. (\A i \in 1 .. Len(todo) : TaskOk(todo[i]))'
    BY <2>2 DEF TaskOk
  <2>4. (\A q \in Recs : RecordOk(q))'
    BY <1>1, <1>4 DEF Shape
  <2>5. /\ \E n \in Dom : prog' \in Program(1 .. n)
        /\ reps' \in Seq(RepType) /\ left' \in Seq(Nat) /\ Len(left') = Len(reps')
        /\ Doms' \subseteq Recs'
    BY <1>1, <1>4 DEF Shape
  <2> QED  BY <1>5, <2>3, <2>4, <2>5 DEF Shape
<1>7. HashFirst'
  BY <1>3, <1>5 DEF HashFirst
<1>8. ASSUME NEW r
      PROVE  /\ Count(todo', EndGets(r)) = Count(todo, EndGets(r))
             /\ Count(todo', Builts(r)) = Count(todo, Builts(r))
  <2>1. t \notin EndGets(r) /\ t \notin Builts(r)
    BY <1>3 DEF EndGets, Builts, Do
  <2>2. Count(todo', EndGets(r)) = 0 /\ Count(todo', Builts(r)) = 0
    BY <1>1, <2>1, CountOne
  <2>3. \A T : Count(todo, T) = 0
    BY <1>1, NoTasks
  <2> QED  BY <2>2, <2>3
<1>9. RunsOnce' /\ Balanced'
  BY <1>1, <1>4, <1>8 DEF RunsOnce, Balanced, Inv
<1> QED  BY <1>6, <1>7, <1>9 DEF Inv

-----------------------------------------------------------------------------
(* Steps that put domains together and make records.                       *)

\* An extend makes the other domains extendees of the first.
LEMMA InvExtendFill == ASSUME Inv, extendFill  PROVE Inv'
<1> DEFINE r == Top.rep
           pars == prog.extends[reps[r].dom]
           h == Head(pars)
<1>1. /\ todo # <<>> /\ Top.do = "prepareHash" /\ prog' = prog /\ left' = left /\ todo' = Rest
      /\ IsExtend(r) /\ Shape /\ r \in Recs /\ RecordOk(r)
      /\ reps' = [reps EXCEPT ![r].parents = pars, ![h].extendees = Tail(pars)]
  BY TopType DEF extendFill, Inv
<1>2. pars \in Seq(Doms) /\ pars # <<>> /\ Doms \subseteq Recs /\ Doms \subseteq Nat
  BY <1>1, ProgramType DEF RecordOk, IsExtend, Shape
<1>3. h \in Recs /\ Tail(pars) \in Seq(Doms)
  BY <1>2, HeadTailProperties
<1>4. PICK p, t : p = pars /\ t = Tail(pars)
  OBVIOUS
<1>5. /\ p \in Seq(Nat) /\ \A i \in 1 .. Len(p) : p[i] \in Recs
      /\ t \in Seq(Nat) /\ \A i \in 1 .. Len(t) : t[i] \in Recs
  <2>1. p \in Seq(Doms) /\ t \in Seq(Doms)
    BY <1>2, <1>3, <1>4
  <2>2. p \in Seq(Nat) /\ t \in Seq(Nat)
    BY <1>2, <2>1, SeqMonotonic
  <2> QED  BY <1>2, <2>1, <2>2
<1>6. \A q \in Recs : reps[q] \in RepType
  BY <1>1, RecType
<1>7. PICK g \in Recs : g = h
  BY <1>3
<1> HIDE DEF pars, h
<1>8. PICK mid : mid = [reps EXCEPT ![r] = [@ EXCEPT !.parents = p]]
  OBVIOUS
<1>9. /\ mid \in Seq(RepType) /\ Len(mid) = Len(reps)
      /\ \A q \in Recs : mid[q] = IF q = r THEN [reps[q] EXCEPT !.parents = p] ELSE reps[q]
  <2>1. PICK x : x = [reps[r] EXCEPT !.parents = p]
    OBVIOUS
  <2>2. x \in RepType /\ mid = [reps EXCEPT ![r] = x]
    <3>1. PICK z \in RepType : z = reps[r]
      BY <1>1, <1>6
    <3>2. x = [z EXCEPT !.parents = p]
      BY <2>1, <3>1
    <3>3. x \in RepType
      BY <1>5, <3>2 DEF RepType
    <3> QED  BY <1>8, <2>1, <3>3
  <2>3. reps \in Seq(RepType) /\ r \in 1 .. Len(reps)
    BY <1>1 DEF Shape, Recs
  <2>4. /\ mid \in Seq(RepType) /\ Len(mid) = Len(reps)
        /\ \A q \in 1 .. Len(reps) : mid[q] = IF q = r THEN x ELSE reps[q]
    BY <2>2, <2>3, ExceptSeq
  <2> QED  BY <2>1, <2>4 DEF Recs
<1>10. PICK y : y = [mid[g] EXCEPT !.extendees = t]
  OBVIOUS
<1>11. mid[g] \in RepType
  BY <1>9, LenProperties DEF Recs
<1>12. y \in RepType /\ reps' = [mid EXCEPT ![g] = y]
  <2>1. y \in RepType
    BY <1>5, <1>10, <1>11 DEF RepType
  <2>2. reps' = [reps EXCEPT ![r].parents = p, ![g].extendees = t]
    BY <1>1, <1>4, <1>7
  <2> QED  BY <1>8, <1>10, <2>1, <2>2
<1>13. /\ reps' \in Seq(RepType) /\ Len(reps') = Len(reps)
       /\ \A q \in Recs : reps'[q] = IF q = g THEN y ELSE mid[q]
  <2>1. g \in 1 .. Len(mid)
    BY <1>7, <1>9 DEF Recs
  <2>2. /\ reps' \in Seq(RepType) /\ Len(reps') = Len(mid)
        /\ \A q \in 1 .. Len(mid) : reps'[q] = IF q = g THEN y ELSE mid[q]
    BY <1>9, <1>12, <2>1, ExceptSeq
  <2> QED  BY <1>9, <2>2 DEF Recs
<1>14. ASSUME NEW q \in Recs
       PROVE  /\ reps'[q].dom = reps[q].dom /\ reps'[q].orig = reps[q].orig
              /\ reps'[q].child = reps[q].child /\ reps'[q].hashed = reps[q].hashed
              /\ reps'[q].opened = reps[q].opened /\ reps'[q].built = reps[q].built
              /\ reps'[q].ngets = reps[q].ngets
              /\ reps'[q].parents = p \/ reps'[q].parents = reps[q].parents
              /\ reps'[q].extendees = t \/ reps'[q].extendees = reps[q].extendees
  <2>1. PICK a, b, c : a = reps[q] /\ b = mid[q] /\ c = reps'[q]
    OBVIOUS
  <2>2. a \in RepType /\ b \in RepType
    BY <1>6, <1>9, <2>1, LenProperties DEF Recs
  <2>3. b = a \/ b = [a EXCEPT !.parents = p]
    BY <1>9, <2>1
  <2>4. c = b \/ c = [b EXCEPT !.extendees = t]
    BY <1>10, <1>13, <2>1
  <2>5. /\ b.dom = a.dom /\ b.orig = a.orig /\ b.child = a.child /\ b.hashed = a.hashed
        /\ b.opened = a.opened /\ b.built = a.built /\ b.ngets = a.ngets
        /\ b.parents = p \/ b.parents = a.parents
        /\ b.extendees = a.extendees
    BY <2>2, <2>3 DEF RepType
  <2>6. /\ c.dom = b.dom /\ c.orig = b.orig /\ c.child = b.child /\ c.hashed = b.hashed
        /\ c.opened = b.opened /\ c.built = b.built /\ c.ngets = b.ngets
        /\ c.parents = b.parents
        /\ c.extendees = t \/ c.extendees = b.extendees
    BY <2>2, <2>4 DEF RepType
  <2> QED  BY <2>1, <2>5, <2>6
<1>15. Len(reps) \in Nat /\ 1 .. Len(reps') = Recs /\ left' \in Seq(Nat)
       /\ Len(left') = Len(reps') /\ Len(reps') >= Len(reps)
  BY <1>1, <1>13, LenProperties DEF Shape, Recs
<1>16. \A q \in 1 .. Len(reps') :
          /\ \A i \in 1 .. Len(reps'[q].parents) : reps'[q].parents[i] \in 1 .. Len(reps')
          /\ \A i \in 1 .. Len(reps'[q].extendees) : reps'[q].extendees[i] \in 1 .. Len(reps')
  <2>1. ASSUME NEW q \in Recs
        PROVE  /\ \A i \in 1 .. Len(reps'[q].parents) : reps'[q].parents[i] \in Recs
               /\ \A i \in 1 .. Len(reps'[q].extendees) : reps'[q].extendees[i] \in Recs
    <3>1. RecordOk(q)
      BY <1>1 DEF Shape
    <3>2. /\ reps'[q].parents = p \/ reps'[q].parents = reps[q].parents
          /\ reps'[q].extendees = t \/ reps'[q].extendees = reps[q].extendees
      BY <1>14
    <3> QED  BY <1>5, <3>1, <3>2 DEF RecordOk
  <2> QED  BY <1>15, <2>1
<1>17. \A q \in Recs :
          /\ reps'[q].dom = reps[q].dom /\ reps'[q].orig = reps[q].orig
          /\ reps'[q].child = reps[q].child /\ (reps[q].hashed => reps'[q].hashed)
  BY <1>14
<1>18. \A q \in 1 .. Len(reps') : q \in Recs
  BY <1>15
<1>19. Grown
  BY <1>1, <1>13, <1>15, <1>16, <1>17, <1>18, GrownBy
<1>20. SameCounts /\ SameBodies
  BY <1>1, <1>14 DEF SameCounts, SameBodies
<1> QED  BY <1>1, <1>19, <1>20, DoneStep

\* Records that have just been made from an original.
Fresh(new) ==
    \A i \in 1 .. Len(new) :
       /\ new[i].dom \in Doms /\ new[i].orig \in Recs /\ new[i].child \in Recs
       /\ ~new[i].opened /\ ~new[i].built /\ new[i].ngets = 0
       /\ Len(new[i].parents) = 0 /\ Len(new[i].extendees) = 0

\* The records that inheritTo makes for the child c.
LEMMA ClonesType ==
    ASSUME Shape, NEW doms \in Seq(Nat), \A i \in 1 .. Len(doms) : doms[i] \in Recs,
           NEW c \in Recs, NEW new, new = Clones(doms, c)
    PROVE  new \in Seq(RepType) /\ Len(new) = Len(doms) /\ Fresh(new)
<1>1. DOMAIN doms = 1 .. Len(doms) /\ Len(doms) \in Nat
  BY LenProperties
<1>2. Recs \subseteq Nat /\ Doms \subseteq Nat
  BY ProgramType, LenProperties DEF Shape, Recs
<1>3. ASSUME NEW d \in Doms, NEW o \in Recs, NEW x, x = NewRep(d, o, c)
      PROVE  /\ x \in RepType /\ x.dom = d /\ x.orig = o /\ x.child = c
             /\ ~x.opened /\ ~x.built /\ x.ngets = 0
             /\ Len(x.parents) = 0 /\ Len(x.extendees) = 0
  <2>1. d \in Nat /\ o \in Nat /\ c \in Nat
    BY <1>2
  <2>2. <<>> \in Seq(Nat) /\ Len(<<>>) = 0
    OBVIOUS
  <2>3. PICK none \in Seq(Nat) : none = <<>> /\ Len(none) = 0
    BY <2>2
  <2>4. x = [dom |-> d, orig |-> o, child |-> c, hashed |-> FALSE,
             opened |-> FALSE, built |-> FALSE, exports |-> {}, defaults |-> {},
             parents |-> none, extendees |-> none, ngets |-> 0]
    BY <1>3, <2>3 DEF NewRep
  <2>5. x \in RepType
    BY <2>1, <2>4 DEF RepType
  <2> QED  BY <2>3, <2>4, <2>5
<1>4. ASSUME NEW i \in 1 .. Len(doms)  PROVE doms[i] \in Recs /\ reps[doms[i]].dom \in Doms
  <2>1. doms[i] \in Recs
    OBVIOUS
  <2>2. RecordOk(doms[i])
    BY <2>1 DEF Shape
  <2> QED  BY <2>1, <2>2 DEF RecordOk
<1>5. new = [i \in 1 .. Len(doms) |-> NewRep(reps[doms[i]].dom, doms[i], c)]
  BY <1>1 DEF Clones
<1>6. \A i \in 1 .. Len(doms) : NewRep(reps[doms[i]].dom, doms[i], c) \in RepType
  BY <1>3, <1>4
<1>7. new \in Seq(RepType) /\ Len(new) = Len(doms)
  BY <1>1, <1>5, <1>6
<1>8. ASSUME NEW i \in 1 .. Len(new)
      PROVE  /\ new[i].dom \in Doms /\ new[i].orig \in Recs /\ new[i].child \in Recs
             /\ ~new[i].opened /\ ~new[i].built /\ new[i].ngets = 0
             /\ Len(new[i].parents) = 0 /\ Len(new[i].extendees) = 0
  <2>1. i \in 1 .. Len(doms) /\ new[i] = NewRep(reps[doms[i]].dom, doms[i], c)
    BY <1>5, <1>7
  <2> PICK x : x = new[i]
    OBVIOUS
  <2>2. PICK d \in Doms, o \in Recs : d = reps[doms[i]].dom /\ o = doms[i]
    BY <1>4, <2>1
  <2>3. x = NewRep(d, o, c)
    BY <2>1, <2>2
  <2>4. /\ x.dom = d /\ x.orig = o /\ x.child = c /\ ~x.opened /\ ~x.built /\ x.ngets = 0
        /\ Len(x.parents) = 0 /\ Len(x.extendees) = 0
    BY <1>3, <2>3
  <2> QED  BY <2>4
<1> QED  BY <1>7, <1>8 DEF Fresh

\* One record is changed, and new ones are added for it.
LEMMA Extended ==
    ASSUME Shape, NEW r \in Recs, NEW rec \in RepType, NEW new \in Seq(RepType), prog' = prog,
           reps' = [reps EXCEPT ![r] = rec] \o new,
           left' = left \o [i \in DOMAIN new |-> 0],
           rec.dom = reps[r].dom, rec.orig = reps[r].orig, rec.child = reps[r].child,
           reps[r].hashed => rec.hashed,
           \A i \in 1 .. Len(rec.parents) : rec.parents[i] \in 1 .. Len(reps) + Len(new),
           \A i \in 1 .. Len(rec.extendees) : rec.extendees[i] \in 1 .. Len(reps) + Len(new),
           Fresh(new)
    PROVE  /\ Grown /\ \A q \in Recs : left'[q] = left[q]
           /\ \A q \in Recs : reps'[q] = IF q = r THEN rec ELSE reps[q]
<1> PICK mid, zeros : mid = [reps EXCEPT ![r] = rec] /\ zeros = [i \in DOMAIN new |-> 0]
  OBVIOUS
<1> PICK n, k : n = Len(reps) /\ k = Len(new)
  OBVIOUS
<1>1. n \in Nat /\ k \in Nat /\ Recs = 1 .. n /\ DOMAIN new = 1 .. k
  BY LenProperties DEF Shape, Recs
<1>2. /\ mid \in Seq(RepType) /\ Len(mid) = n
      /\ \A q \in 1 .. n : mid[q] = IF q = r THEN rec ELSE reps[q]
  BY ExceptSeq DEF Shape, Recs
<1>3. zeros \in Seq(Nat) /\ Len(zeros) = k /\ \A i \in 1 .. k : zeros[i] = 0
  BY <1>1
<1>4. /\ reps' \in Seq(RepType) /\ Len(reps') = n + k
      /\ \A q \in 1 .. n + k : reps'[q] = IF q <= n THEN mid[q] ELSE new[q - n]
  <2>1. reps' = mid \o new
    OBVIOUS
  <2> QED  BY <1>2, <2>1, ConcatProperties
<1>5. /\ left' \in Seq(Nat) /\ Len(left') = n + k
      /\ \A q \in 1 .. n + k : left'[q] = IF q <= n THEN left[q] ELSE zeros[q - n]
  <2>1. left' = left \o zeros /\ left \in Seq(Nat) /\ Len(left) = n
    BY DEF Shape
  <2>2. \A s, t \in Seq(Nat) :
           /\ s \o t \in Seq(Nat) /\ Len(s \o t) = Len(s) + Len(t)
           /\ \A q \in 1 .. Len(s) + Len(t) :
                 (s \o t)[q] = IF q <= Len(s) THEN s[q] ELSE t[q - Len(s)]
    BY ConcatProperties
  <2>3. PICK l : l = left' /\ l = left \o zeros
    BY <2>1
  <2>4. /\ l \in Seq(Nat) /\ Len(l) = n + k
        /\ \A q \in 1 .. n + k : l[q] = IF q <= n THEN left[q] ELSE zeros[q - n]
    BY <1>3, <2>1, <2>2, <2>3
  <2> QED  BY <2>3, <2>4
<1>6. \A q \in Recs : left'[q] = left[q] /\ reps'[q] = IF q = r THEN rec ELSE reps[q]
  <2>1. \A q \in 1 .. n : q \in 1 .. n + k /\ q <= n
    BY <1>1
  <2> QED  BY <1>1, <1>2, <1>4, <1>5, <2>1
<1>7. ASSUME NEW q \in 1 .. n + k, q \notin Recs
      PROVE  q - n \in 1 .. k /\ reps'[q] = new[q - n] /\ left'[q] = 0
  <2>1. q - n \in 1 .. k /\ ~(q <= n)
    BY <1>1, <1>7
  <2> QED  BY <1>3, <1>4, <1>5, <2>1
<1>8. \A q \in Recs :
         /\ reps'[q].dom = reps[q].dom /\ reps'[q].orig = reps[q].orig
         /\ reps'[q].child = reps[q].child /\ (reps[q].hashed => reps'[q].hashed)
  BY <1>6
<1>9. ASSUME NEW q \in 1 .. n + k
      PROVE  /\ \A i \in 1 .. Len(reps'[q].parents) : reps'[q].parents[i] \in 1 .. n + k
             /\ \A i \in 1 .. Len(reps'[q].extendees) : reps'[q].extendees[i] \in 1 .. n + k
  <2>1. CASE q \in Recs /\ q = r
    BY <1>6, <2>1
  <2>2. CASE q \in Recs /\ q # r
    <3>1. RecordOk(q) /\ reps'[q] = reps[q]
      BY <1>6, <2>2 DEF Shape
    <3>2. Recs \subseteq 1 .. n + k
      BY <1>1
    <3> QED  BY <3>1, <3>2 DEF RecordOk
  <2>3. CASE q \notin Recs
    <3>1. q - n \in 1 .. k /\ reps'[q] = new[q - n]
      BY <1>7, <2>3
    <3>2. Len(reps'[q].parents) = 0 /\ Len(reps'[q].extendees) = 0
      BY <3>1 DEF Fresh
    <3>3. 1 .. Len(reps'[q].parents) = {} /\ 1 .. Len(reps'[q].extendees) = {}
      BY <3>2
    <3> QED  BY <3>3
  <2> QED  BY <2>1, <2>2, <2>3
<1>10. ASSUME NEW q \in 1 .. n + k, q \notin Recs
       PROVE  /\ reps'[q].dom \in Doms
              /\ reps'[q].orig \in Recs /\ reps'[q].child \in Recs
              /\ ~reps'[q].opened /\ ~reps'[q].built
              /\ reps'[q].ngets = 0 /\ left'[q] = 0
  <2>1. PICK i \in 1 .. k : i = q - n /\ reps'[q] = new[i] /\ left'[q] = 0
    BY <1>7, <1>10
  <2>2. /\ new[i].dom \in Doms /\ new[i].orig \in Recs /\ new[i].child \in Recs
        /\ ~new[i].opened /\ ~new[i].built /\ new[i].ngets = 0
    BY DEF Fresh
  <2> QED  BY <2>1, <2>2
<1>11. Len(left') = Len(reps') /\ Len(reps') >= Len(reps) /\ Len(reps') = n + k
  BY <1>1, <1>4, <1>5
<1>12. /\ \A q \in 1 .. Len(reps') :
             /\ \A i \in 1 .. Len(reps'[q].parents) : reps'[q].parents[i] \in 1 .. Len(reps')
             /\ \A i \in 1 .. Len(reps'[q].extendees) : reps'[q].extendees[i] \in 1 .. Len(reps')
       /\ \A q \in 1 .. Len(reps') : q \notin Recs =>
             /\ reps'[q].dom \in Doms
             /\ reps'[q].orig \in Recs /\ reps'[q].child \in Recs
             /\ ~reps'[q].opened /\ ~reps'[q].built
             /\ reps'[q].ngets = 0 /\ left'[q] = 0
  BY <1>9, <1>10, <1>11
<1>13. Grown
  BY <1>4, <1>5, <1>8, <1>11, <1>12, GrownBy
<1> QED  BY <1>6, <1>13

\* The addresses of n new records.
LEMMA AddressesType ==
    ASSUME Shape, NEW n \in Nat, NEW at, at = Addresses(n)
    PROVE  at \in Seq(Nat) /\ Len(at) = n /\ \A i \in 1 .. n : at[i] \in 1 .. Len(reps) + n
<1>1. Len(reps) \in Nat
  BY LenProperties DEF Shape
<1>2. at = [i \in 1 .. n |-> Len(reps) + i]
  BY DEF Addresses
<1> QED  BY <1>1, <1>2

\* A copy inherits what its original has so far.
LEMMA InvExpand == ASSUME Inv, Expand  PROVE Inv'
<1> DEFINE r == Top.rep
           o == reps[r].orig
           pars == IF IsExtend(r) THEN reps[o].parents ELSE <<>>
           exts == reps[o].extendees
           new == Clones(pars \o exts, reps[r].child)
           at == Addresses(Len(new))
           rec == [reps[r] EXCEPT !.hashed = TRUE, !.parents = SubSeq(at, 1, Len(pars)),
                                  !.extendees = SubSeq(at, Len(pars) + 1, Len(at))]
<1>1. /\ todo # <<>> /\ Top.do = "expand" /\ prog' = prog /\ todo' = Rest
      /\ left' = left \o [i \in DOMAIN new |-> 0]
      /\ reps' = [reps EXCEPT ![r] = rec] \o new
      /\ Shape /\ r \in Recs /\ RecordOk(r) /\ TaskOk(Top) /\ reps[r] \in RepType
  BY TopType DEF Expand, Inv
<1>2. o \in Recs /\ reps[r].child \in Recs
  BY <1>1 DEF TaskOk, RecordOk
<1>3. reps[o] \in RepType /\ RecordOk(o)
  BY <1>1, <1>2, RecType DEF Shape
<1>4. PICK p \in Seq(Nat), x \in Seq(Nat) :
         /\ p = pars /\ x = exts
         /\ \A i \in 1 .. Len(p) : p[i] \in Recs
         /\ \A i \in 1 .. Len(x) : x[i] \in Recs
  <2>1. exts \in Seq(Nat) /\ \A i \in 1 .. Len(exts) : exts[i] \in Recs
    BY <1>3 DEF RepType, RecordOk
  <2>2. pars \in Seq(Nat) /\ \A i \in 1 .. Len(pars) : pars[i] \in Recs
    <3>1. CASE IsExtend(r)
      BY <1>3, <3>1 DEF RepType, RecordOk
    <3>2. CASE ~IsExtend(r)
      BY <3>2
    <3> QED  BY <3>1, <3>2
  <2> QED  BY <2>1, <2>2
<1> PICK doms : doms = p \o x
  OBVIOUS
<1> PICK m, k : m = Len(p) /\ k = Len(x)
  OBVIOUS
<1>5. m \in Nat /\ k \in Nat
  BY LenProperties
<1>6. doms \in Seq(Nat) /\ Len(doms) = m + k /\ \A i \in 1 .. Len(doms) : doms[i] \in Recs
  <2>1. /\ doms \in Seq(Nat) /\ Len(doms) = m + k
        /\ \A i \in 1 .. m + k : doms[i] = IF i <= m THEN p[i] ELSE x[i - m]
    BY ConcatProperties
  <2>2. ASSUME NEW i \in 1 .. m + k  PROVE doms[i] \in Recs
    <3>1. CASE i <= m
      <4>1. i \in 1 .. Len(p) /\ doms[i] = p[i]
        BY <1>5, <2>1, <3>1
      <4> QED  BY <1>4, <4>1
    <3>2. CASE ~(i <= m)
      <4>1. i - m \in 1 .. Len(x)
        BY <1>5, <3>2
      <4>2. x[i - m] \in Recs
        BY <1>4, <4>1
      <4>3. doms[i] = x[i - m]
        BY <2>1, <3>2
      <4> QED  BY <4>2, <4>3
    <3> QED  BY <3>1, <3>2
  <2> QED  BY <2>1, <2>2
<1>7. PICK c \in Recs : c = reps[r].child
  BY <1>2
<1>8. PICK clones : clones = Clones(doms, c) /\ clones = new
  BY <1>4, <1>7
<1>9. clones \in Seq(RepType) /\ Len(clones) = m + k /\ Fresh(clones)
  <2>1. clones \in Seq(RepType) /\ Len(clones) = Len(doms) /\ Fresh(clones)
    BY <1>1, <1>6, <1>8, ClonesType
  <2> QED  BY <1>6, <2>1
<1>10. PICK addresses : addresses = at /\ addresses = Addresses(m + k)
  BY <1>8, <1>9
<1>11. /\ addresses \in Seq(Nat) /\ Len(addresses) = m + k
       /\ \A i \in 1 .. m + k : addresses[i] \in 1 .. Len(reps) + (m + k)
  <2>1. PICK sum \in Nat : sum = m + k
    BY <1>5
  <2>2. addresses = Addresses(sum)
    BY <1>10, <2>1
  <2>3. /\ addresses \in Seq(Nat) /\ Len(addresses) = sum
        /\ \A i \in 1 .. sum : addresses[i] \in 1 .. Len(reps) + sum
    BY <1>1, <2>2, AddressesType
  <2> QED  BY <2>1, <2>3
<1>12. PICK first, second :
         first = SubSeq(addresses, 1, m) /\ second = SubSeq(addresses, m + 1, m + k)
  OBVIOUS
<1>13. rec = [reps[r] EXCEPT !.hashed = TRUE, !.parents = first, !.extendees = second]
  BY <1>4, <1>8, <1>9, <1>10, <1>11, <1>12
<1>14. /\ reps' = [reps EXCEPT ![r] = rec] \o clones
       /\ left' = left \o [i \in DOMAIN clones |-> 0]
  BY <1>1, <1>8
<1> HIDE DEF rec, at, new, exts, pars, o
<1> DEFINE N == 1 .. Len(reps) + (m + k)
<1>15. Len(reps) \in Nat /\ N \subseteq Nat
  BY <1>1, <1>5, LenProperties DEF Shape
<1>16. \A i \in 1 .. m + k : addresses[i] \in N
  BY <1>11
<1> HIDE DEF N
<1>17. first \in Seq(N) /\ second \in Seq(N)
  <2>1. \A i \in 1 .. m : addresses[i] \in N
    BY <1>5, <1>16
  <2>2. \A i \in m + 1 .. m + k : addresses[i] \in N
    BY <1>5, <1>16
  <2>3. first \in Seq(N)
    BY <1>5, <1>12, <2>1, SubSeqProperties
  <2>4. second \in Seq(N)
    BY <1>5, <1>12, <2>2, SubSeqProperties
  <2> QED  BY <2>3, <2>4
<1>18. /\ first \in Seq(Nat) /\ second \in Seq(Nat)
       /\ \A i \in 1 .. Len(first) : first[i] \in N
       /\ \A i \in 1 .. Len(second) : second[i] \in N
  BY <1>15, <1>17, SeqMonotonic, LenProperties
<1>19. /\ rec \in RepType /\ rec.dom = reps[r].dom /\ rec.orig = reps[r].orig
       /\ rec.child = reps[r].child /\ rec.hashed
       /\ rec.parents = first /\ rec.extendees = second
       /\ rec.opened = reps[r].opened /\ rec.built = reps[r].built
       /\ rec.ngets = reps[r].ngets
  <2>1. PICK y \in RepType : y = reps[r]
    BY <1>1
  <2>2. rec = [y EXCEPT !.hashed = TRUE, !.parents = first, !.extendees = second]
    BY <1>13, <2>1
  <2>3. rec \in RepType
    BY <1>18, <2>2 DEF RepType
  <2> QED  BY <2>1, <2>2, <2>3 DEF RepType
<1>20. /\ Grown /\ \A q \in Recs : left'[q] = left[q]
       /\ \A q \in Recs : reps'[q] = IF q = r THEN rec ELSE reps[q]
  <2>1. /\ \A i \in 1 .. Len(rec.parents) : rec.parents[i] \in 1 .. Len(reps) + Len(clones)
        /\ \A i \in 1 .. Len(rec.extendees) : rec.extendees[i] \in 1 .. Len(reps) + Len(clones)
    BY <1>9, <1>18, <1>19 DEF N
  <2> QED  BY <1>1, <1>9, <1>14, <1>19, <2>1, Extended
<1>21. SameCounts /\ SameBodies /\ reps'[r].hashed
  BY <1>1, <1>19, <1>20 DEF SameCounts, SameBodies
<1> QED  BY <1>1, <1>20, <1>21, DoneStep

\* f2 opens the table: the hash code is there, and the body is begun.
LEMMA InvBuild == ASSUME Inv, Build  PROVE Inv'
<1> DEFINE r == Top.rep
           b == prog.base[reps[r].dom]
           copies == IF b = None THEN <<>> ELSE Clones(<<b>>, r)
           at == Addresses(Len(copies))
           code == Code(r, prog.body[reps[r].dom])
           t == Do("built", r)
           rec == [reps[r] EXCEPT !.opened = TRUE, !.exports = {},
                                  !.defaults = prog.defaults[reps[r].dom], !.parents = at]
<1>1. /\ todo # <<>> /\ Top.do = "build" /\ prog' = prog /\ ~reps[r].opened
      /\ todo' = code \o <<t>> \o Rest
      /\ left' = left \o [i \in DOMAIN copies |-> 0]
      /\ reps' = [reps EXCEPT ![r] = rec] \o copies
      /\ Shape /\ r \in Recs /\ r \in Nat /\ RecordOk(r) /\ reps[r] \in RepType
  BY TopType DEF Build, Open, Inv
<1>2. reps[r].dom \in Doms /\ Doms \subseteq Recs
  BY <1>1 DEF RecordOk, Shape
<1>3. /\ b \in Doms \cup {None} /\ prog.defaults[reps[r].dom] \in SUBSET Exp
      /\ prog.body[reps[r].dom] \in Seq(Statement(Doms))
  BY <1>1, <1>2, ProgramType
<1>4. PICK new, k : new = copies /\ k = Len(new)
  OBVIOUS
<1>5. new \in Seq(RepType) /\ k \in Nat /\ Fresh(new)
  <2>1. CASE b = None
    <3>1. <<>> \in Seq(RepType) /\ Len(<<>>) = 0
      OBVIOUS
    <3>2. new \in Seq(RepType) /\ Len(new) = 0
      BY <1>4, <2>1, <3>1
    <3>3. 1 .. Len(new) = {}
      BY <3>2
    <3> QED  BY <1>4, <3>2, <3>3, SMTT(20) DEF Fresh
  <2>2. CASE b # None
    <3>1. PICK d \in Nat : d = b /\ d \in Recs
      BY <1>1, <1>2, <1>3, <2>2, ProgramType
    <3> HIDE DEF b
    <3>2. new = Clones(<<d>>, r)
      BY <1>4, <2>2, <3>1
    <3>3. <<d>> \in Seq(Nat) /\ \A i \in 1 .. Len(<<d>>) : <<d>>[i] \in Recs
      BY <3>1
    <3>4. \A bases \in Seq(Nat) : (\A i \in 1 .. Len(bases) : bases[i] \in Recs) =>
             /\ Clones(bases, r) \in Seq(RepType) /\ Fresh(Clones(bases, r))
             /\ Len(Clones(bases, r)) \in Nat
      BY <1>1, ClonesType, LenProperties
    <3>5. new \in Seq(RepType) /\ Fresh(new) /\ Len(new) \in Nat
      BY <3>2, <3>3, <3>4
    <3> QED  BY <1>4, <3>5
  <2> QED  BY <2>1, <2>2
<1>6. PICK addresses : addresses = at /\ addresses = Addresses(k)
  BY <1>4
<1>7. /\ addresses \in Seq(Nat) /\ Len(addresses) = k
      /\ \A i \in 1 .. k : addresses[i] \in 1 .. Len(reps) + k
  BY <1>1, <1>5, <1>6, AddressesType
<1>8. /\ reps' = [reps EXCEPT ![r] = rec] \o new
      /\ left' = left \o [i \in DOMAIN new |-> 0]
  BY <1>1, <1>4
<1>9. /\ rec \in RepType /\ rec.dom = reps[r].dom /\ rec.orig = reps[r].orig
      /\ rec.child = reps[r].child /\ rec.hashed = reps[r].hashed
      /\ rec.parents = addresses /\ rec.extendees = reps[r].extendees
      /\ rec.opened /\ rec.built = reps[r].built
      /\ rec.ngets = reps[r].ngets
  <2>1. PICK y \in RepType, defaults \in SUBSET Exp :
           y = reps[r] /\ defaults = prog.defaults[reps[r].dom]
    BY <1>1, <1>3
  <2>2. rec = [y EXCEPT !.opened = TRUE, !.exports = {}, !.defaults = defaults,
                        !.parents = addresses]
    BY <1>6, <2>1
  <2> HIDE DEF rec
  <2>3. rec \in RepType
    BY <1>7, <2>2 DEF RepType
  <2> QED  BY <2>1, <2>2, <2>3 DEF RepType
<1>10. /\ code \in Seq(TaskType)
       /\ \A i \in 1 .. Len(code) :
             /\ code[i].do \in {"define", "getExport", "testExport", "getHash"}
             /\ code[i].rep \in Recs
  BY <1>1, <1>3, CodeType
<1>11. t \in TaskType /\ t.do = "built" /\ t.rep = r
  BY <1>1, DoIs DEF Whats
<1>12. \A q : (t \in Builts(q) <=> q = r)
  BY DEF Builts, Do
<1> HIDE DEF rec, at, copies, b, code, t
<1>13. /\ Grown /\ \A q \in Recs : left'[q] = left[q]
       /\ \A q \in Recs : reps'[q] = IF q = r THEN rec ELSE reps[q]
  <2>1. Len(reps) \in Nat /\ RecordOk(r) /\ Recs = 1 .. Len(reps)
    BY <1>1, LenProperties DEF Shape, Recs
  <2>2. \A i \in 1 .. Len(rec.parents) : rec.parents[i] \in 1 .. Len(reps) + Len(new)
    BY <1>4, <1>7, <1>9
  <2>3. Recs \subseteq 1 .. Len(reps) + Len(new)
    BY <1>4, <1>5, <2>1
  <2>4. \A i \in 1 .. Len(rec.extendees) : rec.extendees[i] \in 1 .. Len(reps) + Len(new)
    BY <1>9, <2>1, <2>3 DEF RecordOk
  <2> QED  BY <1>1, <1>5, <1>8, <1>9, <2>2, <2>4, Extended
<1>14. PICK c \in Seq(TaskType), d \in Seq(TaskType) :
         c = code /\ d = <<t>> /\ Len(d) = 1 /\ d[1] = t
  <2>1. <<t>> \in Seq(TaskType) /\ Len(<<t>>) = 1 /\ <<t>>[1] = t
    BY <1>11
  <2> QED  BY <1>10, <2>1
<1> PICK s : s = c \o d
  OBVIOUS
<1>15. /\ s \in Seq(TaskType) /\ Len(s) = Len(c) + 1 /\ Len(c) \in Nat
       /\ \A i \in 1 .. Len(c) + 1 : s[i] = IF i <= Len(c) THEN c[i] ELSE d[i - Len(c)]
  BY <1>14, ConcatProperties, LenProperties
<1>16. todo' = s \o Rest
  BY <1>1, <1>14
<1>17. s[Len(c) + 1] = t /\ \A i \in 1 .. Len(s) : s[i] = t \/ (i \in 1 .. Len(c) /\ s[i] = c[i])
  BY <1>14, <1>15
<1>18. Fits(s)
  <2>1. Top.do \notin HashTasks
    BY <1>1 DEF HashTasks
  <2>2. \A i \in 1 .. Len(s) : TaskOk(s[i]) /\ s[i].do # "build"
    BY <1>1, <1>10, <1>11, <1>14, <1>17, ZenonT(30) DEF TaskOk
  <2> QED  BY <2>1, <2>2 DEF Fits
<1>19. Shape' /\ HashFirst'
  BY <1>1, <1>13, <1>15, <1>16, <1>18, StepMoves
<1>20. ASSUME NEW q
       PROVE  Count(s, EndGets(q)) = 0 /\ Count(s, Builts(q)) = IF q = r THEN 1 ELSE 0
  <2>1. \A i \in 1 .. Len(c) : c[i].do # "endget" /\ c[i].do # "built"
    BY <1>10, <1>14
  <2>2. Count(c, EndGets(q)) = 0 /\ Count(c, Builts(q)) = 0
    BY <2>1, NoneCounted
  <2>3. t \notin EndGets(q)
    BY <1>11 DEF EndGets
  <2>4. Count(d, EndGets(q)) = 0 /\ Count(d, Builts(q)) = IF q = r THEN 1 ELSE 0
    BY <1>12, <1>14, <2>3, CountOne
  <2>5. /\ Count(s, EndGets(q)) = Count(c, EndGets(q)) + Count(d, EndGets(q))
        /\ Count(s, Builts(q)) = Count(c, Builts(q)) + Count(d, Builts(q))
    BY CountConcat
  <2> QED  BY <2>2, <2>4, <2>5
<1>21. Balanced'
  <2>1. ASSUME NEW q \in Recs
        PROVE  /\ left'[q] = left[q]
               /\ reps'[q].ngets = reps[q].ngets + Count(s, EndGets(q))
                                   - (IF Top \in EndGets(q) THEN 1 ELSE 0)
    <3>1. reps[q].ngets \in Nat
      BY <1>1, RecType
    <3>2. reps'[q].ngets = reps[q].ngets
      BY <1>9, <1>13
    <3>3. Top \notin EndGets(q) /\ Count(s, EndGets(q)) = 0
      BY <1>1, <1>20 DEF EndGets
    <3> QED  BY <1>13, <3>1, <3>2, <3>3
  <2> QED  BY <1>1, <1>13, <1>15, <1>16, <1>18, <2>1, BalanceMoves
<1>22. reps[r].hashed
  <2>1. todo[1] = Top /\ 1 \in 1 .. Len(todo)
    BY <1>1, <1>15, StepPlaces DEF Shape, Top
  <2> QED  BY <1>1, <2>1 DEF Inv, HashFirst
<1>23. ASSUME NEW q \in Recs
       PROVE  /\ reps'[q].opened => reps'[q].hashed
              /\ reps'[q].built => reps'[q].opened
              /\ Count(todo', Builts(q)) <= (IF reps'[q].opened /\ ~reps'[q].built THEN 1 ELSE 0)
  <2>1. /\ reps[q].opened => reps[q].hashed
        /\ reps[q].built => reps[q].opened
        /\ Count(todo, Builts(q)) <= (IF reps[q].opened /\ ~reps[q].built THEN 1 ELSE 0)
    BY DEF Inv, RunsOnce
  <2>2. \A T : /\ Count(todo', T)
                     = Count(s, T) + Count(todo, T) - (IF Top \in T THEN 1 ELSE 0)
               /\ Count(todo, T) \in Nat
    BY <1>1, <1>13, <1>15, <1>16, <1>18, StepMoves, ZenonT(30)
  <2>3. Top \notin Builts(q)
    BY <1>1 DEF Builts, Do
  <2>4. PICK a, e : a = Count(todo, Builts(q)) /\ e = Count(todo', Builts(q))
    OBVIOUS
  <2>5. a \in Nat /\ e = (IF q = r THEN 1 ELSE 0) + a
    BY <1>20, <2>2, <2>3, <2>4
  <2>6. CASE q = r
    <3>1. a = 0 /\ ~reps[r].built /\ e = 1
      BY <1>1, <2>1, <2>4, <2>5, <2>6
    <3>2. reps'[q].opened /\ reps'[q].hashed /\ ~reps'[q].built
      BY <1>9, <1>13, <1>22, <2>6, <3>1
    <3> QED  BY <2>4, <3>1, <3>2
  <2>7. CASE q # r
    <3>1. reps'[q] = reps[q] /\ e = a
      BY <1>13, <2>5, <2>7
    <3> QED  BY <2>1, <2>4, <3>1
  <2> QED  BY <2>6, <2>7
<1>24. RunsOnce'
  BY <1>1, <1>13, <1>15, <1>16, <1>18, <1>23, OnceMoves
<1> QED  BY <1>19, <1>21, <1>24 DEF Inv

-----------------------------------------------------------------------------
(* The invariant, and what follows from it.                                *)

\* A program begins with a record for each of its domains and nothing to do.
LEMMA InvInit == DomainInit => Inv
<1> SUFFICES ASSUME DomainInit  PROVE Inv
  OBVIOUS
<1>1. PICK p \in Programs : DomainWith(p)
  BY DEF DomainInit
<1>2. PICK n \in Dom : p \in Program(1 .. n)
  BY <1>1, DomainConstants
<1>3. /\ n \in Nat /\ prog = p /\ DOMAIN prog.base = 1 .. n /\ todo = <<>>
      /\ reps = [d \in 1 .. n |-> NewRep(d, None, None)] /\ left = [d \in 1 .. n |-> 0]
  <2>1. DOMAIN p.base = 1 .. n /\ n \in Nat
    BY <1>2 DEF Program, Dom
  <2> QED  BY <1>1, <2>1 DEF DomainWith
<1>4. ASSUME NEW d \in 1 .. n, NEW x, x = NewRep(d, None, None)
      PROVE  /\ x \in RepType /\ x.dom = d /\ x.orig = None /\ ~x.opened /\ ~x.built
             /\ x.ngets = 0 /\ Len(x.parents) = 0 /\ Len(x.extendees) = 0
  <2>1. <<>> \in Seq(Nat) /\ Len(<<>>) = 0
    OBVIOUS
  <2>2. PICK none \in Seq(Nat) : none = <<>> /\ Len(none) = 0
    BY <2>1
  <2>3. x = [dom |-> d, orig |-> None, child |-> None, hashed |-> FALSE,
             opened |-> FALSE, built |-> FALSE, exports |-> {}, defaults |-> {},
             parents |-> none, extendees |-> none, ngets |-> 0]
    BY <1>4, <2>2 DEF NewRep
  <2>4. x \in RepType
    BY <1>3, <2>3 DEF RepType
  <2> QED  BY <2>2, <2>3, <2>4
<1>5. /\ reps \in Seq(RepType) /\ Len(reps) = n /\ left \in Seq(Nat) /\ Len(left) = n
      /\ \A d \in 1 .. n : reps[d] = NewRep(d, None, None) /\ left[d] = 0
  <2>1. \A d \in 1 .. n : NewRep(d, None, None) \in RepType
    BY <1>4
  <2> QED  BY <1>3, <2>1
<1>6. Recs = 1 .. n /\ Doms = 1 .. n
  BY <1>3, <1>5 DEF Recs, Doms
<1>7. \A r \in Recs :
         /\ reps[r].dom = r /\ reps[r].orig = None /\ ~reps[r].opened /\ ~reps[r].built
         /\ reps[r].ngets = 0 /\ Len(reps[r].parents) = 0 /\ Len(reps[r].extendees) = 0
         /\ left[r] = 0
  BY <1>4, <1>5, <1>6
<1>8. PICK none \in Seq(TaskType) : none = todo /\ Len(none) = 0 /\ \A T : Count(none, T) = 0
  BY <1>3, NoTasks
<1>9. 1 .. Len(none) = {}
  BY <1>8
<1>10. Shape
  <2>1. ASSUME NEW r \in Recs  PROVE RecordOk(r)
    <3>1. 1 .. Len(reps[r].parents) = {} /\ 1 .. Len(reps[r].extendees) = {}
      BY <1>7
    <3> QED  BY <1>6, <1>7, <3>1 DEF RecordOk
  <2> QED  BY <1>2, <1>3, <1>5, <1>6, <1>8, <1>9, <2>1 DEF Shape
<1>11. HashFirst
  BY <1>8, <1>9 DEF HashFirst
<1>12. RunsOnce /\ Balanced
  BY <1>7, <1>8 DEF RunsOnce, Balanced
<1> QED  BY <1>10, <1>11, <1>12 DEF Inv

\* Every step keeps it.
LEMMA InvStep == Inv /\ [DomainNext]_domainVars => Inv'
<1> SUFFICES ASSUME Inv, [DomainNext]_domainVars  PROVE Inv'
  OBVIOUS
<1>1. CASE getHash
  BY <1>1, InvGetHash
<1>2. CASE firstHash
  BY <1>2, InvFirstHash
<1>3. CASE prepareHash
  BY <1>3, InvPrepareHash
<1>4. CASE extendFill
  BY <1>4, InvExtendFill
<1>5. CASE Hashed
  BY <1>5, InvHashed
<1>6. CASE Expand
  BY <1>6, InvExpand
<1>7. CASE Build
  BY <1>7, InvBuild
<1>8. CASE Prepared \/ Passed \/ Defaults
  BY <1>8, InvDone
<1>9. CASE Define
  BY <1>9, InvDefine
<1>10. CASE Built
  BY <1>10, InvBuilt
<1>11. CASE getExport0
  BY <1>11, InvGetExport0
<1>12. CASE get
  BY <1>12, InvGet
<1>13. CASE BreakCircle
  BY <1>13, InvBreakCircle
<1>14. CASE getExtend
  BY <1>14, InvGetExtend
<1>15. CASE Own
  BY <1>15, InvOwn
<1>16. CASE getauxArray
  BY <1>16, InvGetauxArray
<1>17. CASE EndGet
  BY <1>17, InvEndGet
<1>18. CASE Need
  BY <1>18, InvNeed
<1>19. CASE TryForce
  BY <1>19, InvTryForce
<1>20. CASE \E d \in DOMAIN prog.base, e \in Exp : Call(d, e)
  BY <1>20, InvCall DEF Doms
<1>21. CASE UNCHANGED domainVars
  <2>1. prog' = prog /\ reps' = reps /\ todo' = todo /\ left' = left
    BY <1>21 DEF domainVars
  <2> QED  BY <2>1 DEF Inv, Shape, HashFirst, RunsOnce, Balanced, RecordOk, TaskOk, IsExtend,
                       Doms, Recs
<1>22. CASE DomainNext
  <2>1. CASE Preparing
    BY <1>1, <1>2, <1>3, <1>4, <1>5, <1>6, <1>7, <1>8, <1>9, <1>10, <2>1 DEF Preparing
  <2>2. CASE LookingUp
    BY <1>8, <1>11, <1>12, <1>13, <1>14, <1>15, <1>16, <1>17, <1>18, <1>19, <2>2 DEF LookingUp
  <2> QED  BY <1>20, <1>22, <2>1, <2>2 DEF DomainNext, Runtime
<1> QED  BY <1>21, <1>22

\* The invariant holds always.
THEOREM InvCorrect == DomainSpec => []Inv
  BY InvInit, InvStep, PTL DEF DomainSpec

\* ngets counts, for every domain, the look-ups in progress and those that an
\* ERROR has cut off, and no others.
THEOREM NgetsCorrect == DomainSpec => []NgetsBalanced
<1>1. Inv => NgetsBalanced
  BY InvMeans
<1> QED  BY <1>1, InvCorrect, PTL

\* However a domain's construction comes back to it, its table is not opened
\* before its hash code is there, and its body is run at most once.
THEOREM BuiltCorrect == DomainSpec => []BuiltOnce
<1>1. Inv => BuiltOnce
  BY InvMeans
<1> QED  BY <1>1, InvCorrect, PTL

=============================================================================
