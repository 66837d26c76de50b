--------------------------- MODULE IncludeProofs ---------------------------
(***************************************************************************)
(* Proofs about Fluid, for any functions that bind variables in any number *)
(* of frames, and about Include, for any text, any files and any depth of  *)
(* #if's and #include's.                                                   *)
(***************************************************************************)
EXTENDS Include, FiniteSetTheorems, SequenceTheorems, WellFoundedInduction, TLAPS

-----------------------------------------------------------------------------
\* Of natural numbers one is the least.
NumberLess == {p \in Nat \X Nat : p[1] < p[2]}

\* A set of numbers that is not empty has a least one.
LEMMA SomeLeast ==
    ASSUME NEW S \in SUBSET Nat, S # {}
    PROVE  \E x \in S : \A y \in S : x <= y
<1>1. IsWellFoundedOn(NumberLess, Nat)
  BY NatLessThanWellFounded DEF OpToRel, NumberLess
<1>2. \A x, y \in Nat : <<x, y>> \in NumberLess <=> x < y
  BY DEF NumberLess
<1>3. PICK x \in S : \A y \in S : ~ (<<y, x>> \in NumberLess)
  BY <1>1, WFMin
<1>4. ASSUME NEW y \in S  PROVE x <= y
  <2>1. x \in Nat /\ y \in Nat /\ <<y, x>> \notin NumberLess
    BY <1>3
  <2> QED
    BY <2>1, <1>2
<1> QED
  BY <1>4

-----------------------------------------------------------------------------
(* Fluid variables, for a client whose variables have values in Val and     *)
(* whose frames keep something in Own.                                      *)

Cell == [level : Nat, var : FluidVars, frame : Nat]
Frame(Val, Own) ==
    [level0 : Nat, saved : UNION {[S -> Val] : S \in SUBSET FluidVars},
     jmp : Nat \cup {NoJmp}, was : [FluidVars -> Val], own : Own]

FluidType(Val, Own) ==
    /\ global \in [FluidVars -> Val]
    /\ scopeLevel \in Nat
    /\ improper = FALSE
    /\ fluidStack \in Seq(Cell)
    /\ calls \in Seq(Frame(Val, Own))

\* What a frame has saved is what was there when its function was called.
SavedWas ==
    \A f \in DOMAIN calls : \A v \in DOMAIN calls[f].saved :
        calls[f].saved[v] = calls[f].was[v]

\* The cells are those of what the frames in progress have saved.
CellsFit ==
    /\ \A i \in DOMAIN fluidStack :
          /\ fluidStack[i].frame \in DOMAIN calls
          /\ fluidStack[i].var \in DOMAIN calls[fluidStack[i].frame].saved
    /\ \A f \in DOMAIN calls : \A v \in DOMAIN calls[f].saved :
          \E i \in DOMAIN fluidStack : fluidStack[i].frame = f /\ fluidStack[i].var = v

\* A frame's cells begin above its level0 and end at the level SetJmp noted.
MarksFit ==
    \A f \in DOMAIN calls :
        /\ calls[f].level0 <= Len(fluidStack)
        /\ \A i \in DOMAIN fluidStack : fluidStack[i].frame < f <=> i <= calls[f].level0
        /\ calls[f].jmp # NoJmp =>
              /\ calls[f].jmp <= Len(fluidStack)
              /\ \A i \in DOMAIN fluidStack : fluidStack[i].frame <= f <=> i <= calls[f].jmp

\* Levels rise with the cells, one for each frame, up to scopeLevel, which is
\* that of the cells of the innermost frame.
LevelsFit ==
    /\ \A i \in DOMAIN fluidStack :
          /\ fluidStack[i].level <= scopeLevel
          /\ fluidStack[i].frame = Len(calls) => fluidStack[i].level = scopeLevel
    /\ \A i, j \in DOMAIN fluidStack :
          /\ i <= j => fluidStack[i].level <= fluidStack[j].level
          /\ fluidStack[i].frame = fluidStack[j].frame => fluidStack[i].level = fluidStack[j].level

FluidInv(Val, Own) ==
    FluidType(Val, Own) /\ SavedWas /\ CellsFit /\ MarksFit /\ LevelsFit

\* The variables after functions are left.
Restores ==
    Len(calls') < Len(calls) =>
        \A v \in FluidVars :
            LET bound == {f \in Len(calls') + 1 .. Len(calls) : v \in DOMAIN calls[f].saved}
            IN global'[v] = IF bound = {} THEN global[v]
                            ELSE calls[CHOOSE f \in bound : \A h \in bound : f <= h].was[v]

FluidStep(Val, Own) == FluidInv(Val, Own)' /\ Restores

\* What is known of a cell.
LEMMA CellType ==
    ASSUME NEW Val, NEW Own, FluidInv(Val, Own), NEW i \in DOMAIN fluidStack
    PROVE  /\ i \in 1 .. Len(fluidStack) /\ Len(fluidStack) \in Nat
           /\ fluidStack[i].level \in Nat /\ fluidStack[i].level <= scopeLevel
           /\ fluidStack[i].frame \in 1 .. Len(calls)
           /\ fluidStack[i].var \in FluidVars
           /\ fluidStack[i].var \in DOMAIN calls[fluidStack[i].frame].saved
<1>1. fluidStack[i] \in Cell
  BY DEF FluidInv, FluidType
<1> QED
  BY <1>1, SMTT(20) DEF FluidInv, FluidType, CellsFit, LevelsFit, Cell

\* What is known of a frame.
LEMMA FrameType ==
    ASSUME NEW Val, NEW Own, FluidInv(Val, Own), NEW f \in DOMAIN calls
    PROVE  /\ f \in 1 .. Len(calls) /\ Len(calls) \in Nat
           /\ calls[f] \in Frame(Val, Own)
           /\ calls[f].level0 \in 0 .. Len(fluidStack)
           /\ calls[f].jmp # NoJmp => calls[f].jmp \in 0 .. Len(fluidStack)
           /\ DOMAIN calls[f].saved \subseteq FluidVars
           /\ \A v \in DOMAIN calls[f].saved : calls[f].saved[v] \in Val
<1>1. calls[f] \in Frame(Val, Own) /\ f \in 1 .. Len(calls) /\ Len(calls) \in Nat
  BY DEF FluidInv, FluidType
<1>2. /\ calls[f].level0 \in Nat /\ calls[f].jmp \in Nat \cup {NoJmp}
      /\ calls[f].saved \in UNION {[S -> Val] : S \in SUBSET FluidVars}
  BY <1>1 DEF Frame
<1>3. PICK S \in SUBSET FluidVars : calls[f].saved \in [S -> Val]
  BY <1>2
<1>4. Len(fluidStack) \in Nat
  BY DEF FluidInv, FluidType
<1>5. /\ calls[f].level0 <= Len(fluidStack)
      /\ calls[f].jmp # NoJmp => calls[f].jmp <= Len(fluidStack)
  BY DEF FluidInv, MarksFit
<1> QED
  BY <1>1, <1>2, <1>3, <1>4, <1>5

\* A call: the new frame's cells are on top.
LEMMA ScopeKeeps ==
    ASSUME NEW Val, NEW Own, FluidInv(Val, Own),
           NEW vs \in Seq(FluidVars), NEW own \in Own, NEW value \in [FluidVars -> Val],
           Scope(vs, own, value)
    PROVE  FluidStep(Val, Own)
<1> DEFINE n == Len(calls)
           m == Len(fluidStack)
           new == [level0 |-> m, saved |-> [v \in ToSet(vs) |-> global[v]],
                   jmp |-> NoJmp, was |-> global, own |-> own]
           cells == [i \in 1 .. Len(vs) |->
                        [level |-> scopeLevel + 1, var |-> vs[i], frame |-> n + 1]]
<1>1. /\ global \in [FluidVars -> Val] /\ scopeLevel \in Nat /\ improper = FALSE
      /\ fluidStack \in Seq(Cell) /\ calls \in Seq(Frame(Val, Own))
      /\ n \in Nat /\ m \in Nat /\ Len(vs) \in Nat
  BY DEF FluidInv, FluidType
<1>2. /\ calls' = Append(calls, new) /\ fluidStack' = fluidStack \o cells
      /\ global' = value /\ scopeLevel' = scopeLevel + 1 /\ improper' = improper
  BY DEF Scope, fluidLevel
<1>3. ToSet(vs) \subseteq FluidVars
  BY DEF ToSet
<1>4. new.saved \in [ToSet(vs) -> Val]
  BY <1>1, <1>3
<1>5. new \in Frame(Val, Own)
  <2>1. new.saved \in UNION {[S -> Val] : S \in SUBSET FluidVars}
    BY <1>3, <1>4
  <2> QED
    BY <1>1, <2>1 DEF Frame
<1>6. \A i \in 1 .. Len(vs) : cells[i] \in Cell /\ vs[i] \in ToSet(vs)
  BY <1>1, <1>3 DEF Cell, ToSet
<1>7. cells \in Seq(Cell) /\ Len(cells) = Len(vs)
  BY <1>1, <1>6
<1>8. /\ calls' \in Seq(Frame(Val, Own)) /\ Len(calls') = n + 1
      /\ calls'[n + 1] = new /\ \A f \in 1 .. n : calls'[f] = calls[f]
      /\ DOMAIN calls' = 1 .. n + 1 /\ DOMAIN calls = 1 .. n
  BY <1>1, <1>2, <1>5
<1>9. /\ fluidStack' \in Seq(Cell) /\ Len(fluidStack') = m + Len(vs)
      /\ DOMAIN fluidStack' = 1 .. m + Len(vs) /\ DOMAIN fluidStack = 1 .. m
      /\ \A i \in 1 .. m : fluidStack'[i] = fluidStack[i]
      /\ \A i \in m + 1 .. m + Len(vs) : fluidStack'[i] = cells[i - m]
  BY <1>1, <1>2, <1>7
<1>10. \A i \in m + 1 .. m + Len(vs) :
          /\ fluidStack'[i].level = scopeLevel + 1 /\ fluidStack'[i].frame = n + 1
          /\ fluidStack'[i].var = vs[i - m] /\ vs[i - m] \in ToSet(vs)
  <2> SUFFICES ASSUME NEW i \in m + 1 .. m + Len(vs)
               PROVE  /\ fluidStack'[i].level = scopeLevel + 1 /\ fluidStack'[i].frame = n + 1
                      /\ fluidStack'[i].var = vs[i - m] /\ vs[i - m] \in ToSet(vs)
    OBVIOUS
  <2>0. i - m \in 1 .. Len(vs)
    BY <1>1
  <2>1. PICK j \in 1 .. Len(vs) : j = i - m
    BY <2>0
  <2>2. /\ cells[j].level = scopeLevel + 1 /\ cells[j].frame = n + 1 /\ cells[j].var = vs[j]
    OBVIOUS
  <2>3. fluidStack'[i] = cells[j]
    BY <1>9, <2>1
  <2> QED
    BY <1>6, <2>1, <2>2, <2>3
<1>11. /\ new.level0 = m /\ new.jmp = NoJmp /\ new.was = global
       /\ DOMAIN new.saved = ToSet(vs) /\ \A v \in ToSet(vs) : new.saved[v] = global[v]
  OBVIOUS
<1> HIDE DEF new, cells
<1>12. FluidType(Val, Own)'
  BY <1>1, <1>2, <1>8, <1>9 DEF FluidType
<1>13. SavedWas'
  BY <1>8, <1>11, <1>1 DEF SavedWas, FluidInv
<1>14. CellsFit'
  <2>1. ASSUME NEW i \in DOMAIN fluidStack'
        PROVE  /\ fluidStack'[i].frame \in DOMAIN calls'
               /\ fluidStack'[i].var \in DOMAIN calls'[fluidStack'[i].frame].saved
    <3>1. CASE i <= m
      BY <3>1, <1>1, <1>8, <1>9 DEF CellsFit, FluidInv
    <3>2. CASE i > m
      BY <3>2, <1>1, <1>8, <1>9, <1>10, <1>11, SMTT(20)
    <3> QED
      BY <3>1, <3>2, <1>9, <1>1
  <2>2. ASSUME NEW f \in DOMAIN calls', NEW v \in DOMAIN calls'[f].saved
        PROVE  \E i \in DOMAIN fluidStack' : fluidStack'[i].frame = f /\ fluidStack'[i].var = v
    <3>1. CASE f <= n
      <4>1. f \in DOMAIN calls /\ v \in DOMAIN calls[f].saved
        BY <3>1, <1>8, <1>1
      <4>2. PICK i \in DOMAIN fluidStack : fluidStack[i].frame = f /\ fluidStack[i].var = v
        BY <4>1 DEF CellsFit, FluidInv
      <4>3. i \in DOMAIN fluidStack' /\ fluidStack'[i] = fluidStack[i]
        BY <4>2, <1>1, <1>9
      <4>4. fluidStack'[i].frame = f /\ fluidStack'[i].var = v
        BY <4>2, <4>3
      <4> QED
        BY <4>3, <4>4
    <3>2. CASE f = n + 1
      <4>1. PICK k \in DOMAIN vs : vs[k] = v
        BY <3>2, <1>8, <1>11 DEF ToSet
      <4>2. PICK i \in m + 1 .. m + Len(vs) : i - m = k
        <5>1. m + k \in m + 1 .. m + Len(vs) /\ (m + k) - m = k
          BY <4>1, <1>1
        <5> QED
          BY <5>1
      <4>3. fluidStack'[i].frame = f /\ fluidStack'[i].var = v
        BY <3>2, <4>1, <4>2, <1>10
      <4>4. i \in DOMAIN fluidStack'
        BY <4>2, <1>1, <1>9
      <4> QED
        BY <4>3, <4>4
    <3> QED
      BY <3>1, <3>2, <1>8, <1>1
  <2> QED
    BY <2>1, <2>2 DEF CellsFit
<1>15. MarksFit'
  <2> SUFFICES ASSUME NEW f \in DOMAIN calls'
               PROVE  /\ calls'[f].level0 <= Len(fluidStack')
                      /\ \A i \in DOMAIN fluidStack' :
                            fluidStack'[i].frame < f <=> i <= calls'[f].level0
                      /\ calls'[f].jmp # NoJmp =>
                            /\ calls'[f].jmp <= Len(fluidStack')
                            /\ \A i \in DOMAIN fluidStack' :
                                  fluidStack'[i].frame <= f <=> i <= calls'[f].jmp
    BY DEF MarksFit
  <2>1. \A i \in 1 .. m : fluidStack[i].frame \in 1 .. n
    BY <1>9, CellType
  <2>2. CASE f = n + 1
    <3>1. calls'[f].level0 = m /\ calls'[f].jmp = NoJmp
      BY <2>2, <1>8, <1>11
    <3>2. \A i \in DOMAIN fluidStack' : fluidStack'[i].frame < f <=> i <= m
      <4>1. ASSUME NEW i \in DOMAIN fluidStack', i <= m
            PROVE  fluidStack'[i].frame < f
        <5>1. i \in 1 .. m
          BY <4>1, <1>1, <1>9
        <5>2. fluidStack'[i] = fluidStack[i] /\ fluidStack[i].frame \in 1 .. n
          BY <5>1, <2>1, <1>9
        <5> QED
          BY <5>2, <2>2, <1>1
      <4>2. ASSUME NEW i \in DOMAIN fluidStack', i > m
            PROVE  fluidStack'[i].frame = f
        <5>1. i \in m + 1 .. m + Len(vs)
          BY <4>2, <1>1, <1>9
        <5> QED
          BY <5>1, <2>2, <1>10
      <4>3. \A i \in DOMAIN fluidStack' : i <= m \/ i > m
        BY <1>1, <1>9
      <4> QED
        BY <4>1, <4>2, <4>3, <2>2, <1>1
    <3> QED
      BY <3>1, <3>2, <1>1, <1>9
  <2>3. CASE f \in 1 .. n
    <3> f \in DOMAIN calls
      BY <2>3, <1>8
    <3>1. /\ calls[f].level0 \in 0 .. m
          /\ \A i \in 1 .. m : fluidStack[i].frame < f <=> i <= calls[f].level0
          /\ calls[f].jmp # NoJmp =>
                /\ calls[f].jmp \in 0 .. m
                /\ \A i \in 1 .. m : fluidStack[i].frame <= f <=> i <= calls[f].jmp
      BY <1>9, FrameType DEF MarksFit, FluidInv
    <3>2. calls'[f] = calls[f]
      BY <2>3, <1>8
    <3>3. ASSUME NEW i \in DOMAIN fluidStack'
          PROVE  /\ fluidStack'[i].frame < f <=> i <= calls[f].level0
                 /\ calls[f].jmp # NoJmp => (fluidStack'[i].frame <= f <=> i <= calls[f].jmp)
      <4>1. CASE i \in 1 .. m
        BY <4>1, <3>1, <1>9
      <4>2. CASE i \in m + 1 .. m + Len(vs)
        BY <4>2, <2>3, <3>1, <1>1, <1>10
      <4> QED
        BY <4>1, <4>2, <1>1, <1>9
    <3>5. /\ calls[f].level0 <= Len(fluidStack')
          /\ calls[f].jmp # NoJmp => calls[f].jmp <= Len(fluidStack')
      BY <3>1, <1>1, <1>9
    <3> QED
      BY <3>2, <3>3, <3>5
  <2> QED
    BY <2>2, <2>3, <1>8, <1>1
<1>16. LevelsFit'
  <2>1. \A i \in 1 .. m : /\ fluidStack[i].frame \in 1 .. n /\ fluidStack[i].level \in Nat
                          /\ fluidStack[i].level <= scopeLevel
    BY <1>9, CellType
  <2>2. \A i, j \in 1 .. m :
          /\ i <= j => fluidStack[i].level <= fluidStack[j].level
          /\ fluidStack[i].frame = fluidStack[j].frame => fluidStack[i].level = fluidStack[j].level
    BY <1>9 DEF LevelsFit, FluidInv
  <2>3. \A i \in DOMAIN fluidStack' :
          /\ fluidStack'[i].level <= scopeLevel'
          /\ fluidStack'[i].frame = Len(calls') => fluidStack'[i].level = scopeLevel'
    BY <2>1, <1>1, <1>2, <1>8, <1>9, <1>10
  <2>4. ASSUME NEW i \in DOMAIN fluidStack', NEW j \in DOMAIN fluidStack'
        PROVE  /\ i <= j => fluidStack'[i].level <= fluidStack'[j].level
               /\ fluidStack'[i].frame = fluidStack'[j].frame =>
                      fluidStack'[i].level = fluidStack'[j].level
    <3>1. CASE i \in 1 .. m /\ j \in 1 .. m
      BY <2>2, <3>1, <1>9
    <3>2. CASE i \in 1 .. m /\ j \in m + 1 .. m + Len(vs)
      BY <2>1, <3>2, <1>1, <1>9, <1>10
    <3>3. CASE i \in m + 1 .. m + Len(vs) /\ j \in 1 .. m
      BY <2>1, <3>3, <1>1, <1>9, <1>10
    <3>4. CASE i \in m + 1 .. m + Len(vs) /\ j \in m + 1 .. m + Len(vs)
      BY <3>4, <1>1, <1>10
    <3>5. DOMAIN fluidStack' = (1 .. m) \cup (m + 1 .. m + Len(vs))
      BY <1>1, <1>9
    <3> QED
      BY <3>1, <3>2, <3>3, <3>4, <3>5
  <2> QED
    BY <2>3, <2>4 DEF LevelsFit
<1> QED
  BY <1>1, <1>8, <1>12, <1>13, <1>14, <1>15, <1>16 DEF FluidStep, FluidInv, Restores

\* Cells of frames further in are further up.
LEMMA FramesRise ==
    ASSUME NEW Val, NEW Own, FluidInv(Val, Own),
           NEW i \in DOMAIN fluidStack, NEW j \in DOMAIN fluidStack, i <= j
    PROVE  fluidStack[i].frame <= fluidStack[j].frame
<1> DEFINE f == fluidStack[i].frame
           g == fluidStack[j].frame
<1>1. /\ f \in 1 .. Len(calls) /\ g \in 1 .. Len(calls) /\ f \in DOMAIN calls
      /\ i \in Nat /\ j \in Nat
  BY CellType DEF FluidInv, CellsFit
<1>2. calls[f].level0 \in Nat
  BY <1>1, FrameType
<1>3. /\ f < f <=> i <= calls[f].level0
      /\ g < f <=> j <= calls[f].level0
  BY <1>1 DEF FluidInv, MarksFit
<1> QED
  BY <1>1, <1>2, <1>3

\* What fluidUnwind does when the functions in the frames above k are left: the
\* cells above toCell are theirs.
Leaves(k, toCell, isLongJmp) ==
    /\ \A i \in DOMAIN fluidStack : fluidStack[i].frame <= k <=> i <= toCell
    /\ isLongJmp \/ k = Len(calls) - 1
    /\ fluidUnwind(toCell, isLongJmp)
    /\ calls' = SubSeq(calls, 1, k)

\* fluidUnwind, when all frames above one are left.
LEMMA LeavingKeeps ==
    ASSUME NEW Val, NEW Own, FluidInv(Val, Own),
           NEW k \in 0 .. Len(calls), NEW toCell \in 0 .. Len(fluidStack),
           NEW isLongJmp \in BOOLEAN, Leaves(k, toCell, isLongJmp)
    PROVE  FluidStep(Val, Own)
<1> DEFINE n == Len(calls)
           m == Len(fluidStack)
<1>1. /\ global \in [FluidVars -> Val] /\ scopeLevel \in Nat /\ improper = FALSE
      /\ fluidStack \in Seq(Cell) /\ calls \in Seq(Frame(Val, Own))
      /\ n \in Nat /\ m \in Nat /\ DOMAIN calls = 1 .. n /\ DOMAIN fluidStack = 1 .. m
      /\ k \in Nat /\ toCell \in Nat /\ k <= n /\ toCell <= m
  BY DEF FluidInv, FluidType
<1>2. \A i \in 1 .. m : /\ fluidStack[i].frame \in 1 .. n /\ fluidStack[i].level \in Nat
                        /\ fluidStack[i].level <= scopeLevel
                        /\ fluidStack[i].var \in FluidVars
                        /\ fluidStack[i].var \in DOMAIN calls[fluidStack[i].frame].saved
  BY <1>1, CellType
<1>3. \A i \in 1 .. m : fluidStack[i].frame <= k <=> i <= toCell
  BY <1>1 DEF Leaves
<1>4. /\ calls' = SubSeq(calls, 1, k) /\ fluidStack' = SubSeq(fluidStack, 1, toCell)
      /\ global' = Restored(toCell)
      /\ scopeLevel' = IF toCell > 0 THEN fluidStack[toCell].level ELSE 0
  BY DEF Leaves, fluidUnwind
<1>5. /\ calls' \in Seq(Frame(Val, Own)) /\ Len(calls') = k /\ DOMAIN calls' = 1 .. k
      /\ \A f \in 1 .. k : calls'[f] = calls[f]
  BY <1>1, <1>4
<1>6. /\ fluidStack' \in Seq(Cell) /\ Len(fluidStack') = toCell
      /\ DOMAIN fluidStack' = 1 .. toCell
      /\ \A i \in 1 .. toCell : fluidStack'[i] = fluidStack[i]
  BY <1>1, <1>4
<1>7. \A v \in FluidVars :
        LET bound == {f \in k + 1 .. n : v \in DOMAIN calls[f].saved}
            first == CHOOSE f \in bound : \A h \in bound : f <= h
        IN  /\ bound = {} => global'[v] = global[v]
            /\ bound # {} => /\ global'[v] = calls[first].was[v]
                             /\ global'[v] \in Val
  <2> SUFFICES ASSUME NEW v \in FluidVars
               PROVE  LET bound == {f \in k + 1 .. n : v \in DOMAIN calls[f].saved}
                          first == CHOOSE f \in bound : \A h \in bound : f <= h
                      IN  /\ bound = {} => global'[v] = global[v]
                          /\ bound # {} => /\ global'[v] = calls[first].was[v]
                                           /\ global'[v] \in Val
    OBVIOUS
  <2> DEFINE bound == {f \in k + 1 .. n : v \in DOMAIN calls[f].saved}
             first == CHOOSE f \in bound : \A h \in bound : f <= h
             cells == CellsOf(v, toCell)
  <2>1. global'[v] = IF cells = {} THEN global[v]
                     ELSE calls[fluidStack[LastWord(cells)].frame].saved[v]
    BY <1>4 DEF Restored
  <2>2. \A i : i \in cells <=> i \in toCell + 1 .. m /\ fluidStack[i].var = v
    BY DEF CellsOf, fluidLevel
  <2>3. ASSUME NEW i \in cells
        PROVE  i \in 1 .. m /\ fluidStack[i].frame \in bound
    <3>1. i \in 1 .. m /\ i > toCell /\ fluidStack[i].var = v
      BY <2>2, <1>1
    <3>2. fluidStack[i].frame > k
      BY <3>1, <1>1, <1>2, <1>3
    <3> QED
      BY <3>1, <3>2, <1>1, <1>2
  <2>4. ASSUME NEW f \in bound
        PROVE  \E i \in cells : fluidStack[i].frame = f
    <3>1. PICK i \in DOMAIN fluidStack : fluidStack[i].frame = f /\ fluidStack[i].var = v
      BY <1>1 DEF FluidInv, CellsFit
    <3>2. i \in 1 .. m /\ i > toCell
      BY <3>1, <1>1, <1>3
    <3>3. i \in cells
      BY <3>1, <3>2, <2>2, <1>1
    <3> QED
      BY <3>1, <3>3
  <2>5. cells \subseteq Nat /\ bound \subseteq Nat
    BY <2>3, <1>1
  <2> HIDE DEF bound, cells
  <2>6. ASSUME bound # {}
        PROVE  global'[v] = calls[first].was[v] /\ global'[v] \in Val
    <3>1. first \in bound /\ \A h \in bound : first <= h
      BY <2>5, <2>6, SomeLeast
    <3>2. cells # {}
      BY <2>4, <2>6
    <3> DEFINE c == LastWord(cells)
    <3>3. c \in cells /\ \A j \in cells : c <= j
      BY <2>5, <3>2, SomeLeast DEF LastWord
    <3> HIDE DEF first, c
    <3>4. PICK i \in cells : fluidStack[i].frame = first
      BY <2>4, <3>1
    <3>5. /\ c \in 1 .. m /\ i \in 1 .. m /\ fluidStack[c].frame \in bound
      BY <2>3, <3>3, <3>4
    <3>6. fluidStack[c].frame <= first
      BY <1>1, <3>3, <3>4, <3>5, FramesRise
    <3>7. fluidStack[c].frame = first
      <4>1. first <= fluidStack[c].frame
        BY <3>1, <3>5
      <4>2. first \in Nat /\ fluidStack[c].frame \in Nat
        BY <2>5, <3>1, <3>5
      <4> QED
        BY <4>1, <4>2, <3>6
    <3>8. global'[v] = calls[first].saved[v]
      BY <2>1, <3>2, <3>7 DEF c
    <3>9. first \in 1 .. n /\ v \in DOMAIN calls[first].saved
      BY <3>1, <1>1 DEF bound
    <3>10. calls[first].saved[v] = calls[first].was[v] /\ calls[first].saved[v] \in Val
      BY <3>9, <1>1, FrameType DEF FluidInv, SavedWas
    <3> QED
      BY <3>8, <3>10
  <2>7. ASSUME bound = {}
        PROVE  global'[v] = global[v]
    BY <2>1, <2>3, <2>7
  <2> QED
    BY <2>6, <2>7 DEF bound
<1>8. global' \in [FluidVars -> Val]
  BY <1>1, <1>4, <1>7 DEF Restored
<1>9. improper' = FALSE
  <2>1. ASSUME NEW i \in toCell + 1 .. m
        PROVE  ~ \/ scopeLevel < fluidStack[i].level
                 \/ scopeLevel > fluidStack[i].level /\ ~isLongJmp
    <3>1. i \in 1 .. m /\ i > toCell
      BY <1>1
    <3>2. CASE isLongJmp
      BY <3>1, <3>2, <1>1, <1>2
    <3>3. CASE ~isLongJmp
      <4>0. k = n - 1
        BY <3>3 DEF Leaves
      <4>1. k = n - 1 /\ fluidStack[i].frame = n
        BY <3>1, <4>0, <1>1, <1>2, <1>3
      <4> QED
        BY <3>1, <4>1, <1>1 DEF FluidInv, LevelsFit
    <3> QED
      BY <3>2, <3>3
  <2> QED
    BY <2>1, <1>1 DEF Leaves, fluidUnwind, fluidLevel
<1>10. scopeLevel' \in Nat
  <2>1. toCell > 0 => toCell \in 1 .. m
    BY <1>1
  <2> QED
    BY <2>1, <1>2, <1>4
<1>11. SavedWas'
  BY <1>1, <1>5 DEF SavedWas, FluidInv
<1>12. CellsFit'
  <2>1. ASSUME NEW i \in DOMAIN fluidStack'
        PROVE  /\ fluidStack'[i].frame \in DOMAIN calls'
               /\ fluidStack'[i].var \in DOMAIN calls'[fluidStack'[i].frame].saved
    BY <1>1, <1>2, <1>3, <1>5, <1>6
  <2>2. ASSUME NEW f \in DOMAIN calls', NEW v \in DOMAIN calls'[f].saved
        PROVE  \E i \in DOMAIN fluidStack' : fluidStack'[i].frame = f /\ fluidStack'[i].var = v
    <3>1. f \in 1 .. k /\ f \in DOMAIN calls /\ v \in DOMAIN calls[f].saved
      BY <1>1, <1>5
    <3>2. PICK i \in DOMAIN fluidStack : fluidStack[i].frame = f /\ fluidStack[i].var = v
      BY <3>1 DEF CellsFit, FluidInv
    <3>3. i \in DOMAIN fluidStack' /\ fluidStack'[i] = fluidStack[i]
      BY <3>1, <3>2, <1>1, <1>3, <1>6
    <3>4. fluidStack'[i].frame = f /\ fluidStack'[i].var = v
      BY <3>2, <3>3
    <3> QED
      BY <3>3, <3>4
  <2> QED
    BY <2>1, <2>2 DEF CellsFit
<1>13. MarksFit'
  <2>1. ASSUME NEW l \in 0 .. m,
               \A i \in 1 .. m : i <= l => fluidStack[i].frame <= k
        PROVE  l <= toCell
    <3>1. CASE l = 0
      BY <3>1, <1>1
    <3>2. CASE l \in 1 .. m
      BY <3>2, <2>1, <1>3
    <3> QED
      BY <3>1, <3>2, <1>1
  <2>2. ASSUME NEW f \in 1 .. k
        PROVE  /\ calls[f].level0 <= toCell
               /\ \A i \in 1 .. toCell : fluidStack[i].frame < f <=> i <= calls[f].level0
               /\ calls[f].jmp # NoJmp =>
                     /\ calls[f].jmp <= toCell
                     /\ \A i \in 1 .. toCell : fluidStack[i].frame <= f <=> i <= calls[f].jmp
    <3>1. f \in DOMAIN calls /\ f <= k /\ f \in Nat
      BY <1>1
    <3>2. /\ calls[f].level0 \in 0 .. m
          /\ \A i \in 1 .. m : fluidStack[i].frame < f <=> i <= calls[f].level0
          /\ calls[f].jmp # NoJmp =>
                /\ calls[f].jmp \in 0 .. m
                /\ \A i \in 1 .. m : fluidStack[i].frame <= f <=> i <= calls[f].jmp
      BY <3>1, <1>1, FrameType DEF MarksFit, FluidInv
    <3>3. calls[f].level0 <= toCell
      <4>1. \A i \in 1 .. m : i <= calls[f].level0 => fluidStack[i].frame <= k
        BY <3>1, <3>2, <1>1, <1>2
      <4> QED
        BY <3>1, <3>2, <4>1, <2>1
    <3>4. calls[f].jmp # NoJmp => calls[f].jmp <= toCell
      <4>1. calls[f].jmp # NoJmp =>
                \A i \in 1 .. m : i <= calls[f].jmp => fluidStack[i].frame <= k
        BY <3>1, <3>2, <1>1, <1>2
      <4> QED
        BY <3>1, <3>2, <4>1, <2>1
    <3> QED
      BY <3>2, <3>3, <3>4, <1>1
  <2> QED
    BY <2>2, <1>5, <1>6 DEF MarksFit
<1>14. LevelsFit'
  <2>1. \A i, j \in 1 .. m :
          /\ i <= j => fluidStack[i].level <= fluidStack[j].level
          /\ fluidStack[i].frame = fluidStack[j].frame => fluidStack[i].level = fluidStack[j].level
    BY <1>1 DEF LevelsFit, FluidInv
  <2>2. ASSUME NEW i \in 1 .. toCell
        PROVE  /\ fluidStack[i].level <= scopeLevel'
               /\ fluidStack[i].frame = k => fluidStack[i].level = scopeLevel'
    <3>1. toCell \in 1 .. m /\ i \in 1 .. m /\ i <= toCell /\ scopeLevel' = fluidStack[toCell].level
      BY <1>1, <1>4
    <3>2. fluidStack[i].frame = k => fluidStack[toCell].frame = k
      <4>1. fluidStack[i].frame <= fluidStack[toCell].frame
        BY <3>1, <1>1, FramesRise
      <4> QED
        BY <3>1, <4>1, <1>1, <1>2, <1>3
    <3> QED
      BY <3>1, <3>2, <2>1
  <2> QED
    BY <2>1, <2>2, <1>1, <1>5, <1>6 DEF LevelsFit
<1>15. FluidInv(Val, Own)'
  BY <1>5, <1>6, <1>8, <1>9, <1>10, <1>11, <1>12, <1>13, <1>14 DEF FluidInv, FluidType
<1>16. Restores
  BY <1>5, <1>7 DEF Restores
<1> QED
  BY <1>15, <1>16 DEF FluidStep

\* Return leaves the innermost frame.
LEMMA ReturnKeeps ==
    ASSUME NEW Val, NEW Own, FluidInv(Val, Own), Return
    PROVE  FluidStep(Val, Own) /\ Len(calls') = Len(calls) - 1
<1> DEFINE n == Len(calls)
           toCell == calls[n].level0
<1>1. /\ calls \in Seq(Frame(Val, Own)) /\ calls # <<>> /\ n \in Nat
      /\ DOMAIN fluidStack = 1 .. Len(fluidStack)
  BY DEF FluidInv, FluidType, Return
<1>2. n \in DOMAIN calls /\ n - 1 \in 0 .. n /\ n - 1 \in Nat
  BY <1>1
<1>3. toCell \in 0 .. Len(fluidStack)
  BY <1>2, FrameType
<1>4. \A i \in DOMAIN fluidStack : fluidStack[i].frame < n <=> i <= toCell
  BY <1>2 DEF FluidInv, MarksFit
<1>5. \A i \in DOMAIN fluidStack : fluidStack[i].frame <= n - 1 <=> i <= toCell
  BY <1>1, <1>4, CellType
<1>6. calls' = SubSeq(calls, 1, n - 1) /\ fluidUnwind(toCell, FALSE)
  BY DEF Return, Front, Last
<1>7. Leaves(n - 1, toCell, FALSE)
  BY <1>5, <1>6 DEF Leaves
<1>8. Len(calls') = n - 1
  <2>1. calls' = SubSeq(calls, 1, n - 1)
    BY <1>6
  <2>2. \A i \in 1 .. n - 1 : calls[i] \in Frame(Val, Own)
    BY <1>1
  <2>3. 1 \in Int /\ n - 1 \in Int /\ n >= 1
    BY <1>1
  <2>4. Len(SubSeq(calls, 1, n - 1)) = IF 1 <= n - 1 THEN (n - 1) - 1 + 1 ELSE 0
    BY <2>2, <2>3, SubSeqProperties
  <2>5. Len(calls') = IF 1 <= n - 1 THEN (n - 1) - 1 + 1 ELSE 0
    BY <2>1, <2>4, Zenon
  <2>6. n \in Nat
    BY <1>1
  <2> HIDE DEF n
  <2> QED
    BY <2>3, <2>5, <2>6
<1> HIDE DEF toCell
<1> QED
  BY <1>2, <1>3, <1>7, <1>8, LeavingKeeps

\* What assigns to variables, and what leaves them alone.
LEMMA AssignKeeps ==
    ASSUME NEW Val, NEW Own, FluidInv(Val, Own), global' \in [FluidVars -> Val],
           UNCHANGED <<fluidStack, scopeLevel, calls, improper>>
    PROVE  FluidStep(Val, Own)
<1>1. FluidInv(Val, Own)'
  BY DEF FluidInv, FluidType, SavedWas, CellsFit, MarksFit, LevelsFit
<1>2. ~ Len(calls') < Len(calls)
  BY DEF FluidInv, FluidType
<1> QED
  BY <1>1, <1>2 DEF FluidStep, Restores

\* SetJmp notes the level of the frame that says it.
LEMMA SetJmpKeeps ==
    ASSUME NEW Val, NEW Own, FluidInv(Val, Own), ClientSetJmp
    PROVE  FluidStep(Val, Own)
<1> DEFINE n == Len(calls)
           m == Len(fluidStack)
<1>1. /\ calls \in Seq(Frame(Val, Own)) /\ calls # <<>> /\ n \in Nat /\ m \in Nat
      /\ n \in 1 .. n /\ DOMAIN calls = 1 .. n /\ DOMAIN fluidStack = 1 .. m
  BY DEF FluidInv, FluidType, ClientSetJmp
<1>2. /\ calls' = [calls EXCEPT ![n] = [calls[n] EXCEPT !.jmp = m]]
      /\ global' = global /\ fluidStack' = fluidStack /\ scopeLevel' = scopeLevel
      /\ improper' = improper
  BY DEF ClientSetJmp, fluidLevel
<1> DEFINE top == [calls[n] EXCEPT !.jmp = m]
<1>3. calls[n] \in Frame(Val, Own)
  BY <1>1
<1>4. /\ top \in Frame(Val, Own) /\ top.jmp = m /\ top.level0 = calls[n].level0
      /\ top.saved = calls[n].saved /\ top.was = calls[n].was
  BY <1>1, <1>3 DEF Frame
<1>5. /\ calls' \in Seq(Frame(Val, Own)) /\ Len(calls') = n /\ DOMAIN calls' = 1 .. n
      /\ calls'[n] = top /\ \A f \in 1 .. n : f # n => calls'[f] = calls[f]
  BY <1>1, <1>2, <1>4
<1> HIDE DEF top
<1>6. \A f \in 1 .. n : /\ calls'[f].saved = calls[f].saved /\ calls'[f].was = calls[f].was
                        /\ calls'[f].level0 = calls[f].level0
  BY <1>4, <1>5
<1>7. FluidType(Val, Own)'
  BY <1>2, <1>5 DEF FluidInv, FluidType
<1>8. SavedWas' /\ CellsFit' /\ LevelsFit'
  BY <1>1, <1>2, <1>5, <1>6 DEF FluidInv, SavedWas, CellsFit, LevelsFit
<1>9. MarksFit'
  <2>1. \A i \in 1 .. m : fluidStack[i].frame <= n /\ i <= m
    BY <1>1, CellType
  <2> SUFFICES ASSUME NEW f \in 1 .. n
               PROVE  /\ calls'[f].level0 <= m
                      /\ \A i \in 1 .. m : fluidStack[i].frame < f <=> i <= calls'[f].level0
                      /\ calls'[f].jmp # NoJmp =>
                            /\ calls'[f].jmp <= m
                            /\ \A i \in 1 .. m : fluidStack[i].frame <= f <=> i <= calls'[f].jmp
    BY <1>1, <1>2, <1>5 DEF MarksFit
  <2>2. /\ calls[f].level0 <= m
        /\ \A i \in 1 .. m : fluidStack[i].frame < f <=> i <= calls[f].level0
        /\ calls[f].jmp # NoJmp =>
              /\ calls[f].jmp <= m
              /\ \A i \in 1 .. m : fluidStack[i].frame <= f <=> i <= calls[f].jmp
    BY <1>1 DEF FluidInv, MarksFit
  <2>3. CASE f = n
    BY <2>1, <2>2, <2>3, <1>1, <1>4, <1>5
  <2>4. CASE f # n
    BY <2>2, <2>4, <1>5
  <2> QED
    BY <2>3, <2>4
<1>10. ~ Len(calls') < Len(calls)
  <2>1. Len(calls') = Len(calls) /\ Len(calls) \in Nat
    BY <1>1, <1>5
  <2> QED
    BY <2>1
<1> QED
  BY <1>7, <1>8, <1>9, <1>10 DEF FluidStep, FluidInv, Restores

\* A LongJmp leaves all frames above the one that said SetJmp.
LEMMA LongJmpKeeps ==
    ASSUME NEW Val, NEW Own, FluidInv(Val, Own), ClientLongJmp
    PROVE  FluidStep(Val, Own)
<1>1. PICK f \in 1 .. Len(calls) :
          /\ calls[f].jmp # NoJmp
          /\ fluidUnwind(calls[f].jmp, TRUE)
          /\ calls' = SubSeq(calls, 1, f)
  BY DEF ClientLongJmp
<1>2. f \in DOMAIN calls /\ f \in 0 .. Len(calls)
  BY DEF FluidInv, FluidType
<1>3. /\ calls[f].jmp \in 0 .. Len(fluidStack)
      /\ \A i \in DOMAIN fluidStack : fluidStack[i].frame <= f <=> i <= calls[f].jmp
  BY <1>1, <1>2, FrameType DEF FluidInv, MarksFit
<1>4. Leaves(f, calls[f].jmp, TRUE)
  BY <1>1, <1>3 DEF Leaves
<1> DEFINE toCell == calls[f].jmp
<1>5. toCell \in 0 .. Len(fluidStack) /\ Leaves(f, toCell, TRUE)
  BY <1>3, <1>4
<1> HIDE DEF toCell
<1> QED
  BY <1>2, <1>5, LeavingKeeps

\* A call binds variables in any order.
LEMMA CallKeeps ==
    ASSUME NEW Val, FluidInv(Val, {{}}), ClientCall
    PROVE  FluidStep(Val, {{}})
<1>1. PICK vs \in SetToAllKPermutations(FluidVars) : Scope(vs, {}, global)
  BY DEF ClientCall
<1>2. PICK S \in SUBSET FluidVars : vs \in SetToSeqs(S)
  BY DEF SetToAllKPermutations
<1>3. vs \in [1 .. Cardinality(S) -> S]
  BY <1>2 DEF SetToSeqs
<1>4. Cardinality(S) \in Nat
  BY <1>2, FluidConstants, FS_Subset, FS_CardinalityType
<1>5. vs \in Seq(FluidVars)
  BY <1>3, <1>4
<1>6. {} \in {{}} /\ global \in [FluidVars -> Val]
  BY DEF FluidInv, FluidType
<1> QED
  BY <1>1, <1>5, <1>6, ScopeKeeps

\* The invariant of any client's behaviours.
LEMMA FluidInitially ==
    ASSUME NEW Val, NEW Own, NEW value \in [FluidVars -> Val], FluidInit(value)
    PROVE  FluidInv(Val, Own)
<1>1. /\ fluidStack = <<>> /\ calls = <<>> /\ scopeLevel = 0 /\ improper = FALSE
      /\ global = value
  BY DEF FluidInit
<1>2. DOMAIN fluidStack = {} /\ DOMAIN calls = {}
  BY <1>1
<1> QED
  BY <1>1, <1>2 DEF FluidInv, FluidType, SavedWas, CellsFit, MarksFit, LevelsFit

\* Any client: its variables have the values of FluidValues, its frames keep
\* nothing of their own.
LEMMA FluidStepKeeps ==
    ASSUME FluidInv(FluidValues, {{}}), [FluidNext]_fluidVars
    PROVE  FluidStep(FluidValues, {{}})
<1>1. CASE ClientCall
  BY <1>1, CallKeeps
<1>2. CASE ClientAssign
  <2>1. global \in [FluidVars -> FluidValues]
    BY DEF FluidInv, FluidType
  <2>2. global' \in [FluidVars -> FluidValues]
    BY <1>2, <2>1 DEF ClientAssign
  <2> QED
    BY <1>2, <2>2, AssignKeeps DEF ClientAssign
<1>3. CASE ClientReturn
  BY <1>3, ReturnKeeps DEF ClientReturn
<1>4. CASE ClientSetJmp
  BY <1>4, SetJmpKeeps
<1>5. CASE ClientLongJmp
  BY <1>5, LongJmpKeeps
<1>6. CASE UNCHANGED fluidVars
  <2>1. global' \in [FluidVars -> FluidValues]
    BY <1>6 DEF FluidInv, FluidType, fluidVars
  <2> QED
    BY <1>6, <2>1, AssignKeeps DEF fluidVars
<1> QED
  BY <1>1, <1>2, <1>3, <1>4, <1>5, <1>6 DEF FluidNext

\* Whatever functions bind variables, assign to them, return and jump out of
\* others, in any number of frames: a variable that is no longer bound is what
\* it was, and no return is taken for an improper one.
THEOREM FluidsCorrect == FluidSpec => FluidsRestored
<1>1. (\E value \in [FluidVars -> FluidValues] : FluidInit(value)) => FluidInv(FluidValues, {{}})
  BY FluidInitially
<1>2. FluidInv(FluidValues, {{}}) /\ [FluidNext]_fluidVars => FluidInv(FluidValues, {{}})'
  BY FluidStepKeeps DEF FluidStep
<1>3. FluidInv(FluidValues, {{}}) /\ [FluidNext]_fluidVars => [Restores /\ ~improper']_fluidVars
  BY FluidStepKeeps DEF FluidStep, FluidInv, FluidType
<1> QED
  BY <1>1, <1>2, <1>3, PTL DEF FluidSpec, FluidsRestored, Restores

-----------------------------------------------------------------------------
(* The includer: types.                                                     *)

Val == FluidValues \cup IfState
Ops == {"text", "assert", "unassert", "unknown", "botched", "include", "reinclude",
        "if", "elseif", "else", "endif"}
SLine == [serial : Nat, op : Ops, isEndifLine : BOOLEAN]

\* The line of a directive that a frame is opened for.
OpenLine == [serial : Nat, op : {"if", "include", "reinclude"}, isEndifLine : {FALSE}]
FileState == [file : File, pos : Nat, codes : Seq(File)]
FileOwn == [kind : {"file"}, line : OpenLine \cup {<<>>}, o_fileState : FileState]
IfOwn == [kind : {"if"}, line : OpenLine]
SkippedOwn == [kind : {"skipped"}]
Own == FileOwn \cup IfOwn \cup SkippedOwn
Condition == [on : BOOLEAN, done : BOOLEAN, elsed : BOOLEAN, odd : BOOLEAN]

Fluids == FluidInv(Val, Own)
FrameKind(f) == calls[f].own.kind

InclType ==
    /\ fileState \in FileState
    /\ inclSerialLineNo \in Nat
    /\ sll \in Seq(Seq(SLine)) /\ Len(sll) = Len(calls)
    /\ d_sll \in Seq(SLine)
    /\ result \in Seq(SLine)
    /\ taken \in Seq(Nat)
    /\ inclPhase \in {"idle", "line", "directive", "done"}
    /\ inclPhase \in {"idle", "done"} <=> calls = <<>>
    /\ inclPhase \in {"idle", "line"} => d_sll = <<>>

\* A frame has saved ifState, and knows the line that it was opened for.
FramesFit ==
    \A f \in 1 .. Len(calls) :
        /\ DOMAIN calls[f].saved = {"ifState"}
        /\ f = 1 => FrameKind(f) = "file"
        /\ f > 1 /\ FrameKind(f) # "skipped" => calls[f].own.line \in OpenLine

\* The value of ifState in each frame: in those further out, what the next has
\* saved.
StateIn(f) == IF f = Len(calls) THEN ifState ELSE calls[f + 1].saved["ifState"]

StatesFit ==
    \A f \in 1 .. Len(calls) :
        /\ FrameKind(f) = "file" => StateIn(f) = "NoIf"
        /\ FrameKind(f) = "if" => StateIn(f) \in IfState \ {"NoIf"}
        /\ FrameKind(f) = "skipped" => StateIn(f) = "FormerlyActiveIf"
        /\ FrameKind(f) = "skipped" /\ f < Len(calls) => FrameKind(f + 1) = "skipped"

\* No line that ends an #if is kept by the frame of one that is skipped.
NoEndif(s) == \A i \in 1 .. Len(s) : ~s[i].isEndifLine
SkippedFit ==
    \A f \in 1 .. Len(calls) :
        FrameKind(f) = "skipped" =>
            /\ NoEndif(sll[f])
            /\ f = Len(calls) => d_sll = EndifLine \/ NoEndif(d_sll)

Types == Fluids /\ InclType /\ FramesFit /\ StatesFit /\ SkippedFit

\* What is known of a frame.
LEMMA OwnType ==
    ASSUME Types, NEW f \in 1 .. Len(calls)
    PROVE  /\ f \in DOMAIN calls /\ Len(calls) \in Nat
           /\ FrameKind(f) \in {"file", "if", "skipped"}
           /\ FrameKind(f) = "file" => calls[f].own.o_fileState \in FileState
           /\ f > 1 /\ FrameKind(f) # "skipped" => calls[f].own.line \in OpenLine
           /\ calls[f].saved["ifState"] \in Val
           /\ sll[f] \in Seq(SLine)
<1>1. f \in DOMAIN calls /\ Len(calls) \in Nat
  BY DEF Types, Fluids, FluidInv, FluidType
<1>2. calls[f] \in Frame(Val, Own)
  BY <1>1, FrameType DEF Types, Fluids
<1>3. calls[f].own \in Own
  BY <1>2 DEF Frame
<1>4. FrameKind(f) \in {"file", "if", "skipped"}
  BY <1>3 DEF FrameKind, Own, FileOwn, IfOwn, SkippedOwn
<1>5. FrameKind(f) = "file" => calls[f].own.o_fileState \in FileState
  BY <1>3 DEF FrameKind, Own, FileOwn, IfOwn, SkippedOwn
<1>6. calls[f].saved["ifState"] \in Val
  BY <1>1, FrameType DEF Types, Fluids, FramesFit
<1>7. sll[f] \in Seq(SLine)
  BY DEF Types, InclType
<1> QED
  BY <1>1, <1>4, <1>5, <1>6, <1>7 DEF Types, FramesFit

\* A frame is opened, with ifState bound and given a value.
LEMMA EnterIs ==
    ASSUME Fluids, InclType, NEW state \in IfState, NEW own \in Own, Enter(state, own)
    PROVE  /\ FluidStep(Val, Own)
           /\ Len(calls') = Len(calls) + 1 /\ Len(calls) \in Nat
           /\ \A f \in 1 .. Len(calls) : calls'[f] = calls[f]
           /\ calls'[Len(calls) + 1].own = own
           /\ DOMAIN calls'[Len(calls) + 1].saved = {"ifState"}
           /\ calls'[Len(calls) + 1].saved["ifState"] = ifState
           /\ ifState' = state
           /\ sll' = Append(sll, <<>>) /\ inclPhase' = "line"
<1> DEFINE value == [global EXCEPT !["ifState"] = state]
           new == [level0 |-> fluidLevel, saved |-> [v \in ToSet(<<"ifState">>) |-> global[v]],
                   jmp |-> NoJmp, was |-> global, own |-> own]
<1>1. /\ global \in [FluidVars -> Val] /\ calls \in Seq(Frame(Val, Own)) /\ Len(calls) \in Nat
  BY DEF Fluids, FluidInv, FluidType
<1>2. "ifState" \in FluidVars /\ <<"ifState">> \in Seq(FluidVars)
  BY InclConstants
<1>3. value \in [FluidVars -> Val] /\ value["ifState"] = state
  BY <1>1, <1>2 DEF Val
<1>4. Scope(<<"ifState">>, own, value)
  BY DEF Enter
<1>5. calls' = Append(calls, new) /\ global' = value
  BY <1>4 DEF Scope
<1>6. new.own = own /\ DOMAIN new.saved = {"ifState"} /\ new.saved["ifState"] = ifState
  <2>1. ToSet(<<"ifState">>) = {"ifState"}
    BY DEF ToSet
  <2> QED
    BY <2>1 DEF ifState
<1> HIDE DEF new, value
<1>7. FluidStep(Val, Own)
  BY <1>2, <1>3, <1>4, ScopeKeeps DEF Fluids
<1>8. /\ Len(calls') = Len(calls) + 1 /\ calls'[Len(calls) + 1] = new
      /\ \A f \in 1 .. Len(calls) : calls'[f] = calls[f]
  BY <1>1, <1>5
<1>9. ifState' = state
  BY <1>3, <1>5 DEF ifState
<1> QED
  BY <1>1, <1>6, <1>7, <1>8, <1>9 DEF Enter

\* The innermost frame is left, and ifState is again what it was.
LEMMA ReturnIs ==
    ASSUME Fluids, InclType, FramesFit, Return
    PROVE  /\ FluidStep(Val, Own)
           /\ Len(calls') = Len(calls) - 1 /\ Len(calls) \in Nat \ {0}
           /\ \A f \in 1 .. Len(calls) - 1 : calls'[f] = calls[f]
           /\ ifState' = calls[Len(calls)].saved["ifState"]
<1> DEFINE n == Len(calls)
<1>1. calls \in Seq(Frame(Val, Own)) /\ n \in Nat \ {0} /\ n \in DOMAIN calls /\ calls # <<>>
  BY DEF Fluids, FluidInv, FluidType, Return
<1>2. FluidStep(Val, Own) /\ Len(calls') = n - 1
  BY ReturnKeeps DEF Fluids
<1>3. \A f \in 1 .. n - 1 : calls'[f] = calls[f]
  BY <1>1 DEF Return, Front
<1>4. ifState' = calls[n].saved["ifState"]
  <2> DEFINE bound == {f \in n - 1 + 1 .. n : "ifState" \in DOMAIN calls[f].saved}
  <2>1. /\ "ifState" \in FluidVars /\ "ifState" \in DOMAIN calls[n].saved
    BY <1>1, InclConstants DEF FramesFit
  <2>2. bound = {n}
    BY <1>1, <2>1
  <2>3. global'["ifState"] = IF bound = {} THEN global["ifState"]
                             ELSE calls[CHOOSE f \in bound : \A h \in bound : f <= h].was["ifState"]
    BY <1>1, <1>2, <2>1 DEF FluidStep, Restores
  <2>4. (CHOOSE f \in bound : \A h \in bound : f <= h) = n
    BY <2>2, <1>1
  <2>5. calls[n].saved["ifState"] = calls[n].was["ifState"]
    BY <1>1, <2>1 DEF Fluids, FluidInv, SavedWas
  <2> QED
    BY <2>2, <2>3, <2>4, <2>5 DEF ifState
<1> QED
  BY <1>1, <1>2, <1>3, <1>4

-----------------------------------------------------------------------------
(* The includer: the kinds of steps there are, and what they do to types.   *)

\* A frame may be opened: only a file at first, and no file and no #if that
\* counts among lines that are skipped.
OwnFits(state, own) ==
    /\ own \in Own
    /\ own.kind = "file" => state = "NoIf"
    /\ own.kind = "if" => state \in {"ActiveIf", "InactiveIf"}
    /\ own.kind = "skipped" => state = "FormerlyActiveIf"
    /\ calls = <<>> => own.kind = "file"
    /\ calls # <<>> /\ own.kind # "skipped" => own.line \in OpenLine /\ INCLUDING

EnterStep(state, own) ==
    /\ OwnFits(state, own) /\ Enter(state, own)
    /\ inclPhase \in {"idle", "line"}
    /\ fileState' \in FileState
    /\ inclSerialLineNo' \in {inclSerialLineNo, inclSerialLineNo + 1}
    /\ calls # <<>> /\ own.kind # "skipped" =>
          own.line.serial = inclSerialLineNo + 1 /\ inclSerialLineNo' = inclSerialLineNo + 1
    /\ UNCHANGED <<d_sll, result, taken>>

\* The frames up to k stay what they are.
FramesKept(k) == \A f \in 1 .. k : calls'[f] = calls[f] /\ StateIn(f)' = StateIn(f)

\* A frame is opened.
LEMMA EnterTypes ==
    ASSUME Types, NEW state, NEW own, EnterStep(state, own)
    PROVE  /\ Types' /\ Restores
           /\ Len(calls') = Len(calls) + 1 /\ FramesKept(Len(calls))
           /\ calls'[Len(calls) + 1].own = own /\ ifState' = state
<1>0. PICK n \in Nat : n = Len(calls)
  BY DEF Types, Fluids, FluidInv, FluidType
<1>1. state \in IfState /\ own \in Own
  BY DEF EnterStep, OwnFits, Own, FileOwn, IfOwn, SkippedOwn, IfState
<1>2. /\ FluidStep(Val, Own)
      /\ n = Len(calls) /\ Len(calls') = n + 1 /\ n \in Nat
      /\ \A f \in 1 .. n : calls'[f] = calls[f]
      /\ calls'[n + 1].own = own
      /\ DOMAIN calls'[n + 1].saved = {"ifState"}
      /\ calls'[n + 1].saved["ifState"] = ifState
      /\ ifState' = state
      /\ sll' = Append(sll, <<>>) /\ inclPhase' = "line"
  BY <1>0, <1>1, EnterIs DEF Types, EnterStep
<1>3. Fluids' /\ Restores
  BY <1>2 DEF FluidStep, Fluids
<1>4. /\ sll' \in Seq(Seq(SLine)) /\ Len(sll') = n + 1 /\ sll'[n + 1] = <<>>
      /\ \A f \in 1 .. n : sll'[f] = sll[f]
  BY <1>2 DEF Types, InclType
<1>5. calls' # <<>>
  BY <1>2
<1>6. d_sll' = <<>>
  BY DEF EnterStep, Types, InclType
<1>7. InclType'
  BY <1>2, <1>4, <1>5, <1>6 DEF EnterStep, Types, InclType
<1>8. calls = <<>> <=> n = 0
  BY <1>0 DEF Types, Fluids, FluidInv, FluidType
<1>9. FramesFit'
  <2> SUFFICES ASSUME NEW f \in 1 .. n + 1
               PROVE  /\ DOMAIN calls'[f].saved = {"ifState"}
                      /\ f = 1 => calls'[f].own.kind = "file"
                      /\ f > 1 /\ calls'[f].own.kind # "skipped" => calls'[f].own.line \in OpenLine
    BY <1>2 DEF FramesFit, FrameKind
  <2>1. CASE f = n + 1
    BY <2>1, <1>2, <1>8 DEF EnterStep, OwnFits
  <2>2. CASE f \in 1 .. n
    <3>1. calls'[f] = calls[f]
      BY <2>2, <1>2
    <3> QED
      BY <2>2, <3>1, <1>0 DEF Types, FramesFit, FrameKind
  <2> QED
    BY <2>1, <2>2, <1>0
<1>10. /\ StateIn(n + 1)' = state /\ FrameKind(n + 1)' = own.kind
       /\ \A f \in 1 .. n : StateIn(f)' = StateIn(f) /\ FrameKind(f)' = FrameKind(f)
  <2>1. ASSUME NEW f \in 1 .. n
        PROVE  StateIn(f)' = StateIn(f)
    <3>1. CASE f = n
      <4>1. f # Len(calls') /\ f + 1 = n + 1
        BY <3>1, <1>2
      <4>2. StateIn(f)' = calls'[n + 1].saved["ifState"]
        BY <4>1 DEF StateIn
      <4> QED
        BY <3>1, <4>2, <1>2 DEF StateIn
    <3>2. CASE f # n
      <4>1. f + 1 \in 1 .. n /\ f # Len(calls')
        BY <3>2, <1>2
      <4>2. StateIn(f)' = calls'[f + 1].saved["ifState"]
        BY <4>1 DEF StateIn
      <4>3. calls'[f + 1] = calls[f + 1]
        BY <4>1, <1>2
      <4>4. StateIn(f) = calls[f + 1].saved["ifState"]
        BY <3>2, <1>0 DEF StateIn
      <4> QED
        BY <4>2, <4>3, <4>4
    <3> QED
      BY <3>1, <3>2
  <2>2. \A f \in 1 .. n : FrameKind(f)' = FrameKind(f)
    BY <1>2 DEF FrameKind
  <2>3. StateIn(n + 1)' = state /\ FrameKind(n + 1)' = own.kind
    BY <1>2 DEF StateIn, FrameKind
  <2> QED
    BY <2>1, <2>2, <2>3
<1>11. StatesFit'
  <2>1. own.kind \in {"file", "if", "skipped"} /\ state \in IfState
    BY <1>1 DEF Own, FileOwn, IfOwn, SkippedOwn
  <2>2. n > 0 /\ FrameKind(n) = "skipped" => ifState = "FormerlyActiveIf"
    <3>1. n > 0 => n \in 1 .. n
      BY <1>2
    <3> QED
      BY <3>1, <1>0 DEF Types, StatesFit, StateIn
  <2>3. n > 0 /\ FrameKind(n) = "skipped" => own.kind = "skipped"
    BY <2>1, <2>2, <1>8 DEF EnterStep, OwnFits, INCLUDING
  <2> SUFFICES ASSUME NEW f \in 1 .. n + 1
               PROVE  /\ FrameKind(f)' = "file" => StateIn(f)' = "NoIf"
                      /\ FrameKind(f)' = "if" => StateIn(f)' \in IfState \ {"NoIf"}
                      /\ FrameKind(f)' = "skipped" => StateIn(f)' = "FormerlyActiveIf"
                      /\ FrameKind(f)' = "skipped" /\ f < n + 1 => FrameKind(f + 1)' = "skipped"
    BY <1>2 DEF StatesFit
  <2>4. CASE f = n + 1
    <3>1. /\ own.kind = "file" => state = "NoIf"
          /\ own.kind = "if" => state \in IfState \ {"NoIf"}
          /\ own.kind = "skipped" => state = "FormerlyActiveIf"
      BY DEF EnterStep, OwnFits, IfState
    <3> QED
      BY <2>4, <3>1, <1>2, <1>10
  <2>5. CASE f \in 1 .. n
    <3>1. FrameKind(f) = "skipped" => FrameKind(f + 1)' = "skipped"
      <4>1. CASE f = n
        BY <4>1, <2>3, <1>2, <1>10
      <4>2. CASE f # n
        <5>1. f < n /\ f + 1 \in 1 .. n
          BY <4>2, <2>5, <1>2
        <5>2. FrameKind(f + 1)' = FrameKind(f + 1)
          BY <5>1, <1>10
        <5> QED
          BY <5>1, <5>2, <2>5, <1>0 DEF Types, StatesFit
      <4> QED
        BY <4>1, <4>2
    <3>2. StateIn(f)' = StateIn(f) /\ FrameKind(f)' = FrameKind(f)
      BY <2>5, <1>10
    <3> QED
      BY <2>5, <3>1, <3>2, <1>0 DEF Types, StatesFit
  <2> QED
    BY <2>4, <2>5, <1>2
<1>12. SkippedFit'
  <2>1. NoEndif(<<>>)
    BY DEF NoEndif
  <2> QED
    BY <2>1, <1>2, <1>4, <1>6, <1>10 DEF Types, SkippedFit, NoEndif
<1> QED
  BY <1>2, <1>3, <1>7, <1>9, <1>10, <1>11, <1>12 DEF Types, FramesKept

\* The frames stay, and the innermost state changes as an #elseif or an #else
\* may change it, or not at all.
StateStep(state) ==
    /\ state \in IfState
    /\ state = "NoIf" <=> ifState = "NoIf"
    /\ ifState = "FormerlyActiveIf" => state = "FormerlyActiveIf"
    /\ global' = [global EXCEPT !["ifState"] = state]
    /\ UNCHANGED <<fluidStack, scopeLevel, calls, improper>>

\* The frames are what they were, and fit the next state.
LEMMA StayTypes ==
    ASSUME Types, NEW state, StateStep(state), InclType', SkippedFit'
    PROVE  Types' /\ Restores /\ ifState' = state
<1>0. PICK n \in Nat : n = Len(calls)
  BY DEF Types, Fluids, FluidInv, FluidType
<1>1. calls' = calls /\ Len(calls') = n
  BY <1>0 DEF StateStep
<1>2. global \in [FluidVars -> Val] /\ "ifState" \in FluidVars
  BY InclConstants DEF Types, Fluids, FluidInv, FluidType
<1>3. global' \in [FluidVars -> Val] /\ global'["ifState"] = state
  BY <1>2 DEF StateStep, Val
<1>4. FluidStep(Val, Own)
  BY <1>3, AssignKeeps DEF Types, Fluids, StateStep
<1>5. Fluids' /\ Restores
  BY <1>4 DEF FluidStep, Fluids
<1>6. ifState' = state
  BY <1>3 DEF ifState
<1>7. FramesFit'
  BY <1>1 DEF Types, FramesFit, FrameKind
<1>8. StatesFit'
  <2> SUFFICES ASSUME NEW f \in 1 .. n
               PROVE  /\ FrameKind(f)' = "file" => StateIn(f)' = "NoIf"
                      /\ FrameKind(f)' = "if" => StateIn(f)' \in IfState \ {"NoIf"}
                      /\ FrameKind(f)' = "skipped" => StateIn(f)' = "FormerlyActiveIf"
                      /\ FrameKind(f)' = "skipped" /\ f < n => FrameKind(f + 1)' = "skipped"
    BY <1>1 DEF StatesFit
  <2>1. FrameKind(f)' = FrameKind(f) /\ FrameKind(f + 1)' = FrameKind(f + 1)
    BY <1>1 DEF FrameKind
  <2>2. /\ FrameKind(f) = "file" => StateIn(f) = "NoIf"
        /\ FrameKind(f) = "if" => StateIn(f) \in IfState \ {"NoIf"}
        /\ FrameKind(f) = "skipped" => StateIn(f) = "FormerlyActiveIf"
        /\ FrameKind(f) = "skipped" /\ f < n => FrameKind(f + 1) = "skipped"
    BY <1>0 DEF Types, StatesFit
  <2>3. StateIn(f)' = IF f = n THEN state ELSE StateIn(f)
    BY <1>0, <1>1, <1>6 DEF StateIn
  <2>4. f = n => StateIn(f) = ifState
    BY <1>0 DEF StateIn
  <2> QED
    BY <2>1, <2>2, <2>3, <2>4 DEF StateStep
<1> QED
  BY <1>5, <1>6, <1>7, <1>8 DEF Types

\* A directive that opens no frame: what it returns, and the next state.
AnswerStep(state, d) ==
    /\ inclPhase = "line" /\ inclPhase' = "directive"
    /\ StateStep(state)
    /\ d_sll' = d
    /\ d \in {<<>>, EndifLine} \/ \E op \in Ops \ {"text"} : d = <<SrcLine(op)>>
    /\ ifState = "FormerlyActiveIf" => d = EndifLine \/ NoEndif(d)
    /\ fileState' \in FileState /\ inclSerialLineNo' = inclSerialLineNo + 1
    /\ UNCHANGED <<sll, result, taken>>

\* The directive is given to inclLine.
LEMMA AnswerTypes ==
    ASSUME Types, NEW state, NEW d, AnswerStep(state, d)
    PROVE  Types' /\ Restores /\ ifState' = state
<1>1. calls' = calls /\ calls # <<>> /\ inclSerialLineNo' \in Nat
  BY DEF AnswerStep, StateStep, Types, InclType
<1>2. d \in Seq(SLine)
  <2>1. EndifLine \in Seq(SLine)
    BY DEF EndifLine, SLine, Ops
  <2>2. ASSUME NEW op \in Ops  PROVE SrcLine(op) \in SLine
    BY <1>1 DEF SrcLine, SLine
  <2>3. ASSUME NEW op \in Ops, d = <<SrcLine(op)>>  PROVE d \in Seq(SLine)
    BY <2>2, <2>3
  <2>4. <<>> \in Seq(SLine)
    OBVIOUS
  <2> QED
    BY <2>1, <2>3, <2>4 DEF AnswerStep
<1>3. InclType'
  BY <1>1, <1>2 DEF AnswerStep, Types, InclType
<1>4. SkippedFit'
  <2> SUFFICES ASSUME NEW f \in 1 .. Len(calls), FrameKind(f) = "skipped"
               PROVE  /\ NoEndif(sll[f])
                      /\ f = Len(calls) => d = EndifLine \/ NoEndif(d)
    BY <1>1 DEF SkippedFit, FrameKind, AnswerStep, NoEndif
  <2>1. StateIn(f) = "FormerlyActiveIf"
    BY DEF Types, StatesFit
  <2> QED
    BY <2>1 DEF Types, SkippedFit, StateIn, AnswerStep
<1> QED
  BY <1>3, <1>4, StayTypes DEF AnswerStep

\* A line, or what a directive returned, is added to the innermost list.
AddStep(d) ==
    /\ inclPhase \in {"line", "directive"} /\ inclPhase' = "line"
    /\ StateStep(ifState)
    /\ d \in Seq(SLine) /\ (FrameKind(Len(calls)) = "skipped" => NoEndif(d))
    /\ sll' = [sll EXCEPT ![Len(sll)] = d \o @]
    /\ d_sll' = <<>>
    /\ fileState' \in FileState /\ inclSerialLineNo' \in Nat
    /\ taken' \in Seq(Nat)
    /\ UNCHANGED result

\* The lists are lists of lines when something is added to one.
LEMMA AddTypes ==
    ASSUME Types, NEW d, AddStep(d)
    PROVE  Types' /\ Restores
<1>1. calls' = calls /\ calls # <<>>
  BY DEF AddStep, StateStep, Types, InclType
<1>2. Len(sll) = Len(calls) /\ Len(sll) \in Nat \ {0}
  BY <1>1 DEF Types, InclType, Fluids, FluidInv, FluidType
<1>3. /\ sll' \in Seq(Seq(SLine)) /\ Len(sll') = Len(sll)
      /\ sll'[Len(sll)] = d \o sll[Len(sll)]
      /\ \A f \in 1 .. Len(sll) - 1 : sll'[f] = sll[f]
  <2>1. sll \in Seq(Seq(SLine)) /\ sll[Len(sll)] \in Seq(SLine)
    BY <1>2 DEF Types, InclType
  <2>2. d \o sll[Len(sll)] \in Seq(SLine)
    BY <2>1 DEF AddStep
  <2> QED
    BY <1>2, <2>1, <2>2, SMTT(20) DEF AddStep
<1>4. InclType'
  BY <1>1, <1>2, <1>3 DEF AddStep, Types, InclType
<1>5. SkippedFit'
  <2> SUFFICES ASSUME NEW f \in 1 .. Len(calls), FrameKind(f) = "skipped"
               PROVE  NoEndif(sll'[f]) /\ NoEndif(<<>>)
    BY <1>1 DEF SkippedFit, FrameKind, AddStep, NoEndif
  <2>1. NoEndif(sll[f]) /\ sll[f] \in Seq(SLine)
    BY OwnType DEF Types, SkippedFit
  <2>2. f = Len(calls) => NoEndif(d \o sll[f])
    BY <2>1 DEF NoEndif, AddStep
  <2>3. NoEndif(<<>>)
    BY DEF NoEndif
  <2>4. sll'[f] = sll[f] \/ (f = Len(calls) /\ sll'[f] = d \o sll[f])
    <3>1. f = Len(sll) \/ f \in 1 .. Len(sll) - 1
      BY <1>2
    <3> QED
      BY <3>1, <1>2, <1>3
  <2> QED
    BY <2>1, <2>2, <2>3, <2>4
<1> QED
  BY <1>4, <1>5, StayTypes DEF AddStep

\* inclFileContents ends: all the lines of its frame are added to what was
\* returned last, and are returned.
Took == IF d_sll = EndifLine THEN <<>> ELSE d_sll
EndStep ==
    /\ calls # <<>> /\ inclPhase \in {"line", "directive"}
    /\ EndContents(Took \o Last(sll))
    /\ inclPhase = "line" \/ isThisEndifLine(d_sll)

\* The innermost frame is left, and those further out stay.
LEMMA EndTypes ==
    ASSUME Types, EndStep
    PROVE  /\ Types' /\ Restores
           /\ Len(calls') = Len(calls) - 1 /\ FramesKept(Len(calls) - 1)
<1>0. PICK n \in Nat \ {0} : n = Len(calls)
  BY DEF Types, Fluids, FluidInv, FluidType, EndStep
<1>1. /\ FluidStep(Val, Own)
      /\ Len(calls') = n - 1
      /\ \A f \in 1 .. n - 1 : calls'[f] = calls[f]
      /\ ifState' = calls[n].saved["ifState"]
  BY <1>0, ReturnIs DEF EndStep, EndContents, Types
<1>2. Fluids' /\ Restores
  BY <1>1 DEF FluidStep, Fluids
<1>3. \A f \in 1 .. n - 1 : FrameKind(f)' = FrameKind(f) /\ StateIn(f)' = StateIn(f)
  <2> SUFFICES ASSUME NEW f \in 1 .. n - 1
               PROVE  FrameKind(f)' = FrameKind(f) /\ StateIn(f)' = StateIn(f)
    OBVIOUS
  <2>1. FrameKind(f)' = FrameKind(f)
    BY <1>1 DEF FrameKind
  <2>2. StateIn(f) = calls[f + 1].saved["ifState"]
    BY <1>0 DEF StateIn
  <2>3. CASE f = n - 1
    <3>1. f = Len(calls') /\ f + 1 = n
      BY <2>3, <1>0, <1>1
    <3>2. StateIn(f)' = ifState'
      BY <3>1 DEF StateIn
    <3> QED
      BY <2>1, <2>2, <3>1, <3>2, <1>1
  <2>4. CASE f # n - 1
    <3>1. f + 1 \in 1 .. n - 1 /\ f # Len(calls')
      BY <2>4, <1>0, <1>1
    <3>2. StateIn(f)' = calls'[f + 1].saved["ifState"]
      BY <3>1 DEF StateIn
    <3> QED
      BY <2>1, <2>2, <3>1, <3>2, <1>1
  <2> QED
    BY <2>1, <2>3, <2>4
<1>4. FramesFit'
  BY <1>0, <1>1 DEF Types, FramesFit, FrameKind
<1>5. StatesFit'
  <2> SUFFICES ASSUME NEW f \in 1 .. n - 1
               PROVE  /\ FrameKind(f)' = "file" => StateIn(f)' = "NoIf"
                      /\ FrameKind(f)' = "if" => StateIn(f)' \in IfState \ {"NoIf"}
                      /\ FrameKind(f)' = "skipped" => StateIn(f)' = "FormerlyActiveIf"
                      /\ FrameKind(f)' = "skipped" /\ f < n - 1 => FrameKind(f + 1)' = "skipped"
    BY <1>1 DEF StatesFit
  <2>1. /\ FrameKind(f) = "file" => StateIn(f) = "NoIf"
        /\ FrameKind(f) = "if" => StateIn(f) \in IfState \ {"NoIf"}
        /\ FrameKind(f) = "skipped" => StateIn(f) = "FormerlyActiveIf"
        /\ FrameKind(f) = "skipped" => FrameKind(f + 1) = "skipped"
    BY <1>0 DEF Types, StatesFit
  <2>2. f < n - 1 => FrameKind(f + 1)' = FrameKind(f + 1)
    BY <1>0, <1>3
  <2> QED
    BY <1>3, <2>1, <2>2
<1>6. /\ Took \in Seq(SLine) /\ Last(sll) = sll[n] /\ sll[n] \in Seq(SLine)
      /\ Took \o Last(sll) \in Seq(SLine)
  <2>1. n \in 1 .. Len(calls) /\ d_sll \in Seq(SLine) /\ Len(sll) = n
    BY <1>0 DEF Types, InclType
  <2>2. Took \in Seq(SLine) /\ sll[n] \in Seq(SLine)
    BY <2>1, OwnType DEF Took
  <2> QED
    BY <2>1, <2>2 DEF Last
<1>7. /\ sll' \in Seq(Seq(SLine)) /\ Len(sll') = n - 1
      /\ \A f \in 1 .. n - 1 : sll'[f] = sll[f]
  <2>1. sll \in Seq(Seq(SLine)) /\ Len(sll) = n
    BY <1>0 DEF Types, InclType
  <2> QED
    BY <2>1, <1>0 DEF EndStep, EndContents, Front
<1>8. /\ n = 1 => inclPhase' = "done" /\ result' = Reverse(Took \o Last(sll)) /\ d_sll' = d_sll
      /\ n # 1 => /\ inclPhase' = "directive" /\ result' = result
                  /\ d_sll' = IF FrameKind(n) = "skipped" THEN Took \o Last(sll)
                              ELSE Append(Took \o Last(sll), calls[n].own.line)
      /\ fileState' = IF FrameKind(n) = "file" THEN calls[n].own.o_fileState ELSE fileState
      /\ inclSerialLineNo' = inclSerialLineNo /\ taken' = taken
  BY <1>0 DEF EndStep, EndContents, addSysCmd, Last, FrameKind
<1>9. /\ FrameKind(n) = "file" => calls[n].own.o_fileState \in FileState
      /\ n # 1 /\ FrameKind(n) # "skipped" => calls[n].own.line \in OpenLine
  <2>1. n \in 1 .. Len(calls)
    BY <1>0
  <2> QED
    BY <1>0, <2>1, OwnType
<1>10. OpenLine \subseteq SLine
  BY DEF OpenLine, SLine, Ops
<1>11. d_sll' \in Seq(SLine) /\ result' \in Seq(SLine) /\ fileState' \in FileState
  <2>1. \A s \in Seq(SLine) : Reverse(s) \in Seq(SLine)
    BY DEF Reverse
  <2>2. d_sll' \in Seq(SLine)
    <3>1. \A x \in SLine : Append(Took \o Last(sll), x) \in Seq(SLine)
      BY <1>6
    <3>2. n = 1 => d_sll' = d_sll
      BY <1>8
    <3> QED
      BY <3>1, <3>2, <1>6, <1>8, <1>9, <1>10 DEF Types, InclType
  <2>3. result' \in Seq(SLine)
    BY <2>1, <1>6, <1>8 DEF Types, InclType
  <2>4. fileState' \in FileState
    BY <1>8, <1>9 DEF Types, InclType
  <2> QED
    BY <2>2, <2>3, <2>4
<1>12. InclType'
  <2>1. calls' = <<>> <=> n = 1
    BY <1>0, <1>1, <1>2 DEF Fluids, FluidInv, FluidType
  <2> QED
    BY <2>1, <1>1, <1>7, <1>8, <1>11 DEF Types, InclType
<1>13. SkippedFit'
  <2> SUFFICES ASSUME NEW f \in 1 .. n - 1, FrameKind(f) = "skipped"
               PROVE  /\ NoEndif(sll[f])
                      /\ f = n - 1 => NoEndif(d_sll')
    BY <1>1, <1>3, <1>7 DEF SkippedFit, NoEndif
  <2>1. NoEndif(sll[f])
    BY <1>0 DEF Types, SkippedFit
  <2>2. CASE f = n - 1
    <3>1. FrameKind(n) = "skipped"
      <4>1. f \in 1 .. Len(calls) /\ f < Len(calls) /\ f + 1 = n
        BY <2>2, <1>0
      <4> QED
        BY <4>1 DEF Types, StatesFit
    <3>2. NoEndif(sll[n]) /\ (d_sll = EndifLine \/ NoEndif(d_sll))
      BY <3>1, <1>0 DEF Types, SkippedFit
    <3>3. NoEndif(Took)
      BY <3>2 DEF Took, NoEndif
    <3>4. NoEndif(Took \o Last(sll))
      BY <3>2, <3>3, <1>6 DEF NoEndif
    <3>5. n # 1
      BY <2>2
    <3> QED
      BY <2>1, <2>2, <3>1, <3>4, <3>5, <1>8
  <2> QED
    BY <2>1, <2>2
<1> QED
  BY <1>0, <1>1, <1>2, <1>3, <1>4, <1>5, <1>12, <1>13 DEF Types, FramesKept

-----------------------------------------------------------------------------
(* The includer: the order of lines.  The lists of lines that are still to  *)
(* be put together lie in piles, the earliest lines in the first, and in a  *)
(* pile the last line comes first.                                          *)

Falling(s) == \A i, j \in 1 .. Len(s) : i < j => s[j].serial < s[i].serial
Below(s, t) == \A i \in 1 .. Len(s), j \in 1 .. Len(t) : s[i].serial < t[j].serial
UpTo(s, top) == \A i \in 1 .. Len(s) : s[i].serial <= top

Stacked(P, top) ==
    /\ \A f \in 1 .. Len(P) : Falling(P[f]) /\ UpTo(P[f], top)
    /\ \A f, g \in 1 .. Len(P) : f < g => Below(P[f], P[g])

TextOf(s) == {l.serial : l \in {k \in ToSet(s) : k.op = "text"}}
TextsOf(P) == UNION {TextOf(P[f]) : f \in 1 .. Len(P)}

\* The text of two lists.
LEMMA TextOfBoth ==
    ASSUME NEW s \in Seq(SLine), NEW t \in Seq(SLine)
    PROVE  TextOf(s \o t) = TextOf(s) \cup TextOf(t)
<1>1. ToSet(s \o t) = ToSet(s) \cup ToSet(t)
  <2>1. ASSUME NEW x \in ToSet(s \o t)  PROVE x \in ToSet(s) \cup ToSet(t)
    <3>1. PICK i \in 1 .. Len(s) + Len(t) : x = (s \o t)[i]
      BY DEF ToSet
    <3>2. CASE i <= Len(s)
      BY <3>1, <3>2 DEF ToSet
    <3>3. CASE i > Len(s)
      <4>1. i - Len(s) \in DOMAIN t /\ x = t[i - Len(s)]
        BY <3>1, <3>3
      <4> QED
        BY <4>1 DEF ToSet
    <3> QED
      BY <3>2, <3>3
  <2>2. ASSUME NEW x \in ToSet(s)  PROVE x \in ToSet(s \o t)
    <3>1. PICK i \in 1 .. Len(s) : x = s[i]
      BY DEF ToSet
    <3>2. i \in DOMAIN (s \o t) /\ x = (s \o t)[i]
      BY <3>1
    <3> QED
      BY <3>2 DEF ToSet
  <2>3. ASSUME NEW x \in ToSet(t)  PROVE x \in ToSet(s \o t)
    <3>1. PICK i \in 1 .. Len(t) : x = t[i]
      BY DEF ToSet
    <3>2. Len(s) + i \in DOMAIN (s \o t) /\ x = (s \o t)[Len(s) + i]
      BY <3>1
    <3> QED
      BY <3>2 DEF ToSet
  <2> QED
    BY <2>1, <2>2, <2>3
<1> QED
  BY <1>1 DEF TextOf

\* A list is put before an earlier one.
LEMMA FallingBoth ==
    ASSUME NEW s \in Seq(SLine), NEW t \in Seq(SLine), NEW top \in Nat,
           Falling(s), Falling(t), Below(t, s), UpTo(s, top), UpTo(t, top)
    PROVE  Falling(s \o t) /\ UpTo(s \o t, top)
<1> DEFINE u == s \o t
<1>1. /\ u \in Seq(SLine) /\ Len(u) = Len(s) + Len(t) /\ Len(s) \in Nat /\ Len(t) \in Nat
      /\ \A i \in 1 .. Len(s) : u[i] = s[i]
      /\ \A i \in Len(s) + 1 .. Len(s) + Len(t) : u[i] = t[i - Len(s)]
  OBVIOUS
<1> HIDE DEF u
<1>2. UpTo(u, top)
  <2>1. ASSUME NEW i \in 1 .. Len(u)  PROVE u[i].serial <= top
    <3>1. CASE i <= Len(s)
      BY <3>1, <1>1 DEF UpTo
    <3>2. CASE i > Len(s)
      <4>1. i \in Len(s) + 1 .. Len(s) + Len(t) /\ i - Len(s) \in 1 .. Len(t)
        BY <3>2, <1>1
      <4>2. u[i] = t[i - Len(s)]
        BY <4>1, <1>1
      <4> QED
        BY <4>1, <4>2 DEF UpTo
    <3> QED
      BY <3>1, <3>2, <1>1
  <2> QED
    BY <2>1 DEF UpTo
<1>3. ASSUME NEW i \in 1 .. Len(u), NEW j \in 1 .. Len(u), i < j
      PROVE  u[j].serial < u[i].serial
  <2>1. CASE j <= Len(s)
    BY <1>1, <1>3, <2>1, SMTT(20) DEF Falling
  <2>2. CASE i <= Len(s) /\ j > Len(s)
    <3>1. i \in 1 .. Len(s) /\ j - Len(s) \in 1 .. Len(t)
      BY <1>1, <1>3, <2>2
    <3>2. u[i] = s[i] /\ u[j] = t[j - Len(s)]
      BY <1>1, <2>2
    <3> QED
      BY <3>1, <3>2 DEF Below
  <2>3. CASE i > Len(s)
    <3>1. i - Len(s) \in 1 .. Len(t) /\ j - Len(s) \in 1 .. Len(t) /\ i - Len(s) < j - Len(s)
      BY <1>1, <1>3, <2>3
    <3>2. u[i] = t[i - Len(s)] /\ u[j] = t[j - Len(s)]
      <4>1. i \in Len(s) + 1 .. Len(s) + Len(t) /\ j \in Len(s) + 1 .. Len(s) + Len(t)
        BY <1>1, <1>3, <2>3
      <4> QED
        BY <4>1, <1>1
    <3> QED
      BY <3>1, <3>2 DEF Falling
  <2> QED
    BY <2>1, <2>2, <2>3, <1>1
<1> QED
  BY <1>2, <1>3 DEF u, Falling

\* Lists that are above another, and a line that is.
LEMMA BelowBoth ==
    ASSUME NEW s \in Seq(SLine), NEW t \in Seq(SLine), NEW u \in Seq(SLine),
           Below(s, t), Below(s, u)
    PROVE  Below(s, t \o u)
<1> DEFINE v == t \o u
<1>1. /\ Len(v) = Len(t) + Len(u) /\ Len(t) \in Nat /\ Len(u) \in Nat
      /\ \A i \in 1 .. Len(t) : v[i] = t[i]
      /\ \A i \in Len(t) + 1 .. Len(t) + Len(u) : v[i] = u[i - Len(t)]
  OBVIOUS
<1> HIDE DEF v
<1>2. ASSUME NEW i \in 1 .. Len(s), NEW j \in 1 .. Len(v)
      PROVE  s[i].serial < v[j].serial
  <2>1. CASE j <= Len(t)
    BY <2>1, <1>1 DEF Below
  <2>2. CASE j > Len(t)
    <3>1. j \in Len(t) + 1 .. Len(t) + Len(u) /\ j - Len(t) \in 1 .. Len(u)
      BY <2>2, <1>1
    <3>2. v[j] = u[j - Len(t)]
      BY <3>1, <1>1
    <3> QED
      BY <3>1, <3>2 DEF Below
  <2> QED
    BY <2>1, <2>2, <1>1
<1> QED
  BY <1>2 DEF Below, v

\* A line above a list that ends below it.
LEMMA BelowLine ==
    ASSUME NEW s \in Seq(SLine), NEW top \in Nat, UpTo(s, top), NEW x, x.serial = top + 1
    PROVE  Below(s, <<x>>)
<1>1. ASSUME NEW i \in 1 .. Len(s), NEW j \in 1 .. Len(<<x>>)
      PROVE  s[i].serial < <<x>>[j].serial
  <2>1. s[i] \in SLine
    OBVIOUS
  <2>2. s[i].serial \in Nat /\ s[i].serial <= top
    BY <2>1 DEF SLine, UpTo
  <2>3. <<x>>[j] = x
    OBVIOUS
  <2> QED
    BY <2>2, <2>3
<1> QED
  BY <1>1 DEF Below

\* The texts of the last pile and of the others.
LEMMA TextsLast ==
    ASSUME NEW n \in Nat, NEW P, Len(P) = n + 1
    PROVE  TextsOf(P) = (UNION {TextOf(P[f]) : f \in 1 .. n}) \cup TextOf(P[n + 1])
<1>1. 1 .. n + 1 = (1 .. n) \cup {n + 1}
  OBVIOUS
<1>2. TextsOf(P) = UNION {TextOf(P[f]) : f \in (1 .. n) \cup {n + 1}}
  BY <1>1 DEF TextsOf
<1> QED
  BY <1>2

\* A list that is empty fits anywhere.
LEMMA NoLines ==
    ASSUME NEW s, NEW top
    PROVE  /\ Falling(<<>>) /\ UpTo(<<>>, top) /\ Below(s, <<>>) /\ Below(<<>>, s)
           /\ TextOf(<<>>) = {}
<1>1. ToSet(<<>>) = {}
  BY DEF ToSet
<1> QED
  BY <1>1 DEF Falling, UpTo, Below, TextOf

\* Lines that were read later are numbered higher.
LEMMA StackedRaise ==
    ASSUME NEW P \in Seq(Seq(SLine)), NEW top \in Nat, NEW above \in Nat, top <= above,
           Stacked(P, top)
    PROVE  Stacked(P, above)
<1>1. ASSUME NEW f \in 1 .. Len(P)  PROVE UpTo(P[f], above)
  <2>1. P[f] \in Seq(SLine) /\ UpTo(P[f], top)
    BY DEF Stacked
  <2>2. ASSUME NEW i \in 1 .. Len(P[f])  PROVE P[f][i].serial <= above
    <3>1. P[f][i] \in SLine
      BY <2>1
    <3>2. P[f][i].serial \in Nat
      BY <3>1 DEF SLine
    <3> QED
      BY <2>1, <3>2 DEF UpTo
  <2> QED
    BY <2>2 DEF UpTo
<1> QED
  BY <1>1 DEF Stacked

\* A new pile.
LEMMA StackedPush ==
    ASSUME NEW n \in Nat, NEW P \in Seq(Seq(SLine)), Len(P) = n,
           NEW Q \in Seq(Seq(SLine)), Len(Q) = n + 1,
           \A f \in 1 .. n : Q[f] = P[f], Q[n + 1] = <<>>,
           NEW top \in Nat, Stacked(P, top)
    PROVE  Stacked(Q, top) /\ TextsOf(Q) = TextsOf(P)
<1>1. \A f \in 1 .. n + 1 : Falling(Q[f]) /\ UpTo(Q[f], top)
  <2> TAKE f \in 1 .. n + 1
  <2>1. f \in 1 .. n \/ f = n + 1
    OBVIOUS
  <2> QED
    BY <2>1, NoLines DEF Stacked
<1>2. \A f, g \in 1 .. n + 1 : f < g => Below(Q[f], Q[g])
  <2> TAKE f, g \in 1 .. n + 1
  <2>1. f \in 1 .. n \/ f = n + 1
    OBVIOUS
  <2>2. g \in 1 .. n \/ g = n + 1
    OBVIOUS
  <2> QED
    BY <2>1, <2>2, NoLines DEF Stacked
<1>3. TextsOf(Q) = TextsOf(P)
  <2>1. \A f \in 1 .. n : TextOf(Q[f]) = TextOf(P[f])
    OBVIOUS
  <2>2. TextOf(Q[n + 1]) = {}
    BY NoLines
  <2>3. 1 .. n + 1 = (1 .. n) \cup {n + 1}
    OBVIOUS
  <2> QED
    BY <2>1, <2>2, <2>3, SMTT(20) DEF TextsOf
<1> QED
  BY <1>1, <1>2, <1>3 DEF Stacked

\* A line that is just read, on a pile that is empty.
PutOn(n, P, Q, x, top) ==
    /\ n \in Nat /\ top \in Nat /\ x \in SLine
    /\ P \in Seq(Seq(SLine)) /\ Len(P) = n + 1 /\ P[n + 1] = <<>>
    /\ Q \in Seq(Seq(SLine)) /\ Len(Q) = n + 1 /\ Q[n + 1] = <<x>>
    /\ \A f \in 1 .. n : Q[f] = P[f]
    /\ Stacked(P, top) /\ x.serial = top + 1

\* It is the last, and its number is among the text if it is text.
LEMMA StackedPut ==
    ASSUME NEW n, NEW P, NEW Q, NEW x, NEW top, PutOn(n, P, Q, x, top)
    PROVE  /\ Stacked(Q, top + 1)
           /\ TextsOf(Q) = TextsOf(P) \cup (IF x.op = "text" THEN {top + 1} ELSE {})
<1> USE DEF PutOn
<1>1. Stacked(P, top + 1)
  <2>1. P \in Seq(Seq(SLine)) /\ Stacked(P, top)
    OBVIOUS
  <2>2. top \in Nat /\ top + 1 \in Nat /\ top <= top + 1
    OBVIOUS
  <2> QED
    BY <2>1, <2>2, StackedRaise
<1>2. Len(<<x>>) = 1 /\ <<x>>[1] = x /\ ToSet(<<x>>) = {x}
  BY DEF ToSet
<1>3. Falling(<<x>>) /\ UpTo(<<x>>, top + 1)
  BY <1>2 DEF Falling, UpTo
<1>4. ASSUME NEW f \in 1 .. n  PROVE Below(P[f], <<x>>)
  <2>1. P[f] \in Seq(SLine) /\ UpTo(P[f], top)
    BY SMTT(20) DEF Stacked
  <2> QED
    BY <2>1, BelowLine
<1>5. \A f \in 1 .. n + 1 : Falling(Q[f]) /\ UpTo(Q[f], top + 1)
  <2> TAKE f \in 1 .. n + 1
  <2>1. f \in 1 .. n \/ f = n + 1
    OBVIOUS
  <2> QED
    BY <2>1, <1>1, <1>3 DEF Stacked
<1>6. \A f, g \in 1 .. n + 1 : f < g => Below(Q[f], Q[g])
  <2> TAKE f, g \in 1 .. n + 1
  <2>1. f \in 1 .. n \/ f = n + 1
    OBVIOUS
  <2>2. g \in 1 .. n \/ g = n + 1
    OBVIOUS
  <2>3. f \in 1 .. n /\ g \in 1 .. n /\ f < g => Below(P[f], P[g])
    BY <1>1 DEF Stacked
  <2>4. f \in 1 .. n => Below(P[f], <<x>>) /\ Q[f] = P[f]
    BY <1>4
  <2>5. g \in 1 .. n => Q[g] = P[g]
    OBVIOUS
  <2>6. f < g => f \in 1 .. n
    OBVIOUS
  <2>7. CASE g = n + 1
    BY <2>4, <2>6, <2>7
  <2>8. CASE g \in 1 .. n
    BY <2>3, <2>4, <2>5, <2>6, <2>8
  <2> QED
    BY <2>2, <2>7, <2>8
<1>7. TextsOf(Q) = TextsOf(P) \cup (IF x.op = "text" THEN {top + 1} ELSE {})
  <2>1. \A f \in 1 .. n : TextOf(Q[f]) = TextOf(P[f])
    OBVIOUS
  <2>2. TextOf(Q[n + 1]) = (IF x.op = "text" THEN {top + 1} ELSE {})
    BY <1>2 DEF TextOf
  <2>3. TextOf(P[n + 1]) = {}
    BY NoLines
  <2>4. {TextOf(Q[f]) : f \in 1 .. n} = {TextOf(P[f]) : f \in 1 .. n}
    BY <2>1
  <2>5. TextsOf(Q) = (UNION {TextOf(Q[f]) : f \in 1 .. n}) \cup TextOf(Q[n + 1])
    BY TextsLast
  <2>6. TextsOf(P) = (UNION {TextOf(P[f]) : f \in 1 .. n}) \cup TextOf(P[n + 1])
    BY TextsLast
  <2> QED
    BY <2>2, <2>3, <2>4, <2>5, <2>6
<1> QED
  BY <1>5, <1>6, <1>7 DEF Stacked

\* The last pile is put on the one before it.
Merged(n, P, Q) ==
    /\ n \in Nat \ {0}
    /\ P \in Seq(Seq(SLine)) /\ Len(P) = n + 1
    /\ Q \in Seq(Seq(SLine)) /\ Len(Q) = n
    /\ \A f \in 1 .. n - 1 : Q[f] = P[f]
    /\ Q[n] = P[n + 1] \o P[n]

\* No line is lost, and the order is that of the piles.
LEMMA StackedMerge ==
    ASSUME NEW n, NEW P, NEW Q, Merged(n, P, Q), NEW top \in Nat, Stacked(P, top)
    PROVE  Stacked(Q, top) /\ TextsOf(Q) = TextsOf(P)
<1> USE DEF Merged
<1>1. P[n] \in Seq(SLine) /\ P[n + 1] \in Seq(SLine) /\ n \in 1 .. n + 1 /\ n < n + 1
  OBVIOUS
<1>2. Below(P[n], P[n + 1])
  BY <1>1 DEF Stacked
<1>3. /\ Falling(P[n]) /\ Falling(P[n + 1]) /\ UpTo(P[n], top) /\ UpTo(P[n + 1], top)
  BY <1>1 DEF Stacked
<1>4. Falling(Q[n]) /\ UpTo(Q[n], top)
  BY <1>1, <1>2, <1>3, FallingBoth
<1>5. ASSUME NEW f \in 1 .. n - 1  PROVE Below(P[f], Q[n])
  <2>1. Below(P[f], P[n]) /\ Below(P[f], P[n + 1]) /\ P[f] \in Seq(SLine)
    BY DEF Stacked
  <2> QED
    BY <2>1, <1>1, BelowBoth
<1>6. \A f \in 1 .. n : Falling(Q[f]) /\ UpTo(Q[f], top)
  <2> TAKE f \in 1 .. n
  <2>1. f \in 1 .. n - 1 \/ f = n
    OBVIOUS
  <2>2. f \in 1 .. n - 1 => f \in 1 .. Len(P) /\ Q[f] = P[f]
    OBVIOUS
  <2> QED
    BY <2>1, <2>2, <1>4 DEF Stacked
<1>7. \A f, g \in 1 .. n : f < g => Below(Q[f], Q[g])
  <2> TAKE f, g \in 1 .. n
  <2>1. f < g => f \in 1 .. n - 1
    OBVIOUS
  <2>2. g \in 1 .. n - 1 \/ g = n
    OBVIOUS
  <2>3. f \in 1 .. n - 1 => Below(P[f], Q[n]) /\ f \in 1 .. Len(P) /\ Q[f] = P[f]
    BY <1>5
  <2>4. f < g /\ g \in 1 .. n - 1 => g \in 1 .. Len(P) /\ Q[g] = P[g]
    OBVIOUS
  <2> QED
    BY <2>1, <2>2, <2>3, <2>4 DEF Stacked
<1>8. TextsOf(Q) = TextsOf(P)
  <2>1. {TextOf(Q[f]) : f \in 1 .. n - 1} = {TextOf(P[f]) : f \in 1 .. n - 1}
    <3>1. \A f \in 1 .. n - 1 : Q[f] = P[f]
      OBVIOUS
    <3> QED
      BY <3>1
  <2>2. TextOf(Q[n]) = TextOf(P[n + 1]) \cup TextOf(P[n])
    BY <1>1, TextOfBoth
  <2>3. TextsOf(Q) = (UNION {TextOf(Q[f]) : f \in 1 .. n - 1}) \cup TextOf(Q[n])
    <3>1. 1 .. n = (1 .. n - 1) \cup {n}
      OBVIOUS
    <3>2. TextsOf(Q) = UNION {TextOf(Q[f]) : f \in (1 .. n - 1) \cup {n}}
      BY <3>1 DEF TextsOf
    <3> QED
      <4>1. \A S, T : UNION {TextOf(Q[f]) : f \in S \cup T}
                     = (UNION {TextOf(Q[f]) : f \in S}) \cup UNION {TextOf(Q[f]) : f \in T}
        BY ZenonT(60)
      <4>2. UNION {TextOf(Q[f]) : f \in {n}} = TextOf(Q[n])
        BY ZenonT(60)
      <4> QED
        BY <3>2, <4>1, <4>2
  <2>4. TextsOf(P) = (UNION {TextOf(P[f]) : f \in 1 .. n}) \cup TextOf(P[n + 1])
    BY TextsLast
  <2>5. UNION {TextOf(P[f]) : f \in 1 .. n} =
            (UNION {TextOf(P[f]) : f \in 1 .. n - 1}) \cup TextOf(P[n])
    <3>1. 1 .. n = (1 .. n - 1) \cup {n}
      OBVIOUS
    <3> QED
      BY <3>1
  <2> QED
    BY <2>1, <2>2, <2>3, <2>4, <2>5
<1> QED
  BY <1>6, <1>7, <1>8 DEF Stacked

\* The piles: for each frame what it will return, then what was returned.
Pile(f) ==
    IF f = 1 \/ FrameKind(f) = "skipped" THEN sll[f] ELSE Append(sll[f], calls[f].own.line)
Returned ==
    CASE inclPhase = "directive" -> Took
      [] inclPhase = "done" -> Reverse(result)
      [] OTHER -> <<>>
Piles == [f \in 1 .. Len(calls) + 1 |-> IF f <= Len(calls) THEN Pile(f) ELSE Returned]

Order == Stacked(Piles, inclSerialLineNo) /\ ToSet(taken) = TextsOf(Piles)

PilesFit ==
    /\ Piles \in Seq(Seq(SLine)) /\ Len(Piles) = Len(calls) + 1 /\ Len(calls) \in Nat
    /\ \A f \in 1 .. Len(calls) : Piles[f] = Pile(f)
    /\ Piles[Len(calls) + 1] = Returned

\* The piles are lists of lines.
LEMMA PilesType == Types => PilesFit
<1> SUFFICES ASSUME Types  PROVE PilesFit
  OBVIOUS
<1>0. PICK n \in Nat : n = Len(calls)
  BY DEF Types, Fluids, FluidInv, FluidType
<1>1. OpenLine \subseteq SLine
  BY DEF OpenLine, SLine, Ops
<1>2. ASSUME NEW f \in 1 .. n  PROVE Pile(f) \in Seq(SLine)
  <2>1. /\ f > 1 /\ FrameKind(f) # "skipped" => calls[f].own.line \in OpenLine
        /\ sll[f] \in Seq(SLine)
    BY <1>0, OwnType
  <2>2. \A x \in SLine : Append(sll[f], x) \in Seq(SLine)
    BY <2>1
  <2>3. CASE f = 1 \/ FrameKind(f) = "skipped"
    BY <2>1, <2>3 DEF Pile
  <2>4. CASE ~ (f = 1 \/ FrameKind(f) = "skipped")
    BY <2>1, <2>2, <2>4, <1>1 DEF Pile
  <2> QED
    BY <2>3, <2>4
<1>3. Returned \in Seq(SLine)
  <2>1. Took \in Seq(SLine)
    BY DEF Took, Types, InclType
  <2>2. Reverse(result) \in Seq(SLine)
    BY DEF Reverse, Types, InclType
  <2> QED
    BY <2>1, <2>2 DEF Returned
<1>4. /\ \A f \in 1 .. n : Piles[f] = Pile(f)
      /\ Piles[n + 1] = Returned
      /\ Len(Piles) = n + 1
  BY <1>0 DEF Piles
<1>5. Piles \in [1 .. n + 1 -> Seq(SLine)]
  BY <1>0, <1>2, <1>3 DEF Piles
<1> QED
  BY <1>0, <1>4, <1>5 DEF PilesFit

\* The line at the end of a list that is put before another.
LEMMA AppendBoth ==
    ASSUME NEW s \in Seq(SLine), NEW t \in Seq(SLine), NEW x \in SLine
    PROVE  Append(s \o t, x) = s \o Append(t, x)
<1>1. <<x>> \in Seq(SLine) /\ s \o t \in Seq(SLine)
  OBVIOUS
<1>2. Append(s \o t, x) = (s \o t) \o <<x>> /\ Append(t, x) = t \o <<x>>
  BY <1>1, AppendIsConcat
<1>3. (s \o t) \o <<x>> = s \o (t \o <<x>>)
  BY <1>1, ConcatAssociative
<1> QED
  BY <1>2, <1>3

\* What a step has to do with the piles.
LEMMA PilesAround ==
    ASSUME Types, Types'
    PROVE  /\ Piles \in Seq(Seq(SLine)) /\ Len(Piles) = Len(calls) + 1 /\ Len(calls) \in Nat
           /\ \A f \in 1 .. Len(calls) : Piles[f] = Pile(f)
           /\ Piles[Len(calls) + 1] = Returned
           /\ Piles' \in Seq(Seq(SLine)) /\ Len(Piles') = Len(calls') + 1 /\ Len(calls') \in Nat
           /\ \A f \in 1 .. Len(calls') : Piles'[f] = Pile(f)'
           /\ Piles'[Len(calls') + 1] = Returned'
           /\ inclSerialLineNo \in Nat /\ inclSerialLineNo' \in Nat
<1>1. PilesFit /\ PilesFit'
  BY PilesType, PTL
<1>2. inclSerialLineNo \in Nat /\ inclSerialLineNo' \in Nat
  BY DEF Types, InclType
<1>3. /\ Piles' \in Seq(Seq(SLine)) /\ Len(Piles') = Len(calls') + 1 /\ Len(calls') \in Nat
      /\ \A f \in 1 .. Len(calls') : Piles'[f] = Pile(f)'
      /\ Piles'[Len(calls') + 1] = Returned'
  BY <1>1 DEF PilesFit
<1> QED
  BY <1>1, <1>2, <1>3 DEF PilesFit

\* A directive's line is the last that was read.
LEMMA AnswerOrder ==
    ASSUME Types, Types', NEW state, NEW d, AnswerStep(state, d), Order
    PROVE  Order'
<1>0. PICK n \in Nat : n = Len(calls)
  BY DEF Types, Fluids, FluidInv, FluidType
<1>1. PICK P : P = Piles
  OBVIOUS
<1>2. PICK Q : Q = Piles'
  OBVIOUS
<1>3. PICK top \in Nat : top = inclSerialLineNo
  BY DEF Types, InclType
<1>4. calls' = calls /\ sll' = sll /\ inclSerialLineNo' = top + 1 /\ taken' = taken
  BY <1>3 DEF AnswerStep, StateStep
<1>5. /\ P \in Seq(Seq(SLine)) /\ Len(P) = n + 1
      /\ Q \in Seq(Seq(SLine)) /\ Len(Q) = n + 1
      /\ \A f \in 1 .. n : Q[f] = P[f]
      /\ P[n + 1] = Returned /\ Q[n + 1] = Returned'
  <2>1. \A f \in 1 .. n : Pile(f)' = Pile(f)
    BY <1>4 DEF Pile, FrameKind
  <2> QED
    BY <2>1, <1>0, <1>1, <1>2, <1>4, PilesAround
<1>6. P[n + 1] = <<>>
  BY <1>5 DEF Returned, AnswerStep
<1>7. Q[n + 1] = IF d = EndifLine THEN <<>> ELSE d
  BY <1>5 DEF Returned, Took, AnswerStep
<1>8. Stacked(P, top) /\ ToSet(taken) = TextsOf(P)
  BY <1>1, <1>3 DEF Order
<1>9. CASE Q[n + 1] = <<>>
  <2>1. Q = P
    <3>1. \A f \in 1 .. n + 1 : Q[f] = P[f]
      BY <1>5, <1>6, <1>9
    <3> QED
      BY <3>1, <1>5
  <2>2. Stacked(Q, top + 1)
    BY <2>1, <1>5, <1>8, StackedRaise
  <2> QED
    BY <2>1, <2>2, <1>2, <1>4, <1>8 DEF Order
<1>10. ASSUME NEW op \in Ops \ {"text"}, Q[n + 1] = <<SrcLine(op)>>
       PROVE  Order'
  <2>1. PICK x : x = SrcLine(op)
    OBVIOUS
  <2>2. x \in SLine /\ x.serial = top + 1 /\ x.op # "text"
    BY <2>1, <1>4 DEF SrcLine, SLine
  <2>3. Q[n + 1] = <<x>>
    BY <2>1, <1>10
  <2>4. /\ Stacked(Q, top + 1)
        /\ TextsOf(Q) = TextsOf(P) \cup (IF x.op = "text" THEN {top + 1} ELSE {})
    <3>1. PutOn(n, P, Q, x, top)
      BY <2>2, <2>3, <1>5, <1>6, <1>8 DEF PutOn
    <3> QED
      BY <3>1, StackedPut
  <2>5. TextsOf(Q) = TextsOf(P)
    BY <2>2, <2>4
  <2> QED
    BY <2>4, <2>5, <1>2, <1>4, <1>8 DEF Order
<1> QED
  BY <1>7, <1>9, <1>10 DEF AnswerStep

\* A frame begins with the line it is opened for.
LEMMA EnterOrder ==
    ASSUME Types, Types', NEW state, NEW own, EnterStep(state, own), Order
    PROVE  Order'
<1>0. PICK n \in Nat : n = Len(calls)
  BY DEF Types, Fluids, FluidInv, FluidType
<1>1. PICK P : P = Piles
  OBVIOUS
<1>2. PICK Q : Q = Piles'
  OBVIOUS
<1>3. PICK top \in Nat : top = inclSerialLineNo
  BY DEF Types, InclType
<1>4. state \in IfState /\ own \in Own
  BY DEF EnterStep, OwnFits, Own, FileOwn, IfOwn, SkippedOwn, IfState
<1>5. /\ Len(calls') = n + 1
      /\ \A f \in 1 .. n : calls'[f] = calls[f]
      /\ calls'[n + 1].own = own
      /\ sll' = Append(sll, <<>>) /\ inclPhase' = "line" /\ taken' = taken
  BY <1>0, <1>4, EnterIs DEF Types, EnterStep
<1>6. /\ sll'[n + 1] = <<>> /\ \A f \in 1 .. n : sll'[f] = sll[f]
  <2>1. sll \in Seq(Seq(SLine)) /\ Len(sll) = n
    BY <1>0 DEF Types, InclType
  <2> QED
    BY <2>1, <1>5
<1>7. /\ P \in Seq(Seq(SLine)) /\ Len(P) = n + 1
      /\ Q \in Seq(Seq(SLine)) /\ Len(Q) = n + 2
      /\ \A f \in 1 .. n : Q[f] = P[f]
      /\ P[n + 1] = Returned /\ Q[n + 1] = Pile(n + 1)' /\ Q[n + 2] = Returned'
  <2>1. \A f \in 1 .. n : Pile(f)' = Pile(f)
    BY <1>5, <1>6 DEF Pile, FrameKind
  <2>2. /\ P \in Seq(Seq(SLine)) /\ Len(P) = n + 1 /\ P[n + 1] = Returned
        /\ \A f \in 1 .. n : P[f] = Pile(f)
    BY <1>0, <1>1, PilesAround
  <2>3. /\ Q \in Seq(Seq(SLine)) /\ Len(Q) = n + 1 + 1 /\ Q[n + 1 + 1] = Returned'
        /\ \A f \in 1 .. n + 1 : Q[f] = Pile(f)'
    BY <1>2, <1>5, PilesAround
  <2> QED
    BY <2>1, <2>2, <2>3
<1>8. P[n + 1] = <<>> /\ Q[n + 2] = <<>>
  BY <1>5, <1>7 DEF Returned, EnterStep
<1>9. Stacked(P, top) /\ ToSet(taken) = TextsOf(P)
  BY <1>1, <1>3 DEF Order
<1> DEFINE R == [f \in 1 .. n + 1 |-> Q[f]]
<1>10. /\ R \in Seq(Seq(SLine)) /\ Len(R) = n + 1 /\ R[n + 1] = Q[n + 1]
       /\ \A f \in 1 .. n : R[f] = P[f]
       /\ \A f \in 1 .. n + 1 : Q[f] = R[f]
  BY <1>7
<1> HIDE DEF R
<1>11. /\ Stacked(R, inclSerialLineNo')
       /\ TextsOf(R) = TextsOf(P)
  <2>1. CASE n = 0 \/ own.kind = "skipped"
    <3>1. R[n + 1] = <<>>
      BY <2>1, <1>5, <1>6, <1>7, <1>10 DEF Pile, FrameKind
    <3>2. R = P
      <4>1. \A f \in 1 .. n + 1 : R[f] = P[f]
        BY <3>1, <1>7, <1>8, <1>10
      <4> QED
        BY <4>1, <1>7, <1>10
    <3>3. inclSerialLineNo' \in Nat /\ top <= inclSerialLineNo'
      BY <1>3 DEF EnterStep
    <3> QED
      BY <3>2, <3>3, <1>7, <1>9, StackedRaise
  <2>2. CASE ~ (n = 0 \/ own.kind = "skipped")
    <3>1. calls # <<>>
      BY <2>2, <1>0
    <3>2. PICK x : x = own.line
      OBVIOUS
    <3>3. x \in OpenLine /\ x.serial = top + 1 /\ inclSerialLineNo' = top + 1
      BY <3>1, <3>2, <2>2, <1>3 DEF EnterStep, OwnFits
    <3>4. x \in SLine /\ x.op # "text"
      BY <3>3 DEF OpenLine, SLine, Ops
    <3>5. R[n + 1] = <<x>>
      <4>1. Pile(n + 1)' = Append(sll'[n + 1], calls'[n + 1].own.line)
        <5>1. n + 1 # 1 /\ calls'[n + 1].own.kind # "skipped"
          BY <2>2, <1>5
        <5>2. ~ (n + 1 = 1 \/ FrameKind(n + 1)' = "skipped")
          BY <5>1 DEF FrameKind
        <5> QED
          BY <5>2 DEF Pile
      <4>2. Pile(n + 1)' = Append(<<>>, x)
        BY <4>1, <3>2, <1>5, <1>6
      <4> QED
        BY <4>2, <1>7, <1>10
    <3>6. /\ Stacked(R, top + 1)
          /\ TextsOf(R) = TextsOf(P) \cup (IF x.op = "text" THEN {top + 1} ELSE {})
      <4>1. PutOn(n, P, R, x, top)
        BY <3>3, <3>4, <3>5, <1>7, <1>8, <1>9, <1>10 DEF PutOn
      <4> QED
        BY <4>1, StackedPut
    <3> QED
      BY <3>3, <3>4, <3>6
  <2> QED
    BY <2>1, <2>2
<1>12. Stacked(Q, inclSerialLineNo') /\ TextsOf(Q) = TextsOf(R)
  <2>1. PICK k \in Nat : k = n + 1
    OBVIOUS
  <2>2. PICK above \in Nat : above = inclSerialLineNo'
    BY <1>3 DEF EnterStep
  <2>3. /\ R \in Seq(Seq(SLine)) /\ Len(R) = k /\ Q \in Seq(Seq(SLine)) /\ Len(Q) = k + 1
        /\ \A f \in 1 .. k : Q[f] = R[f] /\ Q[k + 1] = <<>>
    BY <2>1, <1>7, <1>8, <1>10
  <2>4. Q[k + 1] = <<>>
    BY <2>1, <1>8
  <2> QED
    BY <2>2, <2>3, <2>4, <1>11, StackedPush, SMTT(20)
<1> QED
  BY <1>2, <1>5, <1>9, <1>11, <1>12 DEF Order

\* A frame's pile when something is put before its list.
LEMMA PileGrows ==
    ASSUME Types, NEW f \in 1 .. Len(calls), NEW d \in Seq(SLine)
    PROVE  (IF f = 1 \/ FrameKind(f) = "skipped" THEN d \o sll[f]
            ELSE Append(d \o sll[f], calls[f].own.line)) = d \o Pile(f)
<1>1. f > 1 /\ FrameKind(f) # "skipped" => calls[f].own.line \in OpenLine
  BY OwnType
<1>2. sll[f] \in Seq(SLine) /\ (f > 1 \/ f = 1)
  BY OwnType
<1>3. OpenLine \subseteq SLine
  BY DEF OpenLine, SLine, Ops
<1>4. CASE f = 1 \/ FrameKind(f) = "skipped"
  BY <1>4 DEF Pile
<1>5. CASE ~ (f = 1 \/ FrameKind(f) = "skipped")
  <2>1. PICK x \in SLine : x = calls[f].own.line
    BY <1>1, <1>2, <1>3, <1>5
  <2>2. Pile(f) = Append(sll[f], x)
    BY <1>5, <2>1 DEF Pile
  <2>3. Append(d \o sll[f], x) = d \o Append(sll[f], x)
    BY <1>2, AppendBoth
  <2> QED
    BY <1>5, <2>1, <2>2, <2>3
<1> QED
  BY <1>4, <1>5

\* What is added to the innermost list, as the last pile.
Added(R, d) ==
    /\ R \in Seq(Seq(SLine)) /\ Len(R) = Len(calls) + 1
    /\ \A f \in 1 .. Len(calls) : R[f] = Piles[f]
    /\ R[Len(calls) + 1] = d

\* The last pile is then put on that of the innermost frame.
LEMMA AddOrder ==
    ASSUME Types, Types', NEW d, AddStep(d), NEW R, Added(R, d),
           Stacked(R, inclSerialLineNo'), ToSet(taken') = TextsOf(R)
    PROVE  Order'
<1>0. PICK n \in Nat \ {0} : n = Len(calls)
  BY DEF Types, InclType, Fluids, FluidInv, FluidType, AddStep
<1>1. PICK P : P = Piles
  OBVIOUS
<1>2. PICK Q : Q = Piles'
  OBVIOUS
<1>3. PICK top \in Nat : top = inclSerialLineNo'
  BY DEF AddStep
<1>4. calls' = calls /\ Len(sll) = n /\ d \in Seq(SLine) /\ n \in 1 .. Len(calls)
  BY <1>0 DEF AddStep, StateStep, Types, InclType
<1>5. sll'[n] = d \o sll[n] /\ \A f \in 1 .. n - 1 : sll'[f] = sll[f]
  <2>1. sll \in Seq(Seq(SLine)) /\ Len(sll) = n /\ n \in 1 .. Len(sll)
    BY <1>0, <1>4 DEF Types, InclType
  <2>2. sll' = [sll EXCEPT ![n] = d \o sll[n]]
    BY <1>4 DEF AddStep
  <2> QED
    BY <2>1, <2>2
<1>6. /\ P \in Seq(Seq(SLine)) /\ Len(P) = n + 1
      /\ \A f \in 1 .. n : P[f] = Pile(f)
  BY <1>0, <1>1, PilesAround
<1>7. /\ Q \in Seq(Seq(SLine)) /\ Len(Q) = n + 1 /\ Q[n + 1] = Returned'
      /\ \A f \in 1 .. n : Q[f] = Pile(f)'
  BY <1>0, <1>2, <1>4, PilesAround
<1>8. Q[n + 1] = <<>>
  BY <1>7 DEF AddStep, Returned
<1>9. ASSUME NEW f \in 1 .. n - 1  PROVE Q[f] = P[f]
  <2>1. Pile(f)' = Pile(f)
    BY <1>4, <1>5 DEF Pile, FrameKind
  <2>2. f \in 1 .. n
    OBVIOUS
  <2> QED
    BY <2>1, <2>2, <1>6, <1>7
<1>10. Q[n] = d \o P[n]
  <2>1. Pile(n)' = IF n = 1 \/ FrameKind(n) = "skipped" THEN d \o sll[n]
                   ELSE Append(d \o sll[n], calls[n].own.line)
    BY <1>4, <1>5 DEF Pile, FrameKind
  <2>2. Pile(n)' = d \o Pile(n)
    BY <2>1, <1>4, PileGrows
  <2>3. n \in 1 .. n
    OBVIOUS
  <2> QED
    BY <2>2, <2>3, <1>6, <1>7
<1> DEFINE M == [f \in 1 .. n |-> Q[f]]
<1>11. M \in Seq(Seq(SLine)) /\ Len(M) = n /\ \A f \in 1 .. n : M[f] = Q[f]
  BY <1>7
<1> HIDE DEF M
<1>12. Merged(n, R, M)
  <2>1. /\ R \in Seq(Seq(SLine)) /\ Len(R) = n + 1 /\ R[n + 1] = d
        /\ \A f \in 1 .. n : R[f] = P[f]
    BY <1>0, <1>1 DEF Added
  <2>2. \A f \in 1 .. n - 1 : M[f] = R[f]
    <3> TAKE f \in 1 .. n - 1
    <3>1. f \in 1 .. n
      OBVIOUS
    <3> QED
      BY <3>1, <2>1, <1>9, <1>11
  <2>3. M[n] = R[n + 1] \o R[n]
    <3>1. n \in 1 .. n
      OBVIOUS
    <3> QED
      BY <3>1, <2>1, <1>10, <1>11
  <2> QED
    BY <2>1, <2>2, <2>3, <1>11 DEF Merged
<1>13. Stacked(M, top) /\ TextsOf(M) = TextsOf(R)
  BY <1>3, <1>12, StackedMerge
<1>14. Stacked(Q, top) /\ TextsOf(Q) = TextsOf(M)
  <2>1. \A f \in 1 .. n : Q[f] = M[f]
    BY <1>11
  <2>2. Q \in Seq(Seq(SLine)) /\ Len(Q) = n + 1
    BY <1>7
  <2> QED
    BY <2>1, <2>2, <1>8, <1>11, <1>13, StackedPush
<1> QED
  BY <1>2, <1>3, <1>13, <1>14 DEF Order

\* What is returned for a frame that ends is what it has.
LEMMA EndOrder ==
    ASSUME Types, Types', EndStep, Order
    PROVE  Order'
<1>0. PICK n \in Nat \ {0} : n = Len(calls)
  BY DEF Types, Fluids, FluidInv, FluidType, EndStep
<1>1. PICK P : P = Piles
  OBVIOUS
<1>2. PICK Q : Q = Piles'
  OBVIOUS
<1>3. PICK top \in Nat : top = inclSerialLineNo
  BY DEF Types, InclType
<1>4. /\ Len(calls') = n - 1 /\ \A f \in 1 .. n - 1 : calls'[f] = calls[f]
      /\ n \in 1 .. Len(calls)
  BY <1>0, ReturnIs DEF EndStep, EndContents, Types
<1>5. /\ \A f \in 1 .. n - 1 : sll'[f] = sll[f]
      /\ Last(sll) = sll[n] /\ sll[n] \in Seq(SLine) /\ Took \in Seq(SLine)
  <2>1. sll \in Seq(Seq(SLine)) /\ Len(sll) = n
    BY <1>0 DEF Types, InclType
  <2> QED
    BY <2>1, <1>0 DEF EndStep, EndContents, Front, Last, Took, Types, InclType
<1>6. /\ n = 1 => inclPhase' = "done" /\ result' = Reverse(Took \o sll[n])
      /\ n # 1 => /\ inclPhase' = "directive"
                  /\ d_sll' = IF FrameKind(n) = "skipped" THEN Took \o sll[n]
                              ELSE Append(Took \o sll[n], calls[n].own.line)
      /\ inclSerialLineNo' = top /\ taken' = taken
  BY <1>0, <1>3, <1>5 DEF EndStep, EndContents, addSysCmd, Last, FrameKind
<1>7. /\ P \in Seq(Seq(SLine)) /\ Len(P) = n + 1 /\ P[n + 1] = Returned
      /\ \A f \in 1 .. n : P[f] = Pile(f)
  BY <1>0, <1>1, PilesAround
<1>8. /\ Q \in Seq(Seq(SLine)) /\ Len(Q) = n /\ Q[n] = Returned'
      /\ \A f \in 1 .. n - 1 : Q[f] = Pile(f)'
  <2>1. PICK m \in Nat : m = n - 1
    OBVIOUS
  <2>2. /\ Q \in Seq(Seq(SLine)) /\ Len(Q) = m + 1 /\ Q[m + 1] = Returned'
        /\ \A f \in 1 .. m : Q[f] = Pile(f)'
    BY <2>1, <1>2, <1>4, PilesAround
  <2> QED
    BY <2>1, <2>2
<1>9. Returned = Took
  <2>1. inclPhase = "line" => d_sll = <<>>
    BY DEF Types, InclType
  <2> QED
    BY <2>1 DEF Returned, Took, EndStep
<1>10. Returned' = Took \o Pile(n)
  <2>1. CASE n = 1
    <3>1. Pile(n) = sll[n]
      BY <2>1 DEF Pile
    <3>2. Returned' = Reverse(Reverse(Took \o sll[n]))
      BY <2>1, <1>6 DEF Returned
    <3>3. Took \o sll[n] \in Seq(SLine)
      BY <1>5
    <3>4. \A s \in Seq(SLine) : Reverse(Reverse(s)) = s
      BY DEF Reverse
    <3> QED
      BY <3>1, <3>2, <3>3, <3>4
  <2>2. CASE n # 1
    <3>1. d_sll' = Took \o Pile(n)
      BY <2>2, <1>4, <1>5, <1>6, PileGrows
    <3>2. d_sll' # EndifLine
      <4>0. EndifLine[1].isEndifLine /\ Len(EndifLine) = 1
        BY DEF EndifLine
      <4>1. CASE FrameKind(n) = "skipped"
        <5>1. NoEndif(sll[n]) /\ (d_sll = EndifLine \/ NoEndif(d_sll))
          BY <4>1, <1>0, <1>4 DEF Types, SkippedFit
        <5>2. NoEndif(Took)
          BY <5>1 DEF Took, NoEndif
        <5>3. NoEndif(Took \o sll[n])
          BY <5>1, <5>2, <1>5 DEF NoEndif
        <5>4. ~ NoEndif(EndifLine)
          BY <4>0 DEF NoEndif
        <5> QED
          BY <2>2, <4>1, <5>3, <5>4, <1>6
      <4>2. CASE FrameKind(n) # "skipped"
        <5>1. PICK x \in OpenLine : x = calls[n].own.line
          BY <4>2, <2>2, <1>4, OwnType
        <5>2. ~x.isEndifLine
          BY DEF OpenLine
        <5>3. PICK s \in Seq(SLine) : s = Took \o sll[n]
          <6>1. Took \o sll[n] \in Seq(SLine)
            BY <1>5
          <6> QED
            BY <6>1
        <5>4. d_sll' = Append(s, x)
          BY <2>2, <4>2, <5>1, <5>3, <1>6
        <5>5. Append(s, x)[Len(Append(s, x))] = x
          BY <5>3
        <5> QED
          BY <4>0, <5>2, <5>4, <5>5
      <4> QED
        BY <4>1, <4>2
    <3> QED
      BY <2>2, <3>1, <3>2, <1>6 DEF Returned, Took
  <2> QED
    BY <2>1, <2>2
<1>11. Merged(n, P, Q)
  <2>1. Q[n] = P[n + 1] \o P[n]
    <3>1. n \in 1 .. n
      OBVIOUS
    <3> QED
      BY <3>1, <1>7, <1>8, <1>9, <1>10
  <2>2. ASSUME NEW f \in 1 .. n - 1  PROVE Q[f] = P[f]
    <3>1. Pile(f)' = Pile(f)
      BY <1>4, <1>5 DEF Pile, FrameKind
    <3>2. f \in 1 .. n
      OBVIOUS
    <3> QED
      BY <3>1, <3>2, <1>7, <1>8
  <2> QED
    BY <2>1, <2>2, <1>7, <1>8 DEF Merged
<1>12. Stacked(P, top) /\ ToSet(taken) = TextsOf(P)
  BY <1>1, <1>3 DEF Order
<1>13. Stacked(Q, top) /\ TextsOf(Q) = TextsOf(P)
  BY <1>11, <1>12, StackedMerge
<1> QED
  BY <1>2, <1>6, <1>12, <1>13 DEF Order

-----------------------------------------------------------------------------
(* The includer: what the source means.  The frames of files are at "base"; *)
(* above each are those of the #if's that are open in the file, and what is *)
(* meant has a condition for each of these.  K has the kinds of the frames, *)
(* S their states, and D the depth of the files that include them.          *)

Even(cs, k) == \A i \in 1 .. k : ~cs[i].odd
Wanted(cs, k) == \A i \in 1 .. k : cs[i].on

\* The state of an #if that counts is that of its condition.
LocalFits(c, state) ==
    ~c.odd => /\ c.on <=> state = "ActiveIf"
              /\ c.elsed \/ (c.done <=> state # "InactiveIf")

\* An #if counts when the conditions around it are wanted, and is skipped when
\* they are not.
CondFits(cs, i, kind, state) ==
    /\ kind # "file"
    /\ kind = "if" => LocalFits(cs[i], state) /\ (Even(cs, i - 1) => Wanted(cs, i - 1))
    /\ kind = "skipped" => (Even(cs, i - 1) => ~Wanted(cs, i - 1))

Nested(base, n, K, D) ==
    /\ base \in Seq(Nat)
    /\ \A j \in 1 .. Len(base) : base[j] \in 1 .. n /\ K[base[j]] = "file" /\ D[base[j]] = j - 1
    /\ \A f \in 1 .. n : K[f] = "file" => \E j \in 1 .. Len(base) : base[j] = f
    /\ \A i, j \in 1 .. Len(base) : i < j => base[i] < base[j]

MeantFits(base, n, mt, K, S) ==
    /\ mt \in Seq(Seq(Condition)) /\ Len(mt) <= Len(base)
    /\ \A j \in 1 .. Len(base) : j <= Len(mt) <=> base[j] <= n
    /\ \A j \in 1 .. Len(mt) : base[j] + Len(mt[j]) = IF j < Len(mt) THEN base[j + 1] - 1 ELSE n
    /\ \A j \in 1 .. Len(mt) : \A i \in 1 .. Len(mt[j]) :
          CondFits(mt[j], i, K[base[j] + i], S[base[j] + i])

Agree(F, G, n) == \A f \in 1 .. n : F[f] = G[f]

\* Only the conditions up to one matter to it.
LEMMA CondSame ==
    ASSUME NEW i \in Nat \ {0}, NEW cs, NEW ds, \A h \in 1 .. i : ds[h] = cs[h],
           NEW kind, NEW state, CondFits(cs, i, kind, state)
    PROVE  CondFits(ds, i, kind, state)
<1>1. ds[i] = cs[i]
  OBVIOUS
<1>2. \A h \in 1 .. i - 1 : ds[h] = cs[h]
  OBVIOUS
<1>3. (Even(ds, i - 1) <=> Even(cs, i - 1)) /\ (Wanted(ds, i - 1) <=> Wanted(cs, i - 1))
  BY <1>2 DEF Even, Wanted
<1> QED
  BY <1>1, <1>3 DEF CondFits

\* The conditions of the innermost file reach to the innermost frame.
LEMMA MeantInner ==
    ASSUME NEW n \in Nat \ {0}, NEW base, NEW mt, NEW K, NEW S, NEW D,
           Nested(base, n, K, D), MeantFits(base, n, mt, K, S), K[1] = "file"
    PROVE  /\ Len(mt) \in 1 .. Len(base) /\ Len(mt) = Len(base) /\ Len(mt) \in Nat
           /\ base[Len(mt)] \in 1 .. n /\ base[Len(mt)] + Len(mt[Len(mt)]) = n
           /\ mt[Len(mt)] \in Seq(Condition) /\ Len(mt[Len(mt)]) \in Nat
           /\ Len(mt[Len(mt)]) = 0 => K[n] = "file"
           /\ Len(mt[Len(mt)]) > 0 => CondFits(mt[Len(mt)], Len(mt[Len(mt)]), K[n], S[n])
<1>1. /\ base \in Seq(Nat) /\ mt \in Seq(Seq(Condition))
      /\ Len(mt) \in Nat /\ Len(base) \in Nat /\ Len(mt) <= Len(base)
  BY DEF Nested, MeantFits
<1>2. PICK j \in 1 .. Len(base) : base[j] = 1
  BY DEF Nested
<1>3. Len(base) \in 1 .. Len(base) /\ base[Len(base)] \in 1 .. n
  BY <1>1, <1>2 DEF Nested
<1>4. Len(mt) = Len(base)
  <2>1. Len(base) <= Len(mt) <=> base[Len(base)] <= n
    BY <1>3 DEF MeantFits
  <2> QED
    BY <2>1, <1>1, <1>3
<1>5. PICK m \in Nat \ {0} : m = Len(mt)
  BY <1>1, <1>3, <1>4
<1>6. mt[m] \in Seq(Condition) /\ Len(mt[m]) \in Nat /\ base[m] \in 1 .. n
  BY <1>1, <1>3, <1>4, <1>5
<1>7. base[m] + Len(mt[m]) = n
  BY <1>5 DEF MeantFits
<1>8. Len(mt[m]) = 0 => K[n] = "file"
  <2>1. K[base[m]] = "file"
    BY <1>3, <1>4, <1>5 DEF Nested
  <2> QED
    BY <2>1, <1>6, <1>7
<1>9. Len(mt[m]) > 0 => CondFits(mt[m], Len(mt[m]), K[n], S[n])
  <2> SUFFICES ASSUME Len(mt[m]) > 0
               PROVE  CondFits(mt[m], Len(mt[m]), K[n], S[n])
    OBVIOUS
  <2>1. PICK k \in Nat \ {0} : k = Len(mt[m])
    BY <1>6
  <2>2. CondFits(mt[m], k, K[base[m] + k], S[base[m] + k])
    BY <2>1, <1>5 DEF MeantFits
  <2>3. base[m] + k = n
    BY <2>1, <1>7
  <2> QED
    BY <2>1, <2>2, <2>3
<1> QED
  BY <1>3, <1>4, <1>5, <1>6, <1>7, <1>8, <1>9

\* The innermost condition ends, or the file that has none.
Popped(mt) ==
    IF Last(mt) = <<>> THEN Front(mt) ELSE [mt EXCEPT ![Len(mt)] = Front(Last(mt))]

\* What is meant then ends one frame further out.
LEMMA MeantPop ==
    ASSUME NEW n \in Nat \ {0}, NEW base, NEW mt, NEW K, NEW S, NEW D,
           Nested(base, n, K, D), MeantFits(base, n, mt, K, S), K[1] = "file"
    PROVE  MeantFits(base, n - 1, Popped(mt), K, S)
<1>1. PICK m \in Nat \ {0} : m = Len(mt)
  BY MeantInner
<1>2. /\ Len(base) = m /\ base[m] \in 1 .. n /\ base[m] + Len(mt[m]) = n
      /\ mt[m] \in Seq(Condition) /\ Len(mt[m]) \in Nat
  BY <1>1, MeantInner
<1>3. /\ mt \in Seq(Seq(Condition)) /\ base \in Seq(Nat) /\ Last(mt) = mt[m]
      /\ \A j \in 1 .. m : base[j] \in Nat /\ base[j] <= n
  BY <1>1, <1>2, SMTT(20) DEF Nested, MeantFits, Last
<1>4. \A j \in 1 .. m : base[j] + Len(mt[j]) = IF j < m THEN base[j + 1] - 1 ELSE n
  BY <1>1 DEF MeantFits
<1>5. \A j \in 1 .. m : \A i \in 1 .. Len(mt[j]) :
          CondFits(mt[j], i, K[base[j] + i], S[base[j] + i])
  BY <1>1 DEF MeantFits
<1>6. \A j \in 1 .. m - 1 : base[j] < base[m]
  BY <1>2 DEF Nested
<1>7. PICK q : q = Popped(mt)
  OBVIOUS
<1>8. CASE mt[m] = <<>>
  <2>1. q = Front(mt) /\ base[m] = n
    BY <1>2, <1>3, <1>7, <1>8 DEF Popped
  <2>2. /\ q \in Seq(Seq(Condition)) /\ Len(q) = m - 1
        /\ \A j \in 1 .. m - 1 : q[j] = mt[j]
    BY <2>1, <1>1, <1>3 DEF Front
  <2>3. \A j \in 1 .. m : j <= m - 1 <=> base[j] <= n - 1
    <3> TAKE j \in 1 .. m
    <3>1. CASE j = m
      BY <3>1, <2>1
    <3>2. CASE j \in 1 .. m - 1
      <4>1. base[j] < n /\ base[j] \in Nat
        BY <3>2, <2>1, <1>3, <1>6
      <4> QED
        BY <3>2, <4>1
    <3> QED
      BY <3>1, <3>2
  <2>4. \A j \in 1 .. m - 1 : base[j] + Len(q[j]) = IF j < m - 1 THEN base[j + 1] - 1 ELSE n - 1
    <3> TAKE j \in 1 .. m - 1
    <3>1. base[j] + Len(mt[j]) = base[j + 1] - 1 /\ q[j] = mt[j]
      BY <1>4, <2>2
    <3>2. j = m - 1 => base[j + 1] = n
      BY <2>1
    <3> QED
      BY <3>1, <3>2
  <2>5. \A j \in 1 .. m - 1 : \A i \in 1 .. Len(q[j]) :
          CondFits(q[j], i, K[base[j] + i], S[base[j] + i])
    BY <1>5, <2>2
  <2> QED
    BY <1>2, <1>7, <2>2, <2>3, <2>4, <2>5 DEF MeantFits
<1>9. CASE mt[m] # <<>>
  <2>1. PICK k \in Nat : k + 1 = Len(mt[m])
    <3>1. Len(mt[m]) # 0
      BY <1>2, <1>9
    <3>2. Len(mt[m]) - 1 \in Nat
      BY <1>2, <3>1
    <3> QED
      BY <3>2, <1>2, SMTT(20)
  <2>2. PICK r : r = Front(mt[m])
    OBVIOUS
  <2>3. /\ r \in Seq(Condition) /\ Len(r) = k
        /\ \A i \in 1 .. k : r[i] = mt[m][i]
    BY <2>1, <2>2, <1>2 DEF Front
  <2>4. q = [mt EXCEPT ![m] = r]
    BY <1>1, <1>3, <1>7, <1>9, <2>2 DEF Popped
  <2>5. /\ q \in Seq(Seq(Condition)) /\ Len(q) = m /\ q[m] = r
        /\ \A j \in 1 .. m - 1 : q[j] = mt[j]
    BY <2>3, <2>4, <1>1, <1>3
  <2>6. \A j \in 1 .. m : base[j] <= n - 1
    <3> TAKE j \in 1 .. m
    <3>1. base[m] <= n - 1
      BY <2>1, <1>2
    <3>2. j = m \/ j \in 1 .. m - 1
      OBVIOUS
    <3> QED
      BY <3>1, <3>2, <1>2, <1>3, <1>6
  <2>7. \A j \in 1 .. m : base[j] + Len(q[j]) = IF j < m THEN base[j + 1] - 1 ELSE n - 1
    <3> TAKE j \in 1 .. m
    <3>1. CASE j = m
      <4>1. base[m] + k = n - 1
        BY <2>1, <1>2
      <4> QED
        BY <3>1, <4>1, <2>3, <2>5
    <3>2. CASE j \in 1 .. m - 1
      <4>1. base[j] + Len(mt[j]) = base[j + 1] - 1
        BY <3>2, <1>4
      <4>2. q[j] = mt[j] /\ j < m
        BY <3>2, <2>5
      <4> QED
        BY <4>1, <4>2
    <3> QED
      BY <3>1, <3>2
  <2>8. ASSUME NEW j \in 1 .. m, NEW i \in 1 .. Len(q[j])
        PROVE  CondFits(q[j], i, K[base[j] + i], S[base[j] + i])
    <3>1. CASE j = m
      <4>1. i \in 1 .. k /\ i \in 1 .. Len(mt[m])
        BY <3>1, <2>1, <2>3, <2>5
      <4>2. CondFits(mt[m], i, K[base[m] + i], S[base[m] + i])
        BY <4>1, <1>5
      <4>3. \A h \in 1 .. i : r[h] = mt[m][h]
        BY <4>1, <2>3
      <4>4. CondFits(r, i, K[base[m] + i], S[base[m] + i])
        <5>1. PICK kind : kind = K[base[m] + i]
          OBVIOUS
        <5>2. PICK state : state = S[base[m] + i]
          OBVIOUS
        <5>3. i \in Nat \ {0} /\ CondFits(mt[m], i, kind, state)
          BY <4>1, <4>2, <5>1, <5>2
        <5>4. CondFits(r, i, kind, state)
          BY <4>3, <5>3, CondSame
        <5> QED
          BY <5>1, <5>2, <5>4
      <4> QED
        BY <3>1, <4>4, <2>5
    <3>2. CASE j \in 1 .. m - 1
      BY <3>2, <2>5, <1>5
    <3> QED
      BY <3>1, <3>2
  <2> QED
    BY <1>2, <1>7, <2>5, <2>6, <2>7, <2>8, SMTT(20) DEF MeantFits
<1> QED
  BY <1>8, <1>9

\* Only the frames up to the innermost that is meant matter.
LEMMA MeantAgree ==
    ASSUME NEW n \in Nat, NEW base \in Seq(Nat), NEW mt, NEW K, NEW S,
           MeantFits(base, n, mt, K, S),
           NEW base2 \in Seq(Nat), Len(mt) <= Len(base2), Len(base2) <= Len(base),
           Agree(base2, base, Len(base2)),
           NEW K2, Agree(K2, K, n), NEW S2, Agree(S2, S, n)
    PROVE  MeantFits(base2, n, mt, K2, S2)
<1>1. /\ mt \in Seq(Seq(Condition)) /\ Len(mt) \in Nat
      /\ Len(base) \in Nat /\ Len(base2) \in Nat
  BY DEF MeantFits
<1>2. ASSUME NEW j \in 1 .. Len(base2)
      PROVE  /\ j \in 1 .. Len(base) /\ base2[j] = base[j]
             /\ base[j] \in Nat /\ (j <= Len(mt) <=> base[j] <= n)
  <2>1. j \in 1 .. Len(base)
    BY <1>1
  <2> QED
    BY <2>1 DEF Agree, MeantFits
<1>3. \A j \in 1 .. Len(base2) : j <= Len(mt) <=> base2[j] <= n
  BY <1>2
<1>4. ASSUME NEW j \in 1 .. Len(mt)
      PROVE  /\ j \in 1 .. Len(base2) /\ Len(mt[j]) \in Nat /\ base[j] \in Nat
             /\ base2[j] + Len(mt[j]) = IF j < Len(mt) THEN base2[j + 1] - 1 ELSE n
             /\ base[j] + Len(mt[j]) <= n
  <2>1. j \in 1 .. Len(base2) /\ Len(mt[j]) \in Nat
    BY <1>1, SMTT(20)
  <2>2. base2[j] = base[j] /\ base[j] \in Nat
    BY <2>1, <1>2
  <2>3. base[j] + Len(mt[j]) = IF j < Len(mt) THEN base[j + 1] - 1 ELSE n
    BY DEF MeantFits
  <2>4. CASE j < Len(mt)
    <3>1. j + 1 \in 1 .. Len(base2) /\ j + 1 <= Len(mt)
      BY <2>4, <1>1, SMTT(20)
    <3>2. base2[j + 1] = base[j + 1] /\ base[j + 1] \in Nat /\ base[j + 1] <= n
      BY <3>1, <1>2
    <3> QED
      BY <2>1, <2>2, <2>3, <2>4, <3>2
  <2>5. CASE ~ (j < Len(mt))
    BY <2>1, <2>2, <2>3, <2>5
  <2> QED
    BY <2>4, <2>5
<1>5. ASSUME NEW j \in 1 .. Len(mt), NEW i \in 1 .. Len(mt[j])
      PROVE  CondFits(mt[j], i, K2[base2[j] + i], S2[base2[j] + i])
  <2>1. j \in 1 .. Len(base2) /\ base2[j] = base[j] /\ base[j] \in Nat
    BY <1>2, <1>4
  <2>2. base[j] + i \in 1 .. n
    <3>1. PICK b : b = base[j]
      OBVIOUS
    <3>2. PICK k : k = Len(mt[j])
      OBVIOUS
    <3>3. b \in Nat /\ k \in Nat /\ b + k <= n
      BY <3>1, <3>2, <1>4
    <3>4. i \in 1 .. k
      BY <3>2
    <3>5. b + i \in 1 .. n
      BY <3>3, <3>4
    <3> QED
      BY <3>1, <3>5
  <2>3. CondFits(mt[j], i, K[base[j] + i], S[base[j] + i])
    BY DEF MeantFits
  <2>4. K2[base[j] + i] = K[base[j] + i] /\ S2[base[j] + i] = S[base[j] + i]
    BY <2>2 DEF Agree
  <2> QED
    BY <2>1, <2>3, <2>4
<1> QED
  BY <1>1, <1>3, <1>4, <1>5 DEF MeantFits

\* The innermost frame is left.
Leaving(n, base, mt, K, S, D, K2, S2, D2) ==
    /\ n \in Nat \ {0}
    /\ Nested(base, n, K, D) /\ MeantFits(base, n - 1, mt, K, S)
    /\ Agree(K2, K, n - 1) /\ Agree(S2, S, n - 1) /\ Agree(D2, D, n - 1)
LeftAt(base2, n, base, mt, K, D, K2, S2, D2) ==
    /\ Nested(base2, n - 1, K2, D2) /\ MeantFits(base2, n - 1, mt, K2, S2)
    /\ Len(base2) = IF K[n] = "file" THEN D[n] ELSE Len(base)

\* The files and conditions that are left.
LEMMA MeantDrop ==
    ASSUME NEW n, NEW base, NEW mt, NEW K, NEW S, NEW D, NEW K2, NEW S2, NEW D2,
           Leaving(n, base, mt, K, S, D, K2, S2, D2)
    PROVE  \E base2 \in Seq(Nat) : LeftAt(base2, n, base, mt, K, D, K2, S2, D2)
<1>0. /\ n \in Nat \ {0}
      /\ Nested(base, n, K, D) /\ MeantFits(base, n - 1, mt, K, S)
      /\ Agree(K2, K, n - 1) /\ Agree(S2, S, n - 1) /\ Agree(D2, D, n - 1)
  BY DEF Leaving
<1> USE <1>0
<1>1. PICK m \in Nat : m = Len(base)
  BY DEF Nested
<1>2. /\ base \in Seq(Nat) /\ mt \in Seq(Seq(Condition)) /\ Len(mt) \in Nat /\ Len(mt) <= m
      /\ n - 1 \in Nat
  BY <1>1 DEF Nested, MeantFits
<1>3. /\ \A j \in 1 .. m : base[j] \in 1 .. n /\ K[base[j]] = "file" /\ D[base[j]] = j - 1
      /\ \A f \in 1 .. n : K[f] = "file" => \E j \in 1 .. m : base[j] = f
      /\ \A i, j \in 1 .. m : i < j => base[i] < base[j]
  BY <1>1 DEF Nested
<1>4. CASE K[n] = "file"
  <2>1. n \in 1 .. n
    OBVIOUS
  <2>2. PICK h \in 1 .. m : base[h] = n
    BY <2>1, <1>3, <1>4
  <2>3. h = m
    <3>1. m \in 1 .. m /\ (h < m => n < base[m])
      BY <2>2, <1>3
    <3> QED
      BY <3>1, <1>3
  <2>4. m >= 1 /\ base[m] = n /\ D[n] = m - 1
    BY <2>2, <2>3, <1>3
  <2>5. PICK b : b = SubSeq(base, 1, m - 1)
    OBVIOUS
  <2>6. b \in Seq(Nat) /\ Len(b) = m - 1 /\ \A j \in 1 .. m - 1 : b[j] = base[j]
    BY <2>4, <2>5, <1>1, <1>2, SMTT(20)
  <2>7. Len(mt) <= m - 1
    <3>1. m <= Len(mt) <=> base[m] <= n - 1
      BY <2>4, <1>1 DEF MeantFits
    <3> QED
      BY <3>1, <2>4, <1>2
  <2>8. MeantFits(b, n - 1, mt, K2, S2)
    <3>1. Len(b) <= Len(base) /\ Agree(b, base, Len(b)) /\ Len(mt) <= Len(b)
      BY <2>6, <2>7, <1>1 DEF Agree
    <3> QED
      BY <3>1, <2>6, <1>2, MeantAgree
  <2>9. Nested(b, n - 1, K2, D2)
    <3>1. ASSUME NEW j \in 1 .. m - 1
          PROVE  b[j] \in 1 .. n - 1 /\ K2[b[j]] = "file" /\ D2[b[j]] = j - 1
      <4>1. j \in 1 .. m /\ m \in 1 .. m /\ j < m
        BY <2>4
      <4>2. base[j] \in 1 .. n - 1
        BY <4>1, <2>4, <1>3
      <4> QED
        <5>1. b[j] = base[j] /\ b[j] \in 1 .. n - 1
          BY <4>2, <2>6
        <5>2. K[base[j]] = "file" /\ D[base[j]] = j - 1
          BY <4>1, <1>3
        <5>3. K2[b[j]] = K[b[j]] /\ D2[b[j]] = D[b[j]]
          BY <5>1, <1>3 DEF Agree
        <5> QED
          BY <5>1, <5>2, <5>3
    <3>2. ASSUME NEW f \in 1 .. n - 1, K2[f] = "file"
          PROVE  \E j \in 1 .. m - 1 : b[j] = f
      <4>1. f \in 1 .. n /\ K[f] = "file"
        BY <3>2 DEF Agree
      <4>2. PICK j \in 1 .. m : base[j] = f
        BY <4>1, <1>3
      <4>3. j \in 1 .. m - 1
        BY <4>2, <2>4
      <4> QED
        BY <4>2, <4>3, <2>6
    <3>3. ASSUME NEW i \in 1 .. m - 1, NEW j \in 1 .. m - 1, i < j
          PROVE  b[i] < b[j]
      <4>1. i \in 1 .. m /\ j \in 1 .. m
        OBVIOUS
      <4> QED
        BY <4>1, <3>3, <2>6, <1>3
    <3> QED
      BY <3>1, <3>2, <3>3, <2>6 DEF Nested
  <2> QED
    BY <2>4, <2>6, <2>8, <2>9, <1>4 DEF LeftAt
<1>5. CASE K[n] # "file"
  <2>1. ASSUME NEW j \in 1 .. m
        PROVE  base[j] \in 1 .. n - 1
    <3>1. base[j] # n /\ base[j] \in 1 .. n
      BY <1>3, <1>5
    <3> QED
      BY <3>1
  <2>2. Nested(base, n - 1, K2, D2)
    <3>1. \A j \in 1 .. m : K2[base[j]] = "file" /\ D2[base[j]] = j - 1
      BY <2>1, <1>3 DEF Agree
    <3>2. \A f \in 1 .. n - 1 : K2[f] = "file" => \E j \in 1 .. m : base[j] = f
      <4> TAKE f \in 1 .. n - 1
      <4>1. f \in 1 .. n /\ K2[f] = K[f]
        BY DEF Agree
      <4> QED
        BY <4>1, <1>3
    <3> QED
      BY <2>1, <3>1, <3>2, <1>1, <1>2, <1>3 DEF Nested
  <2>3. MeantFits(base, n - 1, mt, K2, S2)
    <3>1. Len(base) <= Len(base) /\ Agree(base, base, Len(base)) /\ Len(mt) <= Len(base)
      BY <1>1, <1>2 DEF Agree
    <3> QED
      BY <3>1, <1>2, MeantAgree
  <2> QED
    BY <2>2, <2>3, <1>2, <1>5 DEF LeftAt
<1> QED
  BY <1>4, <1>5

\* A file is included: no #if is open in it yet.
LEMMA MeantFile ==
    ASSUME NEW n \in Nat, NEW base, NEW mt, NEW K, NEW S, NEW D,
           Nested(base, n, K, D), MeantFits(base, n, mt, K, S), n = 0 \/ K[1] = "file",
           NEW K2, Agree(K2, K, n), K2[n + 1] = "file", NEW S2, Agree(S2, S, n),
           NEW D2, Agree(D2, D, n), D2[n + 1] = Len(base)
    PROVE  \E base2 \in Seq(Nat) :
              /\ Nested(base2, n + 1, K2, D2)
              /\ MeantFits(base2, n + 1, Append(mt, <<>>), K2, S2)
              /\ Len(base2) = Len(base) + 1
<1>1. PICK m \in Nat : m = Len(base)
  BY DEF Nested
<1>2. /\ base \in Seq(Nat) /\ mt \in Seq(Seq(Condition))
      /\ \A j \in 1 .. m : base[j] \in 1 .. n /\ K[base[j]] = "file" /\ D[base[j]] = j - 1
      /\ \A f \in 1 .. n : K[f] = "file" => \E j \in 1 .. m : base[j] = f
      /\ \A i, j \in 1 .. m : i < j => base[i] < base[j]
  BY <1>1 DEF Nested, MeantFits
<1>3. /\ Len(mt) = m
      /\ m > 0 => base[m] + Len(mt[m]) = n
      /\ \A j \in 1 .. m - 1 : base[j] + Len(mt[j]) = base[j + 1] - 1
      /\ \A j \in 1 .. m : Len(mt[j]) \in Nat
  <2>1. CASE n = 0
    <3>1. m = 0
      <4>1. m \in 1 .. m => base[m] \in 1 .. 0
        BY <1>2, <2>1
      <4> QED
        BY <4>1
    <3> QED
      BY <3>1, <1>1, <1>2 DEF MeantFits
  <2>2. CASE n # 0
    <3>1. Len(mt) = m /\ base[m] + Len(mt[m]) = n
      BY <2>2, <1>1, MeantInner
    <3>2. \A j \in 1 .. m : Len(mt[j]) \in Nat
      BY <3>1, <1>2
    <3>3. \A j \in 1 .. Len(mt) :
              base[j] + Len(mt[j]) = IF j < Len(mt) THEN base[j + 1] - 1 ELSE n
      BY DEF MeantFits
    <3>4. \A j \in 1 .. m - 1 : base[j] + Len(mt[j]) = base[j + 1] - 1
      BY <3>1, <3>3
    <3> QED
      BY <3>1, <3>2, <3>4
  <2> QED
    BY <2>1, <2>2
<1>4. \A j \in 1 .. m : \A i \in 1 .. Len(mt[j]) :
          CondFits(mt[j], i, K[base[j] + i], S[base[j] + i])
  BY <1>3 DEF MeantFits
<1>5. PICK b : b = Append(base, n + 1)
  OBVIOUS
<1>6. PICK q : q = Append(mt, <<>>)
  OBVIOUS
<1>7. /\ b \in Seq(Nat) /\ Len(b) = m + 1 /\ b[m + 1] = n + 1
      /\ \A j \in 1 .. m : b[j] = base[j]
  BY <1>1, <1>2, <1>5
<1>8. /\ q \in Seq(Seq(Condition)) /\ Len(q) = m + 1 /\ q[m + 1] = <<>>
      /\ \A j \in 1 .. m : q[j] = mt[j]
  BY <1>2, <1>3, <1>6
<1>9. Nested(b, n + 1, K2, D2)
  <2>1. ASSUME NEW j \in 1 .. m + 1
        PROVE  b[j] \in 1 .. n + 1 /\ K2[b[j]] = "file" /\ D2[b[j]] = j - 1
    <3>1. CASE j = m + 1
      BY <3>1, <1>1, <1>7
    <3>2. CASE j \in 1 .. m
      <4>1. b[j] = base[j] /\ base[j] \in 1 .. n /\ K[base[j]] = "file" /\ D[base[j]] = j - 1
        BY <3>2, <1>2, <1>7
      <4>2. K2[base[j]] = K[base[j]] /\ D2[base[j]] = D[base[j]]
        BY <4>1 DEF Agree
      <4>3. base[j] \in 1 .. n + 1
        BY <4>1
      <4> QED
        BY <4>1, <4>2, <4>3
    <3> QED
      BY <3>1, <3>2
  <2>2. ASSUME NEW f \in 1 .. n + 1, K2[f] = "file"
        PROVE  \E j \in 1 .. m + 1 : b[j] = f
    <3>1. CASE f = n + 1
      BY <3>1, <1>7
    <3>2. CASE f \in 1 .. n
      <4>1. PICK j \in 1 .. m : base[j] = f
        BY <2>2, <3>2, <1>2 DEF Agree
      <4> QED
        BY <4>1, <1>7
    <3> QED
      BY <3>1, <3>2
  <2>3. ASSUME NEW i \in 1 .. m + 1, NEW j \in 1 .. m + 1, i < j
        PROVE  b[i] < b[j]
    <3>1. i \in 1 .. m /\ b[i] = base[i] /\ base[i] \in 1 .. n
      BY <2>3, <1>2, <1>7
    <3>2. CASE j = m + 1
      BY <3>1, <3>2, <1>7
    <3>3. CASE j \in 1 .. m
      BY <2>3, <3>1, <3>3, <1>2, <1>7
    <3> QED
      BY <3>2, <3>3
  <2> QED
    BY <2>1, <2>2, <2>3, <1>7 DEF Nested
<1>10. MeantFits(b, n + 1, q, K2, S2)
  <2>1. \A j \in 1 .. m + 1 : b[j] <= n + 1
    <3> TAKE j \in 1 .. m + 1
    <3>1. CASE j = m + 1
      BY <3>1, <1>7
    <3>2. CASE j \in 1 .. m
      <4>1. b[j] = base[j] /\ base[j] \in 1 .. n
        BY <3>2, <1>2, <1>7
      <4> QED
        BY <4>1
    <3> QED
      BY <3>1, <3>2
  <2>2. ASSUME NEW j \in 1 .. m + 1
        PROVE  b[j] + Len(q[j]) = IF j < m + 1 THEN b[j + 1] - 1 ELSE n + 1
    <3>1. CASE j = m + 1
      BY <3>1, <1>7, <1>8
    <3>2. CASE j = m
      BY <3>2, <1>3, <1>7, <1>8, SMTT(20)
    <3>3. CASE j \in 1 .. m - 1
      <4>1. j \in 1 .. m /\ j + 1 \in 1 .. m
        BY <3>3
      <4>2. b[j] = base[j] /\ b[j + 1] = base[j + 1] /\ q[j] = mt[j]
        BY <4>1, <1>7, <1>8
      <4> QED
        BY <3>3, <4>2, <1>3
    <3> QED
      BY <3>1, <3>2, <3>3
  <2>3. ASSUME NEW j \in 1 .. m, NEW i \in 1 .. Len(mt[j])
        PROVE  CondFits(mt[j], i, K2[base[j] + i], S2[base[j] + i])
    <3>1. PICK k \in Nat : k = Len(mt[j])
      BY <1>3
    <3>2. base[j] \in 1 .. n /\ base[j] + k <= n
      <4>1. CASE j = m
        BY <4>1, <3>1, <1>2, <1>3
      <4>2. CASE j \in 1 .. m - 1
        <5>1. j + 1 \in 1 .. m
          BY <4>2
        <5>2. base[j + 1] \in 1 .. n /\ base[j] \in 1 .. n
          BY <5>1, <1>2
        <5>3. base[j] + k = base[j + 1] - 1
          BY <4>2, <3>1, <1>3
        <5> QED
          BY <5>2, <5>3
      <4> QED
        BY <4>1, <4>2
    <3>3. base[j] + i \in 1 .. n
      BY <3>1, <3>2
    <3> QED
      BY <3>3, <1>4 DEF Agree
  <2>4. ASSUME NEW j \in 1 .. m + 1, NEW i \in 1 .. Len(q[j])
        PROVE  CondFits(q[j], i, K2[b[j] + i], S2[b[j] + i])
    <3>1. j # m + 1
      BY <1>8
    <3>2. j \in 1 .. m
      BY <3>1
    <3>3. q[j] = mt[j] /\ b[j] = base[j]
      BY <3>2, <1>7, <1>8
    <3> QED
      BY <3>2, <3>3, <2>3
  <2> QED
    BY <2>1, <2>2, <2>4, <1>7, <1>8 DEF MeantFits
<1> QED
  BY <1>1, <1>5, <1>6, <1>7, <1>9, <1>10

\* An #if: it is skipped if and only if one of the conditions around it is not
\* wanted.
LEMMA MeantIf ==
    ASSUME NEW n \in Nat \ {0}, NEW base, NEW mt, NEW K, NEW S, NEW D,
           Nested(base, n, K, D), MeantFits(base, n, mt, K, S), K[1] = "file",
           NEW K2, Agree(K2, K, n), K2[n + 1] # "file", NEW S2, Agree(S2, S, n),
           NEW D2, Agree(D2, D, n), NEW c \in Condition,
           K2[n + 1] = "if" => LocalFits(c, S2[n + 1]),
           NEW cs, cs = mt[Len(mt)],
           K2[n + 1] = "if" /\ Even(cs, Len(cs)) => Wanted(cs, Len(cs)),
           K2[n + 1] = "skipped" /\ Even(cs, Len(cs)) => ~Wanted(cs, Len(cs))
    PROVE  /\ Nested(base, n + 1, K2, D2)
           /\ MeantFits(base, n + 1, [mt EXCEPT ![Len(mt)] = Append(cs, c)], K2, S2)
<1>1. PICK m \in Nat \ {0} : m = Len(mt)
  BY MeantInner
<1>2. /\ Len(base) = m /\ base[m] \in 1 .. n /\ base[m] + Len(cs) = n
      /\ cs \in Seq(Condition) /\ Len(cs) \in Nat
  BY <1>1, MeantInner
<1>3. /\ mt \in Seq(Seq(Condition)) /\ base \in Seq(Nat)
      /\ \A j \in 1 .. m : base[j] \in 1 .. n
  BY <1>1, <1>2 DEF Nested, MeantFits
<1>4. \A j \in 1 .. m : base[j] + Len(mt[j]) = IF j < m THEN base[j + 1] - 1 ELSE n
  BY <1>1 DEF MeantFits
<1>5. \A j \in 1 .. m : \A i \in 1 .. Len(mt[j]) :
          CondFits(mt[j], i, K[base[j] + i], S[base[j] + i])
  BY <1>1 DEF MeantFits
<1>6. PICK k \in Nat : k = Len(cs)
  BY <1>2
<1>7. PICK r : r = Append(cs, c)
  OBVIOUS
<1>8. r \in Seq(Condition) /\ Len(r) = k + 1 /\ r[k + 1] = c /\ \A i \in 1 .. k : r[i] = cs[i]
  BY <1>2, <1>6, <1>7
<1>9. PICK q : q = [mt EXCEPT ![m] = r]
  OBVIOUS
<1>10. /\ q \in Seq(Seq(Condition)) /\ Len(q) = m /\ q[m] = r
       /\ \A j \in 1 .. m - 1 : q[j] = mt[j]
  BY <1>1, <1>3, <1>8, <1>9
<1>11. Nested(base, n + 1, K2, D2)
  <2>1. ASSUME NEW j \in 1 .. Len(base)
        PROVE  base[j] \in 1 .. n + 1 /\ K2[base[j]] = "file" /\ D2[base[j]] = j - 1
    <3>1. base[j] \in 1 .. n /\ K[base[j]] = "file" /\ D[base[j]] = j - 1
      BY DEF Nested
    <3>2. base[j] \in 1 .. n + 1
      BY <3>1
    <3> QED
      BY <3>1, <3>2 DEF Agree
  <2>2. ASSUME NEW f \in 1 .. n + 1, K2[f] = "file"
        PROVE  \E j \in 1 .. Len(base) : base[j] = f
    <3>1. f \in 1 .. n
      BY <2>2
    <3>2. K[f] = "file"
      BY <2>2, <3>1 DEF Agree
    <3> QED
      BY <3>1, <3>2 DEF Nested
  <2> QED
    BY <2>1, <2>2 DEF Nested
<1>12. \A j \in 1 .. m : base[j] <= n + 1
  <2> TAKE j \in 1 .. m
  <2>1. base[j] \in 1 .. n
    BY <1>3
  <2> QED
    BY <2>1
<1>13. ASSUME NEW j \in 1 .. m
       PROVE  base[j] + Len(q[j]) = IF j < m THEN base[j + 1] - 1 ELSE n + 1
  <2>1. CASE j = m
    <3>1. base[m] + (k + 1) = n + 1
      BY <1>2, <1>6
    <3> QED
      BY <2>1, <3>1, <1>8, <1>10
  <2>2. CASE j \in 1 .. m - 1
    <3>1. q[j] = mt[j] /\ j < m
      BY <2>2, <1>10
    <3> QED
      BY <3>1, <1>4
  <2> QED
    BY <2>1, <2>2
<1>14. ASSUME NEW j \in 1 .. m - 1, NEW i \in 1 .. Len(mt[j])
       PROVE  CondFits(mt[j], i, K2[base[j] + i], S2[base[j] + i])
  <2>1. base[j] + Len(mt[j]) = base[j + 1] - 1 /\ base[j] \in 1 .. n /\ base[j + 1] \in 1 .. n
    BY <1>3, <1>4
  <2>2. PICK h \in Nat : h = Len(mt[j])
    BY <1>1, <1>3
  <2>3. base[j] + i \in 1 .. n
    <3>1. PICK b \in Nat \ {0} : b = base[j]
      BY <2>1
    <3>2. i \in 1 .. h /\ b + h <= n
      BY <2>1, <2>2, <3>1
    <3>3. b + i \in 1 .. n
      BY <3>2
    <3> QED
      BY <3>1, <3>3
  <2>4. CondFits(mt[j], i, K[base[j] + i], S[base[j] + i])
    BY <1>5
  <2> QED
    BY <2>3, <2>4 DEF Agree
<1>15. ASSUME NEW i \in 1 .. k
       PROVE  CondFits(r, i, K2[base[m] + i], S2[base[m] + i])
  <2>1. CondFits(cs, i, K[base[m] + i], S[base[m] + i])
    BY <1>1, <1>5, <1>6
  <2>2. base[m] + i \in 1 .. n
    BY <1>2, <1>6
  <2>3. PICK kind : kind = K2[base[m] + i]
    OBVIOUS
  <2>4. PICK state : state = S2[base[m] + i]
    OBVIOUS
  <2>5. CondFits(cs, i, kind, state) /\ i \in Nat \ {0}
    BY <2>1, <2>2, <2>3, <2>4 DEF Agree
  <2>6. \A h \in 1 .. i : r[h] = cs[h]
    BY <1>8
  <2>7. CondFits(r, i, kind, state)
    BY <2>5, <2>6, CondSame
  <2> QED
    BY <2>3, <2>4, <2>7
<1>16. CondFits(r, k + 1, K2[base[m] + (k + 1)], S2[base[m] + (k + 1)])
  <2>1. base[m] + (k + 1) = n + 1 /\ (k + 1) - 1 = k
    BY <1>2, <1>6
  <2>2. (Even(r, k) <=> Even(cs, k)) /\ (Wanted(r, k) <=> Wanted(cs, k))
    BY <1>8 DEF Even, Wanted
  <2> QED
    BY <2>1, <2>2, <1>6, <1>8 DEF CondFits
<1>17. ASSUME NEW j \in 1 .. m, NEW i \in 1 .. Len(q[j])
       PROVE  CondFits(q[j], i, K2[base[j] + i], S2[base[j] + i])
  <2>1. CASE j \in 1 .. m - 1
    BY <2>1, <1>10, <1>14
  <2>2. CASE j = m /\ i \in 1 .. k
    BY <2>2, <1>10, <1>15
  <2>3. CASE j = m /\ i = k + 1
    BY <2>3, <1>10, <1>16
  <2> QED
    BY <2>1, <2>2, <2>3, <1>8, <1>10
<1>18. MeantFits(base, n + 1, q, K2, S2)
  BY <1>2, <1>10, <1>12, <1>13, <1>17 DEF MeantFits
<1> QED
  BY <1>1, <1>7, <1>9, <1>11, <1>18

\* The innermost #if goes on with another branch.
LEMMA MeantBranch ==
    ASSUME NEW n \in Nat \ {0}, NEW base, NEW mt, NEW K, NEW S, NEW D,
           Nested(base, n, K, D), MeantFits(base, n, mt, K, S), K[1] = "file",
           NEW S2, Agree(S2, S, n - 1), NEW c \in Condition,
           NEW cs, cs = mt[Len(mt)], cs # <<>>,
           K[n] = "if" => LocalFits(c, S2[n])
    PROVE  MeantFits(base, n, [mt EXCEPT ![Len(mt)] = Append(Front(cs), c)], K, S2)
<1>1. PICK m \in Nat \ {0} : m = Len(mt)
  BY MeantInner
<1>2. /\ Len(base) = m /\ base[m] \in 1 .. n /\ base[m] + Len(cs) = n
      /\ cs \in Seq(Condition) /\ Len(cs) \in Nat
  BY <1>1, MeantInner
<1>3. /\ mt \in Seq(Seq(Condition)) /\ base \in Seq(Nat)
      /\ \A j \in 1 .. m : base[j] \in 1 .. n
  BY <1>1, <1>2 DEF Nested, MeantFits
<1>4. \A j \in 1 .. m : base[j] + Len(mt[j]) = IF j < m THEN base[j + 1] - 1 ELSE n
  BY <1>1 DEF MeantFits
<1>5. \A j \in 1 .. m : \A i \in 1 .. Len(mt[j]) :
          CondFits(mt[j], i, K[base[j] + i], S[base[j] + i])
  BY <1>1 DEF MeantFits
<1>6. PICK k \in Nat : k + 1 = Len(cs)
  <2>1. Len(cs) # 0
    BY <1>2
  <2>2. Len(cs) - 1 \in Nat /\ (Len(cs) - 1) + 1 = Len(cs)
    BY <2>1, <1>2
  <2> QED
    BY <2>2
<1>7. PICK r : r = Append(Front(cs), c)
  OBVIOUS
<1>8. r \in Seq(Condition) /\ Len(r) = k + 1 /\ r[k + 1] = c /\ \A i \in 1 .. k : r[i] = cs[i]
  <2>1. /\ Front(cs) \in Seq(Condition) /\ Len(Front(cs)) = k
        /\ \A i \in 1 .. k : Front(cs)[i] = cs[i]
    BY <1>2, <1>6 DEF Front
  <2> QED
    BY <2>1, <1>7
<1>9. PICK q : q = [mt EXCEPT ![m] = r]
  OBVIOUS
<1>10. /\ q \in Seq(Seq(Condition)) /\ Len(q) = m /\ q[m] = r
       /\ \A j \in 1 .. m - 1 : q[j] = mt[j]
  BY <1>1, <1>3, <1>8, <1>9
<1>11. ASSUME NEW j \in 1 .. m
       PROVE  base[j] + Len(q[j]) = IF j < m THEN base[j + 1] - 1 ELSE n
  <2>1. CASE j = m
    BY <2>1, <1>2, <1>6, <1>8, <1>10
  <2>2. CASE j \in 1 .. m - 1
    <3>1. q[j] = mt[j] /\ j < m
      BY <2>2, <1>10
    <3> QED
      BY <3>1, <1>4
  <2> QED
    BY <2>1, <2>2
<1>12. ASSUME NEW j \in 1 .. m - 1, NEW i \in 1 .. Len(mt[j])
       PROVE  CondFits(mt[j], i, K[base[j] + i], S2[base[j] + i])
  <2>1. base[j] + Len(mt[j]) = base[j + 1] - 1 /\ base[j] \in 1 .. n /\ base[j + 1] \in 1 .. n
    BY <1>3, <1>4
  <2>2. PICK h \in Nat : h = Len(mt[j])
    BY <1>1, <1>3
  <2>3. base[j] + i \in 1 .. n - 1
    BY <2>1, <2>2, SMTT(20)
  <2>4. CondFits(mt[j], i, K[base[j] + i], S[base[j] + i])
    BY <1>5
  <2> QED
    BY <2>3, <2>4 DEF Agree
<1>13. ASSUME NEW i \in 1 .. k
       PROVE  CondFits(r, i, K[base[m] + i], S2[base[m] + i])
  <2>1. CondFits(cs, i, K[base[m] + i], S[base[m] + i])
    BY <1>1, <1>5, <1>6
  <2>2. base[m] + i \in 1 .. n - 1
    BY <1>2, <1>6
  <2>3. PICK kind : kind = K[base[m] + i]
    OBVIOUS
  <2>4. PICK state : state = S2[base[m] + i]
    OBVIOUS
  <2>5. CondFits(cs, i, kind, state) /\ i \in Nat \ {0}
    BY <2>1, <2>2, <2>3, <2>4 DEF Agree
  <2>6. \A h \in 1 .. i : r[h] = cs[h]
    BY <1>8
  <2>7. CondFits(r, i, kind, state)
    BY <2>5, <2>6, CondSame
  <2> QED
    BY <2>3, <2>4, <2>7
<1>14. CondFits(r, k + 1, K[base[m] + (k + 1)], S2[base[m] + (k + 1)])
  <2>1. base[m] + (k + 1) = n /\ (k + 1) - 1 = k
    BY <1>2, <1>6
  <2>2. CondFits(cs, k + 1, K[base[m] + (k + 1)], S[base[m] + (k + 1)])
    BY <1>1, <1>5, <1>6
  <2>3. (Even(r, k) <=> Even(cs, k)) /\ (Wanted(r, k) <=> Wanted(cs, k))
    BY <1>8 DEF Even, Wanted
  <2> QED
    BY <2>1, <2>2, <2>3, <1>8 DEF CondFits
<1>15. ASSUME NEW j \in 1 .. m, NEW i \in 1 .. Len(q[j])
       PROVE  CondFits(q[j], i, K[base[j] + i], S2[base[j] + i])
  <2>1. CASE j \in 1 .. m - 1
    BY <2>1, <1>10, <1>12
  <2>2. CASE j = m /\ i \in 1 .. k
    BY <2>2, <1>10, <1>13
  <2>3. CASE j = m /\ i = k + 1
    BY <2>3, <1>10, <1>14
  <2> QED
    BY <2>1, <2>2, <2>3, <1>8, <1>10
<1>16. MeantFits(base, n, q, K, S2)
  <2>1. \A j \in 1 .. m : base[j] <= n
    <3> TAKE j \in 1 .. m
    <3>1. base[j] \in 1 .. n
      BY <1>3
    <3> QED
      BY <3>1
  <2> QED
    BY <2>1, <1>2, <1>10, <1>11, <1>15 DEF MeantFits
<1> QED
  BY <1>1, <1>7, <1>9, <1>16

-----------------------------------------------------------------------------
(* The includer: the frames mean what the source says.                      *)

Kinds == [f \in 1 .. Len(calls) |-> FrameKind(f)]
States == [f \in 1 .. Len(calls) |-> StateIn(f)]
Depths == [f \in 1 .. Len(calls) |->
              IF FrameKind(f) = "file" THEN Len(calls[f].own.o_fileState.codes) ELSE 0]

\* When an #endif has been read, the frame it ends is still there.
Open == IF inclPhase = "directive" /\ isThisEndifLine(d_sll) THEN Len(calls) - 1 ELSE Len(calls)

ControlAt(base) ==
    /\ Nested(base, Len(calls), Kinds, Depths) /\ Len(fileState.codes) = Len(base)
    /\ MeantFits(base, Open, meant, Kinds, States)
Control == \E base \in Seq(Nat) : ControlAt(base)

\* Where a line is read, what is meant ends with the conditions of this file.
LEMMA LineRight ==
    ASSUME Types, Control, inclPhase = "line"
    PROVE  /\ Len(meant) = Len(fileState.codes) /\ Len(meant) \in Nat \ {0}
           /\ Here = meant[Len(meant)] /\ Here \in Seq(Condition) /\ Len(Here) \in Nat
           /\ Here = <<>> <=> ifState = "NoIf"
           /\ Here # <<>> /\ FrameKind(Len(calls)) = "if" => LocalFits(Here[Len(Here)], ifState)
           /\ Even(Here, Len(Here)) => (INCLUDING <=> Wanted(Here, Len(Here)))
<1>1. PICK base \in Seq(Nat) : ControlAt(base)
  BY DEF Control
<1>2. PICK n \in Nat \ {0} : n = Len(calls)
  BY DEF Types, InclType, Fluids, FluidInv, FluidType
<1>3. PICK K : K = Kinds
  OBVIOUS
<1>4. PICK S : S = States
  OBVIOUS
<1>5. PICK D : D = Depths
  OBVIOUS
<1>6. PICK mt : mt = meant
  OBVIOUS
<1>7. /\ Nested(base, n, K, D) /\ Len(fileState.codes) = Len(base)
      /\ MeantFits(base, n, mt, K, S)
  BY <1>1, <1>2, <1>3, <1>4, <1>5, <1>6 DEF ControlAt, Open
<1>8. n \in 1 .. n /\ 1 \in 1 .. n
  OBVIOUS
<1>9. K[1] = "file" /\ K[n] = FrameKind(n) /\ S[n] = ifState
  BY <1>2, <1>3, <1>4, <1>8 DEF Kinds, States, StateIn, Types, FramesFit
<1>10. /\ FrameKind(n) \in {"file", "if", "skipped"}
       /\ FrameKind(n) = "file" => ifState = "NoIf"
       /\ FrameKind(n) = "if" => ifState \in IfState \ {"NoIf"}
       /\ FrameKind(n) = "skipped" => ifState = "FormerlyActiveIf"
  <2>1. StateIn(n) = ifState
    BY <1>2 DEF StateIn
  <2>2. FrameKind(n) \in {"file", "if", "skipped"}
    BY <1>2, <1>8, OwnType
  <2>3. /\ FrameKind(n) = "file" => StateIn(n) = "NoIf"
        /\ FrameKind(n) = "if" => StateIn(n) \in IfState \ {"NoIf"}
        /\ FrameKind(n) = "skipped" => StateIn(n) = "FormerlyActiveIf"
    BY <1>2, <1>8 DEF Types, StatesFit
  <2> QED
    BY <2>1, <2>2, <2>3
<1>11. /\ Len(mt) \in 1 .. Len(base) /\ Len(mt) = Len(base) /\ Len(mt) \in Nat
       /\ mt[Len(mt)] \in Seq(Condition) /\ Len(mt[Len(mt)]) \in Nat
       /\ Len(mt[Len(mt)]) = 0 => K[n] = "file"
       /\ Len(mt[Len(mt)]) > 0 => CondFits(mt[Len(mt)], Len(mt[Len(mt)]), K[n], S[n])
  BY <1>7, <1>9, MeantInner
<1>12. PICK cs \in Seq(Condition) : cs = mt[Len(mt)]
  BY <1>11
<1>13. Here = cs
  BY <1>6, <1>12 DEF Here, Last
<1>14. PICK k \in Nat : k = Len(cs)
  BY <1>12
<1>15. /\ k = 0 => FrameKind(n) = "file"
       /\ k > 0 => CondFits(cs, k, FrameKind(n), ifState)
       /\ k = 0 <=> cs = <<>>
  BY <1>9, <1>11, <1>12, <1>14
<1>16. CASE k = 0
  <2>1. INCLUDING /\ Wanted(cs, k)
    BY <1>10, <1>15, <1>16 DEF INCLUDING, Wanted
  <2> QED
    BY <2>1, <1>6, <1>7, <1>10, <1>11, <1>12, <1>13, <1>14, <1>15, <1>16
<1>17. CASE k > 0
  <2>1. /\ FrameKind(n) # "file"
        /\ FrameKind(n) = "if" =>
              LocalFits(cs[k], ifState) /\ (Even(cs, k - 1) => Wanted(cs, k - 1))
        /\ FrameKind(n) = "skipped" => (Even(cs, k - 1) => ~Wanted(cs, k - 1))
    BY <1>15, <1>17 DEF CondFits
  <2>2. ifState # "NoIf" /\ (INCLUDING <=> ifState = "ActiveIf")
    BY <2>1, <1>10 DEF INCLUDING
  <2>3. /\ Even(cs, k) <=> Even(cs, k - 1) /\ ~cs[k].odd
        /\ Wanted(cs, k) <=> Wanted(cs, k - 1) /\ cs[k].on
    <3>1. 1 .. k = (1 .. k - 1) \cup {k}
      BY <1>17
    <3> QED
      BY <3>1 DEF Even, Wanted
  <2>4. Even(cs, k) => (INCLUDING <=> Wanted(cs, k))
    <3>1. CASE FrameKind(n) = "if"
      BY <3>1, <2>1, <2>2, <2>3 DEF LocalFits
    <3>2. CASE FrameKind(n) = "skipped"
      BY <3>2, <2>1, <2>2, <2>3, <1>10
    <3> QED
      BY <3>1, <3>2, <2>1, <1>10
  <2> QED
    BY <2>1, <2>2, <2>4, <1>2, <1>6, <1>7, <1>11, <1>12, <1>13, <1>14, <1>15, <1>17
<1> QED
  BY <1>16, <1>17

\* The frames that stay have the kinds, states and depths that they had.
LEMMA FramesAgree ==
    ASSUME NEW k \in Nat, Len(calls) \in Nat, Len(calls') \in Nat,
           k <= Len(calls), k <= Len(calls'), FramesKept(k)
    PROVE  Agree(Kinds', Kinds, k) /\ Agree(States', States, k) /\ Agree(Depths', Depths, k)
<1> SUFFICES ASSUME NEW f \in 1 .. k
             PROVE  Kinds'[f] = Kinds[f] /\ States'[f] = States[f] /\ Depths'[f] = Depths[f]
  BY DEF Agree
<1>1. f \in 1 .. Len(calls) /\ f \in 1 .. Len(calls')
  OBVIOUS
<1>2. calls'[f] = calls[f] /\ StateIn(f)' = StateIn(f)
  BY DEF FramesKept
<1>3. States'[f] = StateIn(f)' /\ States[f] = StateIn(f)
  BY <1>1 DEF States
<1> QED
  BY <1>1, <1>2, <1>3 DEF Kinds, Depths, FrameKind

\* A file is included, or is the first.
LEMMA FileControl ==
    ASSUME Types, Types', Control, NEW own, EnterStep("NoIf", own), own.kind = "file",
           Len(own.o_fileState.codes) = Len(fileState.codes),
           Len(fileState'.codes) = Len(fileState.codes) + 1,
           meant' = Append(meant, <<>>)
    PROVE  Control'
<1>1. PICK base \in Seq(Nat) : ControlAt(base)
  BY DEF Control
<1>2. PICK n \in Nat : n = Len(calls)
  BY DEF Types, Fluids, FluidInv, FluidType
<1>3. Len(calls') = n + 1 /\ FramesKept(n) /\ calls'[n + 1].own = own
  BY <1>2, EnterTypes
<1>4. PICK K : K = Kinds
  OBVIOUS
<1>5. PICK S : S = States
  OBVIOUS
<1>6. PICK D : D = Depths
  OBVIOUS
<1>7. PICK mt : mt = meant
  OBVIOUS
<1>8. /\ Nested(base, n, K, D) /\ Len(fileState.codes) = Len(base)
      /\ MeantFits(base, n, mt, K, S)
  BY <1>1, <1>2, <1>4, <1>5, <1>6, <1>7 DEF ControlAt, Open, EnterStep
<1>9. n = 0 \/ K[1] = "file"
  BY <1>2, <1>4 DEF Kinds, Types, FramesFit
<1>10. PICK K2 : K2 = Kinds'
  OBVIOUS
<1>11. PICK S2 : S2 = States'
  OBVIOUS
<1>12. PICK D2 : D2 = Depths'
  OBVIOUS
<1>13. Agree(K2, K, n) /\ Agree(S2, S, n) /\ Agree(D2, D, n)
  BY <1>2, <1>3, <1>4, <1>5, <1>6, <1>10, <1>11, <1>12, FramesAgree
<1>14. K2[n + 1] = "file" /\ D2[n + 1] = Len(base)
  <2>1. n + 1 \in 1 .. n + 1
    OBVIOUS
  <2> QED
    BY <2>1, <1>3, <1>8, <1>10, <1>12 DEF Kinds, Depths, FrameKind
<1>15. PICK base2 \in Seq(Nat) :
          /\ Nested(base2, n + 1, K2, D2)
          /\ MeantFits(base2, n + 1, Append(mt, <<>>), K2, S2)
          /\ Len(base2) = Len(base) + 1
  BY <1>8, <1>9, <1>13, <1>14, MeantFile
<1>16. ControlAt(base2)'
  <2>1. Open' = n + 1
    BY <1>3 DEF Open, EnterStep, Enter
  <2> QED
    BY <2>1, <1>3, <1>7, <1>8, <1>10, <1>11, <1>12, <1>15 DEF ControlAt
<1> QED
  BY <1>16 DEF Control

\* An #if is read, where lines count or where they do not.
LEMMA IfControl ==
    ASSUME Types, Types', Control, calls # <<>>,
           NEW state, NEW own, EnterStep(state, own),
           NEW b \in BOOLEAN, NEW says \in BOOLEAN, NEW unclear \in BOOLEAN,
           unclear \/ says = b,
           \/ own.kind = "if" /\ INCLUDING /\ state = IF b THEN "ActiveIf" ELSE "InactiveIf"
           \/ own.kind = "skipped" /\ ~INCLUDING,
           fileState'.codes = fileState.codes,
           meant' = InFile(Append(Here, NewCondition(says, unclear)))
    PROVE  Control'
<1>1. PICK base \in Seq(Nat) : ControlAt(base)
  BY DEF Control
<1>2. PICK n \in Nat \ {0} : n = Len(calls)
  BY DEF Types, Fluids, FluidInv, FluidType
<1>3. Len(calls') = n + 1 /\ FramesKept(n) /\ calls'[n + 1].own = own /\ ifState' = state
  BY <1>2, EnterTypes
<1>4. PICK K : K = Kinds
  OBVIOUS
<1>5. PICK S : S = States
  OBVIOUS
<1>6. PICK D : D = Depths
  OBVIOUS
<1>7. PICK mt : mt = meant
  OBVIOUS
<1>0. inclPhase = "line"
  BY DEF EnterStep, Types, InclType
<1>8. /\ Nested(base, n, K, D) /\ Len(fileState.codes) = Len(base)
      /\ MeantFits(base, n, mt, K, S)
  BY <1>0, <1>1, <1>2, <1>4, <1>5, <1>6, <1>7 DEF ControlAt, Open
<1>9. K[1] = "file"
  BY <1>2, <1>4 DEF Kinds, Types, FramesFit
<1>10. PICK K2 : K2 = Kinds'
  OBVIOUS
<1>11. PICK S2 : S2 = States'
  OBVIOUS
<1>12. PICK D2 : D2 = Depths'
  OBVIOUS
<1>13. Agree(K2, K, n) /\ Agree(S2, S, n) /\ Agree(D2, D, n)
  BY <1>2, <1>3, <1>4, <1>5, <1>6, <1>10, <1>11, <1>12, FramesAgree
<1>14. K2[n + 1] = own.kind /\ S2[n + 1] = state
  <2>1. n + 1 \in 1 .. n + 1
    OBVIOUS
  <2> QED
    BY <2>1, <1>3, <1>10, <1>11 DEF Kinds, States, StateIn, FrameKind
<1>15. PICK c : c = NewCondition(says, unclear)
  OBVIOUS
<1>16. c \in Condition /\ (own.kind = "if" => LocalFits(c, state))
  BY <1>15 DEF NewCondition, Condition, LocalFits
<1>17. PICK cs : cs = Here
  OBVIOUS
<1>18. /\ cs = mt[Len(mt)]
       /\ Even(cs, Len(cs)) => (INCLUDING <=> Wanted(cs, Len(cs)))
  BY <1>0, <1>7, <1>17, LineRight
<1>19. /\ own.kind = "if" /\ Even(cs, Len(cs)) => Wanted(cs, Len(cs))
       /\ own.kind = "skipped" /\ Even(cs, Len(cs)) => ~Wanted(cs, Len(cs))
  BY <1>18
<1>20. own.kind # "file" /\ own.kind \in {"if", "skipped"}
  OBVIOUS
<1>21. /\ Nested(base, n + 1, K2, D2)
       /\ MeantFits(base, n + 1, [mt EXCEPT ![Len(mt)] = Append(cs, c)], K2, S2)
  BY <1>8, <1>9, <1>13, <1>14, <1>16, <1>18, <1>19, <1>20, MeantIf
<1>22. ControlAt(base)'
  <2>1. Open' = n + 1
    BY <1>3 DEF Open, EnterStep, Enter
  <2>2. meant' = [mt EXCEPT ![Len(mt)] = Append(cs, c)]
    BY <1>7, <1>15, <1>17 DEF InFile
  <2> QED
    BY <2>1, <2>2, <1>3, <1>8, <1>10, <1>11, <1>12, <1>21 DEF ControlAt
<1> QED
  BY <1>22 DEF Control

\* What is left of the frames when only the innermost state changes.
LEMMA StayFrames ==
    ASSUME Types, NEW state, StateStep(state), ifState' = state
    PROVE  /\ Kinds' = Kinds /\ Depths' = Depths /\ Len(calls') = Len(calls)
           /\ Agree(States', States, Len(calls) - 1)
           /\ calls # <<>> => States'[Len(calls)] = state
           /\ state = ifState => States' = States
<1>0. PICK n \in Nat : n = Len(calls) /\ (calls # <<>> => n \in 1 .. n)
  BY DEF Types, Fluids, FluidInv, FluidType
<1>1. calls' = calls
  BY DEF StateStep
<1>2. Kinds' = Kinds /\ Depths' = Depths
  BY <1>1 DEF Kinds, Depths, FrameKind
<1>3. \A f \in 1 .. n : StateIn(f)' = IF f = n THEN state ELSE StateIn(f)
  BY <1>0, <1>1 DEF StateIn
<1>4. StateIn(n) = ifState
  BY <1>0 DEF StateIn
<1>5. \A f \in 1 .. n : States'[f] = StateIn(f)' /\ States[f] = StateIn(f)
  BY <1>0, <1>1 DEF States
<1>6. Agree(States', States, n - 1)
  BY <1>0, <1>3, <1>5 DEF Agree
<1>7. calls # <<>> => States'[n] = state
  BY <1>0, <1>3, <1>5
<1>8. state = ifState => States' = States
  <2> SUFFICES ASSUME state = ifState  PROVE States' = States
    OBVIOUS
  <2>1. \A f \in 1 .. n : StateIn(f)' = StateIn(f)
    BY <1>3, <1>4
  <2> QED
    BY <2>1, <1>0, <1>1 DEF States
<1> QED
  BY <1>0, <1>1, <1>2, <1>6, <1>7, <1>8

\* Nothing that is meant changes, and no frame.
LEMMA SameControl ==
    ASSUME Types, Control, StateStep(ifState), ifState' = ifState,
           Open = Len(calls), Open' = Len(calls),
           fileState'.codes = fileState.codes, meant' = meant
    PROVE  Control'
<1>1. PICK base \in Seq(Nat) : ControlAt(base)
  BY DEF Control
<1>2. /\ Kinds' = Kinds /\ Depths' = Depths /\ Len(calls') = Len(calls)
      /\ States' = States
  BY StayFrames
<1>3. ControlAt(base)'
  BY <1>1, <1>2 DEF ControlAt
<1> QED
  BY <1>3 DEF Control

\* An #elseif or an #else is read: the innermost #if goes on with a branch.
BranchState(state, b, isElse) ==
    /\ isElse => b
    /\ ifState = "NoIf" => state = "NoIf"
    /\ ifState = "FormerlyActiveIf" => state = "FormerlyActiveIf"
    /\ ifState = "ActiveIf" => state = IF isElse THEN "InactiveIf" ELSE "FormerlyActiveIf"
    /\ ifState = "InactiveIf" => state = IF b THEN "ActiveIf" ELSE "InactiveIf"

\* The state of the next branch is that of the condition.
LEMMA NextFits ==
    ASSUME NEW c \in Condition, NEW b \in BOOLEAN, NEW isElse \in BOOLEAN, NEW state,
           BranchState(state, b, isElse), ifState \in IfState \ {"NoIf"},
           LocalFits(c, ifState),
           NEW says \in BOOLEAN, NEW unclear \in BOOLEAN, unclear \/ says = b
    PROVE  LocalFits(NextBranch(c, says, isElse, unclear), state)
<1>1. PICK e : e = NextBranch(c, says, isElse, unclear)
  OBVIOUS
<1>2. /\ e.on = (says /\ ~c.done) /\ e.done = (c.done \/ says)
      /\ e.elsed = isElse /\ e.odd = (c.odd \/ c.elsed \/ unclear)
  BY <1>1 DEF NextBranch
<1>3. /\ c.on \in BOOLEAN /\ c.done \in BOOLEAN /\ c.elsed \in BOOLEAN /\ c.odd \in BOOLEAN
  BY DEF Condition
<1>4. ~e.odd => /\ e.on <=> state = "ActiveIf"
                /\ e.elsed \/ (e.done <=> state # "InactiveIf")
  BY <1>2, <1>3 DEF LocalFits, BranchState, IfState
<1> QED
  BY <1>1, <1>4 DEF LocalFits

\* An #elseif or an #else is read.
LEMMA BranchControl ==
    ASSUME Types, Types', Control, inclPhase = "line", Open' = Len(calls),
           NEW state, StateStep(state), ifState' = state,
           NEW b \in BOOLEAN, NEW isElse \in BOOLEAN, BranchState(state, b, isElse),
           NEW says \in BOOLEAN, NEW unclear \in BOOLEAN, unclear \/ says = b,
           fileState'.codes = fileState.codes, meant' = Branch(says, isElse, unclear)
    PROVE  Control'
<1>1. PICK base \in Seq(Nat) : ControlAt(base)
  BY DEF Control
<1>2. PICK n \in Nat \ {0} : n = Len(calls)
  BY DEF Types, InclType, Fluids, FluidInv, FluidType
<1>3. Open = n /\ calls # <<>>
  BY <1>2 DEF Open, Types, InclType
<1>4. PICK K : K = Kinds
  OBVIOUS
<1>5. PICK S : S = States
  OBVIOUS
<1>6. PICK D : D = Depths
  OBVIOUS
<1>7. PICK mt : mt = meant
  OBVIOUS
<1>8. PICK S2 : S2 = States'
  OBVIOUS
<1>9. /\ Nested(base, n, K, D) /\ Len(fileState.codes) = Len(base)
      /\ MeantFits(base, n, mt, K, S)
  BY <1>1, <1>2, <1>3, <1>4, <1>5, <1>6, <1>7 DEF ControlAt
<1>10. /\ Kinds' = K /\ Depths' = D /\ Len(calls') = n
       /\ Agree(S2, S, n - 1) /\ S2[n] = state /\ (state = ifState => S2 = S)
  BY <1>2, <1>3, <1>4, <1>5, <1>6, <1>8, StayFrames
<1>11. PICK cs : cs = Here
  OBVIOUS
<1>12. /\ cs = mt[Len(mt)] /\ cs \in Seq(Condition)
       /\ cs = <<>> <=> ifState = "NoIf"
       /\ cs # <<>> /\ FrameKind(n) = "if" => LocalFits(cs[Len(cs)], ifState)
  BY <1>2, <1>7, <1>11, LineRight
<1>13. CASE cs = <<>>
  <2>1. meant' = meant /\ state = ifState
    BY <1>11, <1>12, <1>13 DEF Branch, BranchState
  <2> QED
    BY <2>1, <1>2, <1>3, SameControl
<1>14. CASE cs # <<>>
  <2>1. PICK c : c = NextBranch(Last(cs), says, isElse, unclear)
    OBVIOUS
  <2>2. cs[Len(cs)] \in Condition /\ Last(cs) = cs[Len(cs)]
    BY <1>12, <1>14 DEF Last
  <2>3. PICK e \in Condition : e = Last(cs)
    BY <2>2
  <2>4. c \in Condition
    BY <2>1, <2>3 DEF NextBranch, Condition
  <2>5. K[n] = FrameKind(n) /\ K[1] = "file" /\ StateIn(n) = ifState
    BY <1>2, <1>4 DEF Kinds, StateIn, Types, FramesFit
  <2>6. K[n] = "if" => LocalFits(c, S2[n])
    <3> SUFFICES ASSUME FrameKind(n) = "if"
                 PROVE  LocalFits(c, state)
      BY <2>5, <1>10
    <3>1. LocalFits(e, ifState)
      BY <2>2, <2>3, <1>12, <1>14
    <3>2. ifState \in IfState \ {"NoIf"}
      <4>1. n \in 1 .. Len(calls)
        BY <1>2
      <4> QED
        BY <4>1, <2>5 DEF Types, StatesFit
    <3> QED
      BY <2>1, <2>3, <3>1, <3>2, NextFits
  <2>7. MeantFits(base, n, [mt EXCEPT ![Len(mt)] = Append(Front(cs), c)], K, S2)
    BY <2>4, <2>5, <2>6, <1>9, <1>10, <1>12, <1>14, MeantBranch
  <2>8. meant' = [mt EXCEPT ![Len(mt)] = Append(Front(cs), c)]
    BY <2>1, <1>7, <1>11, <1>14 DEF Branch, InFile
  <2>9. ControlAt(base)'
    BY <2>7, <2>8, <1>2, <1>8, <1>9, <1>10 DEF ControlAt
  <2> QED
    BY <2>9 DEF Control
<1> QED
  BY <1>13, <1>14

\* An #endif is read: its condition ends, and its frame will.
LEMMA EndifControl ==
    ASSUME Types, Types', Control, inclPhase = "line", Open' = Len(calls) - 1,
           StateStep(ifState), ifState' = ifState,
           fileState'.codes = fileState.codes, meant' = Popped(meant)
    PROVE  Control'
<1>1. PICK base \in Seq(Nat) : ControlAt(base)
  BY DEF Control
<1>2. PICK n \in Nat \ {0} : n = Len(calls)
  BY DEF Types, InclType, Fluids, FluidInv, FluidType
<1>3. Open = n
  BY <1>2 DEF Open
<1>4. /\ Kinds' = Kinds /\ Depths' = Depths /\ States' = States /\ Len(calls') = n
  BY <1>2, StayFrames
<1>5. PICK K : K = Kinds
  OBVIOUS
<1>6. PICK S : S = States
  OBVIOUS
<1>7. PICK D : D = Depths
  OBVIOUS
<1>8. PICK mt : mt = meant
  OBVIOUS
<1>9. K[1] = "file"
  BY <1>2, <1>5 DEF Kinds, Types, FramesFit
<1>10. /\ Nested(base, n, K, D) /\ Len(fileState.codes) = Len(base)
       /\ MeantFits(base, n, mt, K, S)
  BY <1>1, <1>2, <1>3, <1>5, <1>6, <1>7, <1>8 DEF ControlAt
<1>11. MeantFits(base, n - 1, Popped(mt), K, S)
  BY <1>9, <1>10, MeantPop
<1>12. ControlAt(base)'
  BY <1>2, <1>4, <1>5, <1>6, <1>7, <1>8, <1>10, <1>11 DEF ControlAt
<1> QED
  BY <1>12 DEF Control

\* What a frame returns does not end with the line of an #endif: an #endif
\* ends one frame only.
LEMMA EndNotEndif ==
    ASSUME Types, EndStep, Len(calls) # 1
    PROVE  ~isThisEndifLine(d_sll')
<1>1. PICK n \in Nat \ {0} : n = Len(calls) /\ n \in 1 .. Len(calls)
  BY DEF Types, Fluids, FluidInv, FluidType, EndStep
<1>2. Last(sll) = sll[n] /\ sll[n] \in Seq(SLine) /\ Took \in Seq(SLine)
  <2>1. sll \in Seq(Seq(SLine)) /\ Len(sll) = n
    BY <1>1 DEF Types, InclType
  <2> QED
    BY <2>1, <1>1 DEF Last, Took, Types, InclType
<1>3. PICK s \in Seq(SLine) : s = Took \o sll[n]
  <2>1. Took \o sll[n] \in Seq(SLine)
    BY <1>2
  <2> QED
    BY <2>1
<1>4. d_sll' = IF FrameKind(n) = "skipped" THEN s ELSE Append(s, calls[n].own.line)
  BY <1>1, <1>2, <1>3 DEF EndStep, EndContents, addSysCmd, Last, FrameKind
<1>5. /\ Len(EndifLine) = 1 /\ EndifLine # <<>>
      /\ EndifLine[1].isEndifLine /\ EndifLine[Len(EndifLine)].isEndifLine
  BY DEF EndifLine
<1>6. CASE FrameKind(n) = "skipped"
  <2>1. NoEndif(sll[n]) /\ (d_sll = EndifLine \/ NoEndif(d_sll))
    BY <1>1, <1>6 DEF Types, SkippedFit
  <2>2. NoEndif(Took)
    BY <2>1 DEF Took, NoEndif
  <2>3. NoEndif(s)
    BY <2>1, <2>2, <1>2, <1>3 DEF NoEndif
  <2>4. s # EndifLine
    BY <2>3, <1>5 DEF NoEndif
  <2>5. s # <<>> => ~Last(s).isEndifLine
    BY <2>3 DEF NoEndif, Last
  <2> QED
    BY <2>4, <2>5, <1>4, <1>6 DEF isThisEndifLine
<1>7. CASE FrameKind(n) # "skipped"
  <2>1. PICK x \in OpenLine : x = calls[n].own.line
    BY <1>1, <1>7, OwnType
  <2>2. ~x.isEndifLine
    BY DEF OpenLine
  <2>3. PICK t : t = Append(s, x)
    OBVIOUS
  <2>4. t[Len(t)] = x
    BY <2>3
  <2>5. Last(t) = x
    BY <2>4 DEF Last
  <2>6. t # EndifLine
    BY <2>2, <2>4, <1>5
  <2> QED
    BY <2>1, <2>2, <2>3, <2>5, <2>6, <1>4, <1>7 DEF isThisEndifLine
<1> QED
  BY <1>6, <1>7

\* The frame at the end of a file, or whose #endif was read, is left.
LEMMA EndControl ==
    ASSUME Types, Types', Control, EndStep,
           meant' = IF inclPhase = "line" THEN Popped(meant) ELSE meant
    PROVE  Control'
<1>1. PICK base \in Seq(Nat) : ControlAt(base)
  BY DEF Control
<1>2. PICK n \in Nat \ {0} : n = Len(calls) /\ n \in 1 .. Len(calls)
  BY DEF Types, Fluids, FluidInv, FluidType, EndStep
<1>3. PICK K : K = Kinds
  OBVIOUS
<1>4. PICK S : S = States
  OBVIOUS
<1>5. PICK D : D = Depths
  OBVIOUS
<1>6. PICK mt : mt = meant
  OBVIOUS
<1>7. PICK mt2 : mt2 = meant'
  OBVIOUS
<1>8. Nested(base, n, K, D) /\ Len(fileState.codes) = Len(base)
  BY <1>1, <1>2, <1>3, <1>5 DEF ControlAt
<1>9. MeantFits(base, Open, mt, K, S)
  BY <1>1, <1>3, <1>4, <1>6 DEF ControlAt
<1>10. K[1] = "file" /\ K[n] = FrameKind(n)
  BY <1>2, <1>3 DEF Kinds, Types, FramesFit
<1>11. MeantFits(base, n - 1, mt2, K, S)
  <2>1. CASE inclPhase = "line"
    <3>1. Open = n
      BY <2>1, <1>2 DEF Open
    <3>2. MeantFits(base, n, mt, K, S)
      BY <3>1, <1>9
    <3>3. MeantFits(base, n - 1, Popped(mt), K, S)
      BY <3>2, <1>8, <1>10, MeantPop
    <3> QED
      BY <3>3, <2>1, <1>6, <1>7
  <2>2. CASE inclPhase # "line"
    <3>1. Open = n - 1
      BY <2>2, <1>2 DEF Open, EndStep
    <3> QED
      BY <3>1, <2>2, <1>6, <1>7, <1>9
  <2> QED
    BY <2>1, <2>2
<1>12. Len(calls') = n - 1 /\ FramesKept(n - 1)
  BY <1>2, EndTypes
<1>13. PICK K2 : K2 = Kinds'
  OBVIOUS
<1>14. PICK S2 : S2 = States'
  OBVIOUS
<1>15. PICK D2 : D2 = Depths'
  OBVIOUS
<1>16. Agree(K2, K, n - 1) /\ Agree(S2, S, n - 1) /\ Agree(D2, D, n - 1)
  <2>1. PICK k \in Nat : k = n - 1
    OBVIOUS
  <2>2. /\ k <= Len(calls) /\ k <= Len(calls') /\ FramesKept(k)
        /\ Len(calls) \in Nat /\ Len(calls') \in Nat
    BY <2>1, <1>2, <1>12
  <2>3. Agree(Kinds', Kinds, k) /\ Agree(States', States, k) /\ Agree(Depths', Depths, k)
    BY <2>2, FramesAgree
  <2> QED
    BY <2>1, <2>3, <1>3, <1>4, <1>5, <1>13, <1>14, <1>15
<1>17. PICK base2 \in Seq(Nat) :
          /\ Nested(base2, n - 1, K2, D2) /\ MeantFits(base2, n - 1, mt2, K2, S2)
          /\ Len(base2) = IF K[n] = "file" THEN D[n] ELSE Len(base)
  <2>1. Leaving(n, base, mt2, K, S, D, K2, S2, D2)
    BY <1>8, <1>11, <1>16 DEF Leaving
  <2>2. \E base2 \in Seq(Nat) : LeftAt(base2, n, base, mt2, K, D, K2, S2, D2)
    BY <2>1, MeantDrop
  <2> QED
    BY <2>2 DEF LeftAt
<1>18. Len(fileState'.codes) = Len(base2)
  <2>1. fileState' = IF FrameKind(n) = "file" THEN calls[n].own.o_fileState ELSE fileState
    BY <1>2 DEF EndStep, EndContents, Last, FrameKind
  <2>2. FrameKind(n) = "file" => D[n] = Len(calls[n].own.o_fileState.codes)
    BY <1>2, <1>5 DEF Depths
  <2> QED
    BY <2>1, <2>2, <1>8, <1>10, <1>17
<1>19. Open' = n - 1
  <2>1. n = 1 => inclPhase' = "done"
    BY <1>2 DEF EndStep, EndContents
  <2>2. n # 1 => ~isThisEndifLine(d_sll')
    BY <1>2, EndNotEndif
  <2>3. Open' = IF inclPhase' = "directive" /\ isThisEndifLine(d_sll') THEN Len(calls') - 1
                ELSE Len(calls')
    BY DEF Open, isThisEndifLine, EndifLine
  <2> QED
    BY <2>1, <2>2, <2>3, <1>12
<1>20. ControlAt(base2)'
  BY <1>7, <1>12, <1>13, <1>14, <1>15, <1>17, <1>18, <1>19 DEF ControlAt
<1> QED
  BY <1>20 DEF Control

-----------------------------------------------------------------------------
(* The includer: each step.                                                 *)

InclInv == Types /\ Control /\ Order
Kept == InclInv' /\ Restores

\* A step that changes no fluid variable.
LEMMA FluidsStay ==
    ASSUME Types, calls # <<>>, UNCHANGED fluidVars
    PROVE  StateStep(ifState) /\ ifState' = ifState
<1>1. PICK n \in Nat \ {0} : n = Len(calls) /\ n \in 1 .. Len(calls)
  BY DEF Types, Fluids, FluidInv, FluidType
<1>2. ifState \in IfState
  <2>1. FrameKind(n) \in {"file", "if", "skipped"} /\ StateIn(n) = ifState
    BY <1>1, OwnType DEF StateIn
  <2>2. /\ FrameKind(n) = "file" => StateIn(n) = "NoIf"
        /\ FrameKind(n) = "if" => StateIn(n) \in IfState \ {"NoIf"}
        /\ FrameKind(n) = "skipped" => StateIn(n) = "FormerlyActiveIf"
    BY <1>1 DEF Types, StatesFit
  <2> QED
    BY <2>1, <2>2 DEF IfState
<1>3. global \in [FluidVars -> Val] /\ "ifState" \in FluidVars
  BY InclConstants DEF Types, Fluids, FluidInv, FluidType
<1>4. [global EXCEPT !["ifState"] = ifState] = global
  BY <1>3 DEF ifState
<1>5. ifState' = ifState
  BY DEF fluidVars, ifState
<1> QED
  BY <1>2, <1>4, <1>5 DEF StateStep, fluidVars

\* Only the line of an #endif ends an #if.
LEMMA LineEnds ==
    ASSUME NEW op
    PROVE  /\ isThisEndifLine(<<SrcLine(op)>>) <=> op = "endif"
           /\ op # "endif" => NoEndif(<<SrcLine(op)>>)
           /\ isThisEndifLine(EndifLine) /\ ~isThisEndifLine(<<>>) /\ NoEndif(<<>>)
<1>1. PICK x : x = SrcLine(op)
  OBVIOUS
<1>2. x.isEndifLine <=> op = "endif"
  BY <1>1 DEF SrcLine
<1>3. Len(<<x>>) = 1 /\ <<x>>[1] = x /\ <<x>> # <<>> /\ Last(<<x>>) = x
  BY DEF Last
<1>4. EndifLine[1].isEndifLine /\ EndifLine # <<>>
  BY DEF EndifLine
<1>5. <<x>> = EndifLine => x.isEndifLine
  BY <1>3, <1>4
<1>6. isThisEndifLine(<<x>>) <=> op = "endif"
  BY <1>2, <1>3, <1>5 DEF isThisEndifLine
<1>7. op # "endif" => NoEndif(<<x>>)
  BY <1>2, <1>3 DEF NoEndif
<1>8. isThisEndifLine(EndifLine) /\ ~isThisEndifLine(<<>>) /\ NoEndif(<<>>)
  BY <1>4 DEF isThisEndifLine, NoEndif
<1> QED
  BY <1>1, <1>6, <1>7, <1>8

\* A directive that opens no frame, and what it means.
Meant(state, d) ==
    \/ ~isThisEndifLine(d) /\ state = ifState /\ meant' = meant
    \/ /\ ~isThisEndifLine(d)
       /\ \E b, isElse, says, unclear \in BOOLEAN :
              /\ BranchState(state, b, isElse)
              /\ unclear \/ says = b
              /\ meant' = Branch(says, isElse, unclear)
    \/ isThisEndifLine(d) /\ state = ifState /\ meant' = Popped(meant)

\* The frames stay, and the innermost condition may change.
LEMMA AnswerKeeps ==
    ASSUME InclInv, NEW state, NEW d, AnswerStep(state, d),
           fileState'.codes = fileState.codes, Meant(state, d)
    PROVE  Kept
<1>1. Types' /\ Restores /\ ifState' = state
  BY AnswerTypes DEF InclInv
<1>2. Order'
  BY <1>1, AnswerOrder DEF InclInv
<1>3. inclPhase = "line" /\ Open = Len(calls) /\ StateStep(state)
  BY DEF AnswerStep, Open
<1>4. Open' = IF isThisEndifLine(d) THEN Len(calls) - 1 ELSE Len(calls)
  <2>1. inclPhase' = "directive" /\ d_sll' = d /\ calls' = calls
    BY DEF AnswerStep, StateStep
  <2>2. isThisEndifLine(d_sll)' <=> isThisEndifLine(d)
    BY <2>1 DEF isThisEndifLine, EndifLine
  <2>3. Open' = IF isThisEndifLine(d_sll)' THEN Len(calls) - 1 ELSE Len(calls)
    BY <2>1 DEF Open
  <2> QED
    BY <2>2, <2>3
<1>5. CASE ~isThisEndifLine(d) /\ state = ifState /\ meant' = meant
  BY <1>1, <1>2, <1>3, <1>4, <1>5, SameControl DEF Kept, InclInv
<1>6. ASSUME ~isThisEndifLine(d), NEW b \in BOOLEAN, NEW isElse \in BOOLEAN,
             NEW says \in BOOLEAN, NEW unclear \in BOOLEAN, unclear \/ says = b,
             BranchState(state, b, isElse), meant' = Branch(says, isElse, unclear)
      PROVE  Kept
  BY <1>1, <1>2, <1>3, <1>4, <1>6, BranchControl DEF Kept, InclInv
<1>7. CASE isThisEndifLine(d) /\ state = ifState /\ meant' = Popped(meant)
  BY <1>1, <1>2, <1>3, <1>4, <1>7, EndifControl DEF Kept, InclInv
<1> QED
  BY <1>5, <1>6, <1>7 DEF Meant

\* Something is added to the list of the innermost frame.
LEMMA AddKeeps ==
    ASSUME InclInv, NEW d, AddStep(d), UNCHANGED ifState,
           inclPhase = "directive" => ~isThisEndifLine(d_sll),
           fileState'.codes = fileState.codes, meant' = meant,
           NEW R, Added(R, d), Stacked(R, inclSerialLineNo'), ToSet(taken') = TextsOf(R)
    PROVE  Kept
<1>1. Types' /\ Restores
  BY AddTypes DEF InclInv
<1>2. Order'
  BY <1>1, AddOrder DEF InclInv
<1>3. Open = Len(calls) /\ Open' = Len(calls)
  BY DEF Open, AddStep, StateStep
<1>4. Control'
  BY <1>3, SameControl DEF InclInv, AddStep
<1> QED
  BY <1>1, <1>2, <1>4 DEF Kept, InclInv

\* A frame ends.
LEMMA EndKeeps ==
    ASSUME InclInv, EndStep, meant' = IF inclPhase = "line" THEN Popped(meant) ELSE meant
    PROVE  Kept
<1>1. Types' /\ Restores
  BY EndTypes DEF InclInv
<1>2. Order' /\ Control'
  BY <1>1, EndOrder, EndControl DEF InclInv
<1> QED
  BY <1>1, <1>2 DEF Kept, InclInv

\* includeFile is called.
LEMMA IncludeFileKeeps ==
    ASSUME InclInv, IncludeFile
    PROVE  Kept
<1>1. PICK own : own = [kind |-> "file", line |-> <<>>, o_fileState |-> fileState]
  OBVIOUS
<1>2. own.kind = "file" /\ own.o_fileState = fileState /\ own \in Own
  BY <1>1 DEF InclInv, Types, InclType, Own, FileOwn
<1>3. inclPhase = "idle" /\ calls = <<>>
  BY DEF IncludeFile, InclInv, Types, InclType
<1>4. /\ fileState' = [file |-> Main, pos |-> 0, codes |-> Append(fileState.codes, Main)]
      /\ Enter("NoIf", own)
  BY <1>1 DEF IncludeFile, InclFile
<1>5. /\ fileState.codes \in Seq(File) /\ Main \in File
      /\ fileState'.codes = Append(fileState.codes, Main)
  BY <1>4, InclConstants DEF InclInv, Types, InclType, FileState
<1>6. fileState' \in FileState /\ Len(fileState'.codes) = Len(fileState.codes) + 1
  BY <1>4, <1>5 DEF FileState
<1>7. EnterStep("NoIf", own)
  BY <1>2, <1>3, <1>4, <1>6 DEF EnterStep, OwnFits, IncludeFile, InclInv, Types, InclType
<1>8. Types' /\ Restores
  BY <1>7, EnterTypes DEF InclInv
<1>9. Order'
  BY <1>7, <1>8, EnterOrder DEF InclInv
<1>10. meant = <<>>
  <2>1. PICK base \in Seq(Nat) : ControlAt(base)
    BY DEF InclInv, Control
  <2>2. Len(calls) = 0
    BY <1>3
  <2>3. Nested(base, 0, Kinds, Depths)
    BY <2>1, <2>2 DEF ControlAt
  <2>4. Len(base) = 0
    <3>1. \A j \in 1 .. Len(base) : base[j] \in 1 .. 0
      BY <2>3 DEF Nested
    <3>2. Len(base) \in Nat
      OBVIOUS
    <3>3. Len(base) > 0 => 1 \in 1 .. Len(base)
      BY <3>2
    <3> QED
      BY <3>1, <3>2, <3>3
  <2>5. meant \in Seq(Seq(Condition)) /\ Len(meant) <= 0
    BY <2>1, <2>4 DEF ControlAt, MeantFits
  <2> QED
    BY <2>5
<1>11. meant' = Append(meant, <<>>)
  BY <1>10 DEF IncludeFile
<1>12. Control'
  BY <1>2, <1>6, <1>7, <1>8, <1>11, FileControl DEF InclInv
<1> QED
  BY <1>8, <1>9, <1>12 DEF Kept, InclInv

\* The list of assertions: what is on is in it, and what is in it is on, but
\* for what was asserted twice, as nothing else is in it twice.
ListFits ==
    /\ \E A : localAssertList \in Seq(A)
    /\ turnedOn \subseteq ToSet(localAssertList)
    /\ ToSet(localAssertList) \subseteq turnedOn \cup again
    /\ \A i, j \in 1 .. Len(localAssertList) :
          i # j /\ localAssertList[i] = localAssertList[j] => localAssertList[i] \in again

\* So the list says what is on, except where that is unclear.
LEMMA ListSays ==
    ASSUME ListFits, NEW p
    PROVE  Unclear(p) \/ (IsAssert(p) <=> p \in turnedOn)
<1>1. PICK A : localAssertList \in Seq(A)
  BY DEF ListFits
<1>2. IsAssert(p) <=> p \in ToSet(localAssertList)
  BY <1>1 DEF IsAssert, Contains, ToSet
<1> QED
  BY <1>2 DEF ListFits, Unclear

\* RemoveFirst takes one place out.
LEMMA RemoveFirstIs ==
    ASSUME NEW A, NEW s \in Seq(A), NEW e
    PROVE  \/ RemoveFirst(s, e) = s /\ \A i \in 1 .. Len(s) : s[i] # e
           \/ \E k \in 1 .. Len(s) :
                 /\ s[k] = e
                 /\ RemoveFirst(s, e) \in Seq(A) /\ Len(RemoveFirst(s, e)) = Len(s) - 1
                 /\ \A i \in 1 .. Len(s) - 1 :
                       RemoveFirst(s, e)[i] = IF i < k THEN s[i] ELSE s[i + 1]
<1>1. CASE ~ \E i \in 1 .. Len(s) : s[i] = e
  BY <1>1 DEF RemoveFirst
<1>2. CASE \E i \in 1 .. Len(s) : s[i] = e
  <2> DEFINE I == {i \in 1 .. Len(s) : s[i] = e}
  <2>1. PICK k \in I : \A i \in I : k <= i
    <3>1. I \in SUBSET Nat /\ I # {}
      BY <1>2
    <3> QED
      BY <3>1, SomeLeast
  <2>2. Min(I) = k
    BY <2>1 DEF Min
  <2>3. RemoveFirst(s, e) = SubSeq(s, 1, k - 1) \o SubSeq(s, k + 1, Len(s))
    BY <1>2, <2>1, <2>2 DEF RemoveFirst, RemoveAt, SelectInSeq
  <2>4. PICK n \in Nat : n = Len(s) /\ k \in 1 .. n
    BY <2>1
  <2>5. PICK u : u = SubSeq(s, 1, k - 1)
    OBVIOUS
  <2>6. PICK v : v = SubSeq(s, k + 1, n)
    OBVIOUS
  <2>7. u \in Seq(A) /\ Len(u) = k - 1 /\ \A i \in 1 .. k - 1 : u[i] = s[i]
    BY <2>4, <2>5
  <2>8. v \in Seq(A) /\ Len(v) = n - k /\ \A i \in 1 .. n - k : v[i] = s[k + i]
    BY <2>4, <2>6
  <2>9. PICK t : t = u \o v
    OBVIOUS
  <2>10. /\ t \in Seq(A) /\ Len(t) = n - 1
         /\ \A i \in 1 .. n - 1 : t[i] = IF i < k THEN s[i] ELSE s[i + 1]
    <3>1. t \in Seq(A) /\ Len(t) = n - 1
      <4>1. u \o v \in Seq(A) /\ Len(u \o v) = Len(u) + Len(v)
        BY <2>7, <2>8
      <4>2. (k - 1) + (n - k) = n - 1
        BY <2>4
      <4> QED
        BY <4>1, <4>2, <2>7, <2>8, <2>9
    <3>2. \A i \in 1 .. k - 1 : t[i] = s[i]
      BY <2>4, <2>7, <2>8, <2>9
    <3>3. ASSUME NEW i \in k .. n - 1  PROVE t[i] = s[i + 1]
      <4>1. t[i] = v[i - (k - 1)]
        BY <2>4, <2>7, <2>8, <2>9
      <4>2. PICK h \in 1 .. n - k : h = i - (k - 1) /\ k + h = i + 1
        BY <2>4
      <4> QED
        BY <4>1, <4>2, <2>8
    <3> QED
      BY <3>1, <3>2, <3>3, <2>4
  <2>11. RemoveFirst(s, e) = t /\ s[k] = e
    BY <2>1, <2>3, <2>4, <2>5, <2>6, <2>9
  <2> QED
    BY <2>4, <2>10, <2>11
<1> QED
  BY <1>1, <1>2

\* To be in a set is true or false.
LEMMA MemberOrNot ==
    ASSUME NEW x, NEW S
    PROVE  \E b \in BOOLEAN : b = (x \in S)
<1>1. PICK b \in BOOLEAN : b <=> x \in S
  BY Zenon
<1>2. b = (x \in S)
  BY <1>1, Zenon
<1> QED
  BY <1>2, Zenon

\* A line is read, and is a directive.
DirectiveRead(l) ==
    /\ NextLine(l)
    /\ meant' = IF l.op \in {"include", "reinclude"} /\ Len(calls') > Len(calls)
                THEN Append(meant, <<>>) ELSE MeantAfter(l)
    /\ UNCHANGED <<taken, fluidOps>>

\* What every line that is read changes and leaves.
LEMMA LineRead ==
    ASSUME InclInv, NEW l, NextLine(l)
    PROVE  /\ inclPhase = "line" /\ calls # <<>> /\ d_sll = <<>>
           /\ inclSerialLineNo \in Nat /\ inclSerialLineNo' = inclSerialLineNo + 1
           /\ result' = result
           /\ fileState \in FileState /\ PastLine \in FileState
           /\ PastLine.codes = fileState.codes
<1>1. fileState \in FileState
  BY DEF InclInv, Types, InclType
<1>2. PastLine \in FileState /\ PastLine.codes = fileState.codes
  BY <1>1 DEF PastLine, FileState
<1> QED
  BY <1>1, <1>2 DEF NextLine, InclInv, Types, InclType

\* The line that a frame is opened for.
LEMMA OpenLineRead ==
    ASSUME NEW op \in {"if", "include", "reinclude"}, inclSerialLineNo \in Nat,
           inclSerialLineNo' = inclSerialLineNo + 1
    PROVE  SrcLine(op) \in OpenLine /\ SrcLine(op).serial = inclSerialLineNo + 1
<1>1. (op = "endif") = FALSE
  OBVIOUS
<1>2. SrcLine(op) = [serial |-> inclSerialLineNo', op |-> op, isEndifLine |-> FALSE]
  BY <1>1, Zenon DEF SrcLine
<1>3. inclSerialLineNo' \in Nat
  OBVIOUS
<1> QED
  BY <1>2, <1>3 DEF OpenLine

\* A directive that changes no variable.
LEMMA AnswerPlain ==
    ASSUME InclInv, NEW l, DirectiveRead(l), NEW d, Answer(d),
           l.op \notin {"if", "elseif", "else"},
           Len(calls') > Len(calls) => l.op \notin {"include", "reinclude"},
           fileState' = PastLine,
           d = <<>> \/ d = <<SrcLine(l.op)>> \/ d = EndifLine,
           l.op \in Ops \ {"text"},
           IF l.op = "endif" THEN d # <<>> ELSE d # EndifLine,
           ifState = "FormerlyActiveIf" => d = EndifLine \/ l.op # "endif"
    PROVE  Kept
<1>1. /\ inclPhase = "line" /\ calls # <<>> /\ inclSerialLineNo' = inclSerialLineNo + 1
      /\ result' = result /\ PastLine \in FileState /\ PastLine.codes = fileState.codes
  BY LineRead DEF DirectiveRead
<1>2. StateStep(ifState)
  BY <1>1, FluidsStay DEF Answer, InclInv
<1>3. PICK op : op = l.op
  OBVIOUS
<1>4. /\ isThisEndifLine(<<SrcLine(op)>>) <=> op = "endif"
      /\ op # "endif" => NoEndif(<<SrcLine(op)>>)
      /\ isThisEndifLine(EndifLine) /\ ~isThisEndifLine(<<>>) /\ NoEndif(<<>>)
  BY LineEnds
<1>5. op \in Ops \ {"text"} /\ (d = <<>> \/ d = <<SrcLine(op)>> \/ d = EndifLine)
  BY <1>3
<1>6. AnswerStep(ifState, d)
  <2>1. d \in {<<>>, EndifLine} \/ \E o \in Ops \ {"text"} : d = <<SrcLine(o)>>
    BY <1>5
  <2>2. ifState = "FormerlyActiveIf" => d = EndifLine \/ NoEndif(d)
    BY <1>3, <1>4, <1>5
  <2> QED
    BY <2>1, <2>2, <1>1, <1>2 DEF AnswerStep, Answer, DirectiveRead
<1>7. isThisEndifLine(d) <=> op = "endif"
  BY <1>3, <1>4, <1>5
<1>8. meant' = MeantAfter(l)
  BY DEF DirectiveRead
<1>9. op = "endif" => meant' = Popped(meant)
  BY <1>3, <1>8 DEF MeantAfter, Popped, Here, InFile
<1>10. op # "endif" => meant' = meant
  BY <1>3, <1>8 DEF MeantAfter
<1>11. Meant(ifState, d)
  BY <1>7, <1>9, <1>10 DEF Meant
<1> QED
  BY <1>1, <1>6, <1>11, AnswerKeeps

\* A directive that is passed on, or that cannot be read.
LEMMA PlainKeeps ==
    ASSUME InclInv, NEW l, DirectiveRead(l), HandlePlain(l) \/ HandleBotched(l)
    PROVE  Kept
<1>1. addSysCmd(<<>>, SrcLine(l.op)) = <<SrcLine(l.op)>> /\ <<>> # EndifLine
  BY DEF addSysCmd, EndifLine
<1>2. /\ l.op \in {"assert", "unassert", "unknown", "botched"} /\ l.op # "endif"
      /\ fileState' = PastLine
      /\ Answer(<<>>) \/ Answer(<<SrcLine(l.op)>>)
  BY <1>1 DEF HandlePlain, HandleBotched
<1>3. l.op \in Ops \ {"text"} /\ l.op \notin {"include", "reinclude", "if", "elseif", "else"}
  BY <1>2 DEF Ops
<1>4. <<SrcLine(l.op)>> # EndifLine
  BY <1>2, LineEnds DEF isThisEndifLine
<1>5. ASSUME NEW d, d = <<>> \/ d = <<SrcLine(l.op)>>, Answer(d)  PROVE Kept
  BY <1>1, <1>2, <1>3, <1>4, <1>5, AnswerPlain
<1> QED
  BY <1>2, <1>5

\* A file is included, or is not.
LEMMA IncludeKeeps ==
    ASSUME InclInv, NEW l, DirectiveRead(l), HandleInclude(l)
    PROVE  Kept
<1>1. /\ inclPhase = "line" /\ calls # <<>> /\ inclSerialLineNo \in Nat
      /\ inclSerialLineNo' = inclSerialLineNo + 1 /\ result' = result /\ d_sll = <<>>
      /\ PastLine \in FileState /\ PastLine.codes = fileState.codes
  BY LineRead DEF DirectiveRead
<1>2. /\ l.op \in {"include", "reinclude"} /\ l.op # "endif"
      /\ l.op \in Ops \ {"text"} /\ l.op \notin {"if", "elseif", "else"}
  BY DEF HandleInclude, Ops
<1>3. CASE /\ INCLUDING /\ l.arg \in File
           /\ InclFile(l.arg, SrcLine(l.op), PastLine) /\ UNCHANGED d_sll
  <2>1. PICK f \in File : f = l.arg
    BY <1>3
  <2>2. PICK x : x = SrcLine(l.op)
    OBVIOUS
  <2>3. PICK past : past = PastLine
    OBVIOUS
  <2>4. x \in OpenLine /\ x.serial = inclSerialLineNo + 1
    BY <2>2, <1>1, <1>2, OpenLineRead
  <2>5. PICK own : own = [kind |-> "file", line |-> x, o_fileState |-> past]
    OBVIOUS
  <2>6. /\ own \in Own /\ own.kind = "file" /\ own.line = x /\ own.o_fileState = past
    BY <2>3, <2>4, <2>5, <1>1 DEF Own, FileOwn
  <2>7. /\ Enter("NoIf", own)
        /\ fileState' = [file |-> f, pos |-> 0, codes |-> Append(fileState.codes, f)]
    BY <2>1, <2>2, <2>3, <2>5, <1>3 DEF InclFile
  <2>8. fileState' \in FileState /\ Len(fileState'.codes) = Len(fileState.codes) + 1
    BY <2>7 DEF FileState, InclInv, Types, InclType
  <2>9. EnterStep("NoIf", own)
    BY <2>4, <2>6, <2>7, <2>8, <1>1, <1>3 DEF EnterStep, OwnFits, DirectiveRead
  <2>10. Types' /\ Restores /\ Len(calls') = Len(calls) + 1
    BY <2>9, EnterTypes DEF InclInv
  <2>11. Order'
    BY <2>9, <2>10, EnterOrder DEF InclInv
  <2>12. Len(calls) \in Nat
    BY DEF InclInv, Types, Fluids, FluidInv, FluidType
  <2>13. meant' = Append(meant, <<>>)
    BY <2>10, <2>12, <1>2 DEF DirectiveRead
  <2>14. Len(own.o_fileState.codes) = Len(fileState.codes)
    BY <2>3, <2>6, <1>1
  <2>15. Control'
    BY <2>6, <2>8, <2>9, <2>10, <2>13, <2>14, FileControl DEF InclInv
  <2> QED
    BY <2>10, <2>11, <2>15 DEF Kept, InclInv
<1>4. CASE fileState' = PastLine /\ (Answer(<<>>) \/ Answer(addSysCmd(<<>>, SrcLine(l.op))))
  <2>1. addSysCmd(<<>>, SrcLine(l.op)) = <<SrcLine(l.op)>> /\ <<>> # EndifLine
    BY DEF addSysCmd, EndifLine
  <2>2. <<SrcLine(l.op)>> # EndifLine
    BY <1>2, LineEnds DEF isThisEndifLine
  <2>3. ~ Len(calls') > Len(calls)
    BY <1>4 DEF Answer, fluidVars, InclInv, Types, Fluids, FluidInv, FluidType
  <2>4. ASSUME NEW d, d = <<>> \/ d = <<SrcLine(l.op)>>, Answer(d)  PROVE Kept
    BY <2>1, <2>2, <2>3, <2>4, <1>2, <1>4, AnswerPlain
  <2> QED
    BY <2>1, <2>4, <1>4
<1> QED
  BY <1>3, <1>4 DEF HandleInclude

\* An #endif is read.
LEMMA EndifKeeps ==
    ASSUME InclInv, NEW l, DirectiveRead(l), HandleEndif(l)
    PROVE  Kept
<1>1. addSysCmd(<<>>, SrcLine(l.op)) = <<SrcLine(l.op)>> /\ <<>> # EndifLine
  BY DEF addSysCmd, EndifLine
<1>2. PICK d : d = IF ifState = "FormerlyActiveIf" THEN EndifLine ELSE <<SrcLine(l.op)>>
  OBVIOUS
<1>3. l.op = "endif" /\ fileState' = PastLine /\ Answer(d)
  BY <1>1, <1>2 DEF HandleEndif
<1>4. <<SrcLine(l.op)>> # <<>>
  OBVIOUS
<1>5. /\ d = <<>> \/ d = <<SrcLine(l.op)>> \/ d = EndifLine
      /\ d # <<>>
      /\ ifState = "FormerlyActiveIf" => d = EndifLine \/ l.op # "endif"
  BY <1>1, <1>2, <1>4
<1>6. /\ l.op \in Ops \ {"text"} /\ l.op \notin {"if", "elseif", "else"}
      /\ l.op \notin {"include", "reinclude"}
  BY <1>3 DEF Ops
<1> QED
  BY <1>3, <1>5, <1>6, AnswerPlain

\* An #if is read.
LEMMA IfKeeps ==
    ASSUME InclInv, ListFits, NEW l, DirectiveRead(l), HandleIf(l)
    PROVE  Kept
<1>1. /\ inclPhase = "line" /\ calls # <<>> /\ inclSerialLineNo \in Nat
      /\ inclSerialLineNo' = inclSerialLineNo + 1 /\ result' = result /\ d_sll = <<>>
      /\ PastLine \in FileState /\ PastLine.codes = fileState.codes
  BY LineRead DEF DirectiveRead
<1>2. PICK b \in BOOLEAN : b = IsAssert(l.arg)
  BY DEF IsAssert, Contains
<1>3. l.op = "if" /\ fileState' = PastLine /\ d_sll' = d_sll
  BY DEF HandleIf
<1>4. PICK x : x = SrcLine(l.op)
  OBVIOUS
<1>5. x \in OpenLine /\ x.serial = inclSerialLineNo + 1
  BY <1>1, <1>3, <1>4, OpenLineRead
<1>10. PICK says \in BOOLEAN : says = (l.arg \in turnedOn)
  BY MemberOrNot, Zenon
<1>11. PICK unclear \in BOOLEAN : unclear = Unclear(l.arg)
  BY MemberOrNot, Zenon DEF Unclear
<1>12. unclear \/ says = b
  BY <1>2, <1>10, <1>11, ListSays
<1>6. meant' = InFile(Append(Here, NewCondition(says, unclear)))
  BY <1>3, <1>10, <1>11 DEF DirectiveRead, MeantAfter
<1>7. ASSUME NEW state, NEW own, EnterStep(state, own),
             \/ own.kind = "if" /\ INCLUDING /\ state = IF b THEN "ActiveIf" ELSE "InactiveIf"
             \/ own.kind = "skipped" /\ ~INCLUDING
      PROVE  Kept
  <2>1. Types' /\ Restores
    BY <1>7, EnterTypes DEF InclInv
  <2>2. Order'
    BY <1>7, <2>1, EnterOrder DEF InclInv
  <2>3. fileState'.codes = fileState.codes
    BY <1>1, <1>3
  <2>4. Control'
    BY <1>1, <1>6, <1>7, <1>12, <2>1, <2>3, IfControl DEF InclInv
  <2> QED
    BY <2>1, <2>2, <2>4 DEF Kept, InclInv
<1>8. CASE INCLUDING
  <2>1. PICK own : own = [kind |-> "if", line |-> x]
    OBVIOUS
  <2>2. own \in Own /\ own.kind = "if" /\ own.line = x
    BY <2>1, <1>5 DEF Own, IfOwn
  <2>3. PICK state : state = IF b THEN "ActiveIf" ELSE "InactiveIf"
    OBVIOUS
  <2>4. Enter(state, own)
    BY <2>1, <2>3, <1>2, <1>4, <1>8 DEF HandleIf
  <2>5. EnterStep(state, own)
    BY <2>2, <2>3, <2>4, <1>1, <1>3, <1>5, <1>8 DEF EnterStep, OwnFits, DirectiveRead
  <2> QED
    BY <2>2, <2>3, <2>5, <1>7, <1>8
<1>9. CASE ~INCLUDING
  <2>1. PICK own : own = [kind |-> "skipped"]
    OBVIOUS
  <2>2. own \in Own /\ own.kind = "skipped"
    BY <2>1 DEF Own, SkippedOwn
  <2>3. Enter("FormerlyActiveIf", own)
    BY <2>1, <1>9 DEF HandleIf
  <2>4. EnterStep("FormerlyActiveIf", own)
    BY <2>2, <2>3, <1>1, <1>3 DEF EnterStep, OwnFits, DirectiveRead
  <2> QED
    BY <2>2, <2>4, <1>7, <1>9
<1> QED
  BY <1>8, <1>9

\* An #elseif or an #else is read.
LEMMA BranchKeeps ==
    ASSUME InclInv, ListFits, NEW l, DirectiveRead(l), HandleElseif(l) \/ HandleElse(l)
    PROVE  Kept
<1>1. /\ inclPhase = "line" /\ calls # <<>> /\ inclSerialLineNo \in Nat
      /\ inclSerialLineNo' = inclSerialLineNo + 1 /\ result' = result
      /\ PastLine \in FileState /\ PastLine.codes = fileState.codes
  BY LineRead DEF DirectiveRead
<1>2. PICK isElse \in BOOLEAN : isElse = (l.op = "else")
  OBVIOUS
<1>3. PICK b \in BOOLEAN : b = (IF isElse THEN TRUE ELSE IsAssert(l.arg))
  BY DEF IsAssert, Contains
<1>4. ifState \in IfState
  <2>1. PICK n \in Nat \ {0} : n = Len(calls) /\ n \in 1 .. Len(calls)
    BY <1>1 DEF InclInv, Types, Fluids, FluidInv, FluidType
  <2>2. FrameKind(n) \in {"file", "if", "skipped"} /\ StateIn(n) = ifState
    BY <2>1, OwnType DEF StateIn, InclInv
  <2>3. /\ FrameKind(n) = "file" => StateIn(n) = "NoIf"
        /\ FrameKind(n) = "if" => StateIn(n) \in IfState \ {"NoIf"}
        /\ FrameKind(n) = "skipped" => StateIn(n) = "FormerlyActiveIf"
    BY <2>1 DEF InclInv, Types, StatesFit
  <2> QED
    BY <2>2, <2>3 DEF IfState
<1>5. PICK op : op = l.op /\ op \in {"elseif", "else"}
  BY DEF HandleElseif, HandleElse
<1>6. addSysCmd(<<>>, SrcLine(op)) = <<SrcLine(op)>>
  BY DEF addSysCmd
<1>7. PICK d : d = IF ifState = "FormerlyActiveIf" THEN <<>> ELSE <<SrcLine(op)>>
  OBVIOUS
<1>8. \E state \in IfState : SetIfState(state, d) /\ BranchState(state, b, isElse)
  <2>1. CASE op = "else"
    <3>1. isElse /\ b
      BY <2>1, <1>2, <1>3, <1>5
    <3>2. PICK state : state = CASE ifState = "ActiveIf"   -> "InactiveIf"
                                 [] ifState = "InactiveIf" -> "ActiveIf"
                                 [] OTHER                  -> ifState
      OBVIOUS
    <3>3. SetIfState(state, d)
      BY <2>1, <3>2, <1>5, <1>6, <1>7 DEF HandleElse, HandleElseif
    <3>4. state \in IfState /\ BranchState(state, b, isElse)
      BY <3>1, <3>2, <1>4 DEF IfState, BranchState
    <3> QED
      BY <3>3, <3>4
  <2>2. CASE op = "elseif"
    <3>1. ~isElse /\ b = IsAssert(l.arg)
      BY <2>2, <1>2, <1>3, <1>5
    <3>2. PICK state :
             state = CASE ifState = "NoIf" -> "NoIf"
                       [] ifState = "InactiveIf" -> IF b THEN "ActiveIf" ELSE "InactiveIf"
                       [] OTHER -> "FormerlyActiveIf"
      OBVIOUS
    <3>3. SetIfState(state, d)
      BY <2>2, <3>1, <3>2, <1>5, <1>6, <1>7 DEF HandleElse, HandleElseif
    <3>4. state \in IfState /\ BranchState(state, b, isElse)
      BY <3>1, <3>2, <1>4 DEF IfState, BranchState
    <3> QED
      BY <3>3, <3>4
  <2> QED
    BY <2>1, <2>2, <1>5
<1>9. PICK state \in IfState : SetIfState(state, d) /\ BranchState(state, b, isElse)
  BY <1>8
<1>10. StateStep(state)
  BY <1>4, <1>9 DEF StateStep, SetIfState, BranchState, IfState
<1>11. /\ ~isThisEndifLine(d) /\ NoEndif(d)
       /\ d = <<>> \/ d = <<SrcLine(op)>>
  BY <1>5, <1>7, LineEnds
<1>12. fileState' = PastLine
  BY DEF HandleElseif, HandleElse
<1>13. AnswerStep(state, d)
  <2>1. op \in Ops \ {"text"}
    BY <1>5 DEF Ops
  <2>2. d \in {<<>>, EndifLine} \/ \E o \in Ops \ {"text"} : d = <<SrcLine(o)>>
    BY <2>1, <1>11
  <2> QED
    BY <2>2, <1>1, <1>9, <1>10, <1>11, <1>12 DEF AnswerStep, SetIfState, DirectiveRead
<1>14. \E says, unclear \in BOOLEAN :
          (unclear \/ says = b) /\ meant' = Branch(says, isElse, unclear)
  <2>1. meant' = MeantAfter(l)
    BY <1>5 DEF DirectiveRead
  <2>2. CASE op = "else"
    <3>1. isElse = TRUE /\ b = TRUE
      BY <2>2, <1>2, <1>3, <1>5
    <3>2. meant' = Branch(TRUE, TRUE, FALSE)
      BY <2>1, <2>2, <1>5 DEF MeantAfter
    <3> QED
      BY <3>1, <3>2
  <2>3. CASE op = "elseif"
    <3>1. isElse = FALSE /\ b = IsAssert(l.arg)
      BY <2>3, <1>2, <1>3, <1>5
    <3>2. PICK says \in BOOLEAN : says = (l.arg \in turnedOn)
      BY MemberOrNot, Zenon
    <3>3. PICK unclear \in BOOLEAN : unclear = Unclear(l.arg)
      BY MemberOrNot, Zenon DEF Unclear
    <3>4. meant' = Branch(says, FALSE, unclear)
      BY <2>1, <2>3, <3>2, <3>3, <1>5 DEF MeantAfter
    <3>5. unclear \/ says = b
      BY <3>1, <3>2, <3>3, ListSays
    <3> QED
      BY <3>1, <3>4, <3>5
  <2> QED
    BY <2>2, <2>3, <1>5
<1>15. Meant(state, d)
  BY <1>9, <1>11, <1>14 DEF Meant
<1> QED
  BY <1>1, <1>12, <1>13, <1>15, AnswerKeeps

\* A directive is read.
LEMMA ReadDirectiveKeeps ==
    ASSUME InclInv, ListFits, ReadDirective
    PROVE  Kept
<1>1. PICK l : /\ DirectiveRead(l)
               /\ \/ HandlePlain(l) \/ HandleBotched(l) \/ HandleInclude(l)
                  \/ HandleIf(l) \/ HandleElseif(l) \/ HandleElse(l) \/ HandleEndif(l)
  BY DEF ReadDirective, DirectiveRead
<1> QED
  BY <1>1, PlainKeeps, IncludeKeeps, IfKeeps, BranchKeeps, EndifKeeps

\* A line of text is read.
LEMMA ReadTextKeeps ==
    ASSUME InclInv, ReadText
    PROVE  Kept
<1>1. PICK l : /\ l.op = "text" /\ NextLine(l) /\ fileState' = PastLine
               /\ IF INCLUDING
                  THEN /\ sll' = [sll EXCEPT ![Len(sll)] = <<SrcLine(l.op)>> \o @]
                       /\ taken' = Append(taken, inclSerialLineNo')
                  ELSE UNCHANGED <<sll, taken>>
               /\ UNCHANGED <<d_sll, inclPhase, meant, fluidVars>>
  BY DEF ReadText
<1>2. /\ inclPhase = "line" /\ calls # <<>> /\ d_sll = <<>>
      /\ inclSerialLineNo' = inclSerialLineNo + 1
      /\ result' = result /\ PastLine \in FileState /\ PastLine.codes = fileState.codes
  BY <1>1, LineRead
<1>3. PICK n \in Nat \ {0} : n = Len(calls) /\ n \in 1 .. Len(calls)
  BY <1>2 DEF InclInv, Types, Fluids, FluidInv, FluidType
<1>4. PICK top \in Nat : top = inclSerialLineNo
  BY DEF InclInv, Types, InclType
<1>5. PICK x \in SLine : x = SrcLine("text") /\ x.serial = top + 1 /\ x.op = "text"
  <2>1. SrcLine("text") \in SLine /\ SrcLine("text").serial = top + 1
    BY <1>2, <1>4 DEF SrcLine, SLine, Ops
  <2> QED
    BY <2>1 DEF SrcLine
<1>6. PICK d : d = IF INCLUDING THEN <<x>> ELSE <<>>
  OBVIOUS
<1>7. d \in Seq(SLine) /\ NoEndif(d)
  BY <1>5, <1>6, LineEnds
<1>8. sll' = [sll EXCEPT ![Len(sll)] = d \o @]
  <2>1. CASE INCLUDING
    BY <2>1, <1>1, <1>5, <1>6
  <2>2. CASE ~INCLUDING
    <3>1. sll \in Seq(Seq(SLine)) /\ Len(sll) = n /\ sll[n] \in Seq(SLine) /\ n \in 1 .. Len(sll)
      BY <1>3 DEF InclInv, Types, InclType
    <3>2. d \o sll[n] = sll[n]
      BY <3>1, <2>2, <1>6
    <3>3. [sll EXCEPT ![n] = d \o sll[n]] = sll
      BY <3>1, <3>2
    <3> QED
      BY <3>1, <3>3, <2>2, <1>1
  <2> QED
    BY <2>1, <2>2
<1>9. StateStep(ifState) /\ ifState' = ifState
  BY <1>1, <1>2, FluidsStay DEF InclInv
<1>10. taken \in Seq(Nat) /\ taken' = IF INCLUDING THEN Append(taken, top + 1) ELSE taken
  BY <1>1, <1>2, <1>4 DEF InclInv, Types, InclType
<1>11. AddStep(d)
  BY <1>1, <1>2, <1>4, <1>7, <1>8, <1>9, <1>10 DEF AddStep
<1>12. PICK P : P = Piles
  OBVIOUS
<1>13. /\ P \in Seq(Seq(SLine)) /\ Len(P) = n + 1 /\ P[n + 1] = <<>>
       /\ Stacked(P, top) /\ ToSet(taken) = TextsOf(P)
  <2>1. PilesFit
    BY PilesType DEF InclInv
  <2>2. Returned = <<>>
    BY <1>2 DEF Returned
  <2> QED
    BY <2>1, <2>2, <1>3, <1>4, <1>12 DEF PilesFit, InclInv, Order
<1> DEFINE R == [f \in 1 .. n + 1 |-> IF f = n + 1 THEN d ELSE P[f]]
<1>14. /\ R \in Seq(Seq(SLine)) /\ Len(R) = n + 1 /\ R[n + 1] = d
       /\ \A f \in 1 .. n : R[f] = P[f]
  <2>1. Len(P) = n + 1 /\ n + 1 \in 1 .. n + 1
    BY <1>3, <1>13
  <2>2. \A f \in 1 .. n + 1 : R[f] \in Seq(SLine)
    <3>1. \A f \in 1 .. n + 1 : P[f] \in Seq(SLine)
      BY <1>13, <2>1
    <3> QED
      BY <3>1, <1>7
  <2>3. R \in Seq(Seq(SLine)) /\ Len(R) = n + 1
    BY <2>2, <1>3
  <2>4. R[n + 1] = d /\ \A f \in 1 .. n : R[f] = P[f]
    BY <1>3
  <2> QED
    BY <2>3, <2>4
<1> HIDE DEF R
<1>15. Added(R, d)
  BY <1>3, <1>12, <1>14 DEF Added
<1>16. Stacked(R, top + 1) /\ ToSet(taken') = TextsOf(R)
  <2>1. CASE INCLUDING
    <3>1. PutOn(n, P, R, x, top)
      BY <2>1, <1>5, <1>6, <1>13, <1>14 DEF PutOn
    <3>2. Stacked(R, top + 1) /\ TextsOf(R) = TextsOf(P) \cup {top + 1}
      BY <3>1, <1>5, StackedPut
    <3>3. ToSet(Append(taken, top + 1)) = ToSet(taken) \cup {top + 1}
      <4>1. PICK m \in Nat : m = Len(taken)
        BY <1>10
      <4>2. PICK t : t = Append(taken, top + 1)
        OBVIOUS
      <4>3. DOMAIN t = 1 .. m + 1 /\ t[m + 1] = top + 1 /\ \A i \in 1 .. m : t[i] = taken[i]
        BY <4>1, <4>2, <1>10
      <4>4. DOMAIN taken = 1 .. m /\ 1 .. m + 1 = (1 .. m) \cup {m + 1}
        BY <4>1, <1>10
      <4>5. ToSet(t) = {t[i] : i \in 1 .. m} \cup {t[m + 1]}
        BY <4>3, <4>4 DEF ToSet
      <4>6. {t[i] : i \in 1 .. m} = ToSet(taken)
        BY <4>3, <4>4 DEF ToSet
      <4> QED
        BY <4>2, <4>3, <4>5, <4>6
    <3> QED
      BY <3>2, <3>3, <2>1, <1>10, <1>13
  <2>2. CASE ~INCLUDING
    <3>1. R = P
      <4>1. \A f \in 1 .. n + 1 : R[f] = P[f]
        BY <2>2, <1>6, <1>13, <1>14
      <4> QED
        BY <4>1, <1>13, <1>14
    <3>2. Stacked(P, top + 1)
      BY <1>13, StackedRaise
    <3> QED
      BY <3>1, <3>2, <2>2, <1>10, <1>13
  <2> QED
    BY <2>1, <2>2
<1>17. fileState'.codes = fileState.codes /\ meant' = meant /\ inclPhase # "directive"
  BY <1>1, <1>2
<1>18. Stacked(R, inclSerialLineNo')
  BY <1>2, <1>4, <1>16
<1> QED
  BY <1>9, <1>11, <1>15, <1>16, <1>17, <1>18, AddKeeps

\* A file ends, for the innermost function that reads it.
LEMMA ReadEofKeeps ==
    ASSUME InclInv, ReadEof
    PROVE  Kept
<1>1. inclPhase = "line" /\ calls # <<>> /\ d_sll = <<>>
  BY DEF ReadEof, InclInv, Types, InclType
<1>2. PICK n \in Nat \ {0} : n = Len(calls) /\ n \in 1 .. Len(calls)
  BY <1>1 DEF InclInv, Types, Fluids, FluidInv, FluidType
<1>3. Took \o Last(sll) = Last(sll)
  <2>1. Last(sll) = sll[n] /\ sll[n] \in Seq(SLine)
    BY <1>2 DEF Last, InclInv, Types, InclType
  <2>2. Took = <<>>
    BY <1>1 DEF Took
  <2> QED
    BY <2>1, <2>2
<1>4. EndStep
  BY <1>1, <1>3 DEF ReadEof, EndStep
<1>5. meant' = Popped(meant)
  BY DEF ReadEof, Popped, Here, InFile
<1> QED
  BY <1>1, <1>4, <1>5, EndKeeps

\* What a directive returned is taken.
LEMMA TakeDirectiveKeeps ==
    ASSUME InclInv, TakeDirective
    PROVE  Kept
<1>1. /\ inclPhase = "directive" /\ calls # <<>> /\ d_sll \in Seq(SLine)
      /\ inclSerialLineNo \in Nat /\ fileState \in FileState /\ taken \in Seq(Nat)
  BY DEF TakeDirective, InclInv, Types, InclType
<1>2. PICK n \in Nat \ {0} : n = Len(calls) /\ n \in 1 .. Len(calls)
  BY <1>1 DEF InclInv, Types, Fluids, FluidInv, FluidType
<1>3. CASE isThisEndifLine(d_sll)
  <2>1. EndContents(IF d_sll = EndifLine THEN Last(sll) ELSE d_sll \o Last(sll)) /\ meant' = meant
    BY <1>3 DEF TakeDirective
  <2>2. Took \o Last(sll) = IF d_sll = EndifLine THEN Last(sll) ELSE d_sll \o Last(sll)
    <3>1. Last(sll) = sll[n] /\ sll[n] \in Seq(SLine)
      BY <1>2 DEF Last, InclInv, Types, InclType
    <3>2. <<>> \o Last(sll) = Last(sll)
      BY <3>1
    <3>3. d_sll = EndifLine => Took = <<>>
      BY DEF Took
    <3>4. d_sll # EndifLine => Took = d_sll
      BY DEF Took
    <3> QED
      BY <3>2, <3>3, <3>4
  <2>3. EndStep
    BY <2>1, <2>2, <1>1, <1>3 DEF EndStep
  <2> QED
    BY <2>1, <2>3, <1>1, EndKeeps
<1>4. CASE ~isThisEndifLine(d_sll)
  <2>1. /\ sll' = [sll EXCEPT ![Len(sll)] = d_sll \o @]
        /\ inclPhase' = "line" /\ d_sll' = <<>>
        /\ UNCHANGED <<fileState, inclSerialLineNo, result, taken, meant, fluidVars>>
    BY <1>4 DEF TakeDirective
  <2>2. PICK d : d = d_sll
    OBVIOUS
  <2>3. d # EndifLine
    BY <2>2, <1>4 DEF isThisEndifLine
  <2>4. StateStep(ifState) /\ ifState' = ifState
    BY <2>1, <1>1, FluidsStay DEF InclInv
  <2>5. FrameKind(Len(calls)) = "skipped" => NoEndif(d)
    BY <2>2, <2>3, <1>2 DEF InclInv, Types, SkippedFit
  <2>6. AddStep(d)
    BY <2>1, <2>2, <2>4, <2>5, <1>1 DEF AddStep
  <2>7. PICK R : R = Piles
    OBVIOUS
  <2>8. Added(R, d)
    <3>1. PilesFit
      BY PilesType DEF InclInv
    <3>2. Returned = d
      BY <2>2, <2>3, <1>1 DEF Returned, Took
    <3> QED
      BY <3>1, <3>2, <2>7 DEF PilesFit, Added
  <2>9. Stacked(R, inclSerialLineNo') /\ ToSet(taken') = TextsOf(R)
    BY <2>1, <2>7 DEF InclInv, Order
  <2>10. fileState'.codes = fileState.codes /\ meant' = meant
    BY <2>1
  <2> QED
    BY <2>4, <2>6, <2>8, <2>9, <2>10, <1>4, AddKeeps
<1> QED
  BY <1>3, <1>4

-----------------------------------------------------------------------------
(* The includer: its behaviours.                                            *)

\* The list keeps to what is on, whatever is asserted and unasserted.
LEMMA ListKeeps ==
    ASSUME ListFits, [InclNext]_<<fluidVars, inclVars>>
    PROVE  ListFits'
<1>1. CASE UNCHANGED <<localAssertList, turnedOn, again>>
  BY <1>1 DEF ListFits
<1>2. PICK A : localAssertList \in Seq(A)
  BY DEF ListFits
<1>3. PICK s \in Seq(A) : s = localAssertList
  BY <1>2
<1>4. PICK n \in Nat : n = Len(s)
  BY <1>3
<1>5. /\ \A p \in turnedOn : \E i \in 1 .. n : s[i] = p
      /\ \A i \in 1 .. n : s[i] \in turnedOn \cup again
      /\ \A i, j \in 1 .. n : i # j /\ s[i] = s[j] => s[i] \in again
  BY <1>3, <1>4 DEF ListFits, ToSet
<1>6. ASSUME NEW t, NEW B, t \in Seq(B), t = localAssertList',
             \A p \in turnedOn' : \E i \in 1 .. Len(t) : t[i] = p,
             \A i \in 1 .. Len(t) : t[i] \in turnedOn' \cup again',
             \A i, j \in 1 .. Len(t) : i # j /\ t[i] = t[j] => t[i] \in again'
      PROVE  ListFits'
  BY <1>6 DEF ListFits, ToSet
<1>7. ASSUME NEW p, localAssertList' = <<p>> \o s,
             turnedOn' = turnedOn \cup {p}, again' = again \cup (turnedOn \cap {p})
      PROVE  ListFits'
  <2>1. PICK B : B = A \cup {p}
    OBVIOUS
  <2>2. PICK t : t = <<p>> \o s
    OBVIOUS
  <2>3. s \in Seq(B) /\ <<p>> \in Seq(B)
    BY <2>1
  <2>4. /\ t \in Seq(B) /\ Len(t) = n + 1 /\ t[1] = p
        /\ \A i \in 2 .. n + 1 : t[i] = s[i - 1] /\ i - 1 \in 1 .. n
        /\ \A i \in 1 .. n : t[i + 1] = s[i]
    BY <1>4, <2>2, <2>3
  <2>5. \A q \in turnedOn' : \E i \in 1 .. n + 1 : t[i] = q
    <3>1. ASSUME NEW q \in turnedOn  PROVE \E i \in 1 .. n + 1 : t[i] = q
      <4>1. PICK i \in 1 .. n : s[i] = q
        BY <1>5
      <4>2. t[i + 1] = q /\ i + 1 \in 1 .. n + 1
        BY <4>1, <2>4
      <4> QED
        BY <4>2
    <3>2. 1 \in 1 .. n + 1
      OBVIOUS
    <3> QED
      BY <3>1, <3>2, <1>7, <2>4
  <2>6. \A i \in 1 .. n + 1 : i = 1 \/ i \in 2 .. n + 1
    OBVIOUS
  <2>7. \A i \in 1 .. n + 1 : t[i] \in turnedOn' \cup again'
    BY <1>5, <1>7, <2>4, <2>6
  <2>8. ASSUME NEW i \in 2 .. n + 1, t[i] = p  PROVE p \in again'
    <3>1. i - 1 \in 1 .. n /\ s[i - 1] = p
      BY <2>4, <2>8
    <3>2. p \in turnedOn \cup again
      BY <3>1, <1>5
    <3>3. again' = again \cup (turnedOn \cap {p})
      BY <1>7
    <3> QED
      BY <3>2, <3>3
  <2>9. ASSUME NEW i \in 2 .. n + 1, NEW j \in 2 .. n + 1, i # j, t[i] = t[j]
        PROVE  t[i] \in again'
    <3>1. i - 1 \in 1 .. n /\ j - 1 \in 1 .. n /\ i - 1 # j - 1
      BY <2>9
    <3>2. s[i - 1] \in again
      BY <3>1, <2>4, <2>9, <1>5
    <3> QED
      BY <3>2, <2>4, <1>7
  <2>10. \A i, j \in 1 .. n + 1 : i # j /\ t[i] = t[j] => t[i] \in again'
    BY <2>4, <2>6, <2>8, <2>9
  <2>11. t = localAssertList'
    BY <2>2, <1>7
  <2>12. Len(t) = n + 1 /\ t \in Seq(B)
    BY <2>4
  <2> QED
    BY <2>5, <2>7, <2>10, <2>11, <2>12, <1>6, Zenon
<1>8. ASSUME NEW p, localAssertList' = RemoveFirst(s, p),
             turnedOn' = turnedOn \ {p}, again' = again
      PROVE  ListFits'
  <2>1. CASE RemoveFirst(s, p) = s /\ \A i \in 1 .. n : s[i] # p
    <3>1. p \notin turnedOn
      BY <2>1, <1>5
    <3>2. turnedOn' = turnedOn
      BY <3>1, <1>8
    <3> QED
      BY <2>1, <3>2, <1>1, <1>3, <1>8
  <2>2. CASE ~(RemoveFirst(s, p) = s /\ \A i \in 1 .. n : s[i] # p)
    <3>1. PICK t : t = RemoveFirst(s, p)
      OBVIOUS
    <3>2. PICK k \in 1 .. n :
             /\ s[k] = p /\ t \in Seq(A) /\ Len(t) = n - 1
             /\ \A i \in 1 .. n - 1 : t[i] = IF i < k THEN s[i] ELSE s[i + 1]
      BY <2>2, <3>1, <1>4, RemoveFirstIs
    <3>3. ASSUME NEW q \in turnedOn'  PROVE \E i \in 1 .. n - 1 : t[i] = q
      <4>1. PICK i \in 1 .. n : s[i] = q
        BY <1>5, <1>8
      <4>2. i # k
        BY <4>1, <3>2, <1>8
      <4>3. CASE i < k
        BY <4>1, <4>3, <3>2
      <4>4. CASE i > k
        <5>1. i - 1 \in 1 .. n - 1 /\ ~(i - 1 < k) /\ (i - 1) + 1 = i
          BY <4>4
        <5> QED
          BY <5>1, <4>1, <3>2
      <4> QED
        BY <4>2, <4>3, <4>4
    <3>4. PICK f \in [1 .. n - 1 -> 1 .. n] :
             \A i \in 1 .. n - 1 : f[i] = IF i < k THEN i ELSE i + 1
      <4>1. [i \in 1 .. n - 1 |-> IF i < k THEN i ELSE i + 1] \in [1 .. n - 1 -> 1 .. n]
        OBVIOUS
      <4> QED
        BY <4>1
    <3>5. \A i \in 1 .. n - 1 : t[i] = s[f[i]] /\ f[i] \in 1 .. n /\ f[i] # k
      BY <3>2, <3>4
    <3>6. \A i, j \in 1 .. n - 1 : i # j => f[i] # f[j]
      BY <3>4
    <3>7. \A i \in 1 .. n - 1 : t[i] = p => p \in again
      BY <3>2, <3>5, <1>5
    <3>8. \A i \in 1 .. n - 1 : t[i] \in turnedOn' \cup again'
      BY <3>5, <3>7, <1>5, <1>8
    <3>9. \A i, j \in 1 .. n - 1 : i # j /\ t[i] = t[j] => t[i] \in again'
      BY <3>5, <3>6, <1>5, <1>8
    <3> QED
      BY <3>1, <3>2, <3>3, <3>8, <3>9, <1>6, <1>8
  <2> QED
    BY <2>1, <2>2
<1>9. CASE ReadDirective
  <2>1. PICK l : /\ TurnProperty(l)
                 /\ \/ HandlePlain(l) \/ HandleBotched(l) \/ HandleInclude(l)
                    \/ HandleIf(l) \/ HandleElseif(l) \/ HandleElse(l) \/ HandleEndif(l)
    BY <1>9 DEF ReadDirective
  <2>2. CASE HandlePlain(l) /\ INCLUDING /\ l.op = "assert"
    BY <2>1, <2>2, <1>3, <1>7 DEF HandlePlain, TurnProperty
  <2>3. CASE HandlePlain(l) /\ INCLUDING /\ l.op = "unassert"
    BY <2>1, <2>3, <1>3, <1>8 DEF HandlePlain, TurnProperty
  <2>4. CASE HandlePlain(l) /\ ~(INCLUDING /\ l.op \in {"assert", "unassert"})
    BY <2>1, <2>4, <1>1 DEF HandlePlain, TurnProperty
  <2>5. CASE ~HandlePlain(l)
    <3>1. l.op \notin {"assert", "unassert"} /\ UNCHANGED localAssertList
      BY <2>1, <2>5 DEF HandleBotched, HandleInclude, HandleIf, HandleElseif, HandleElse,
                        HandleEndif
    <3> QED
      BY <2>1, <3>1, <1>1 DEF TurnProperty
  <2> QED
    BY <2>2, <2>3, <2>4, <2>5 DEF HandlePlain
<1>10. CASE IncludeFile \/ ReadText \/ ReadEof \/ TakeDirective
  BY <1>10, <1>1 DEF IncludeFile, ReadText, ReadEof, TakeDirective, EndContents, properties
<1>11. CASE UNCHANGED <<fluidVars, inclVars>>
  BY <1>11, <1>1 DEF inclVars, properties
<1> QED
  BY <1>9, <1>10, <1>11 DEF InclNext

\* Nothing is read yet.
LEMMA InclInitially ==
    ASSUME \E value \in [FluidVars -> FluidValues] : FluidInit(value), InclInit
    PROVE  InclInv /\ ListFits
<1>1. PICK value \in [FluidVars -> FluidValues] : FluidInit(value)
  OBVIOUS
<1>2. value \in [FluidVars -> Val]
  BY DEF Val
<1>3. Fluids
  BY <1>1, <1>2, FluidInitially DEF Fluids
<1>4. /\ calls = <<>> /\ sll = <<>> /\ d_sll = <<>> /\ result = <<>> /\ taken = <<>>
      /\ meant = <<>> /\ inclPhase = "idle" /\ inclSerialLineNo = 0
      /\ fileState = [file |-> Main, pos |-> 0, codes |-> <<>>]
  BY <1>1 DEF FluidInit, InclInit, NoFile
<1>5. fileState \in FileState /\ fileState.codes = <<>>
  BY <1>4, InclConstants DEF FileState
<1>6. InclType
  BY <1>4, <1>5 DEF InclType
<1>7. Types
  BY <1>3, <1>4, <1>6 DEF Types, FramesFit, StatesFit, SkippedFit
<1>8. Control
  <2>1. <<>> \in Seq(Nat) /\ Len(<<>>) = 0 /\ <<>> \in Seq(Seq(Condition))
    OBVIOUS
  <2>2. Len(calls) = 0 /\ Open = 0 /\ meant = <<>>
    BY <1>4 DEF Open
  <2>3. Nested(<<>>, 0, Kinds, Depths)
    BY <2>1 DEF Nested
  <2>4. MeantFits(<<>>, 0, <<>>, Kinds, States)
    BY <2>1 DEF MeantFits
  <2>5. ControlAt(<<>>)
    BY <2>1, <2>2, <2>3, <2>4, <1>5 DEF ControlAt
  <2> QED
    BY <2>1, <2>5 DEF Control
<1>9. Order
  <2>1. PICK P : P = Piles
    OBVIOUS
  <2>2. PilesFit
    BY <1>7, PilesType
  <2>3. Returned = <<>> /\ Len(calls) = 0
    BY <1>4 DEF Returned
  <2>4. Len(P) = 1 /\ P[1] = <<>>
    BY <2>1, <2>2, <2>3 DEF PilesFit
  <2>5. Stacked(P, 0)
    BY <2>4, NoLines DEF Stacked
  <2>6. TextsOf(P) = {}
    BY <2>4, NoLines DEF TextsOf
  <2>7. ToSet(taken) = {}
    BY <1>4 DEF ToSet
  <2> QED
    BY <2>1, <2>5, <2>6, <2>7, <1>4 DEF Order
<1>10. ListFits
  <2>1. <<>> \in Seq({}) /\ ToSet(<<>>) = {} /\ Len(<<>>) = 0
    BY DEF ToSet
  <2> QED
    BY <2>1 DEF ListFits, InclInit
<1> QED
  BY <1>7, <1>8, <1>9, <1>10 DEF InclInv

\* Every step keeps the invariant, and restores what it unbinds.
LEMMA InclStepKeeps ==
    ASSUME InclInv, ListFits, [InclNext]_<<fluidVars, inclVars>>
    PROVE  Kept
<1>1. CASE InclNext
  BY <1>1, IncludeFileKeeps, ReadTextKeeps, ReadDirectiveKeeps, ReadEofKeeps,
     TakeDirectiveKeeps DEF InclNext
<1>2. CASE UNCHANGED <<fluidVars, inclVars>>
  <2>1. Restores
    <3>1. calls' = calls /\ Len(calls) \in Nat
      BY <1>2 DEF fluidVars, InclInv, Types, Fluids, FluidInv, FluidType
    <3>2. ~ Len(calls') < Len(calls)
      BY <3>1
    <3> QED
      BY <3>2 DEF Restores
  <2>2. InclInv'
    <3>1. /\ UNCHANGED <<global, fluidStack, scopeLevel, calls, improper>>
          /\ UNCHANGED <<fileState, inclSerialLineNo, sll, d_sll, inclPhase, result, taken, meant>>
      BY <1>2 DEF fluidVars, inclVars
    <3>2. Fluids'
      BY <3>1 DEF InclInv, Types, Fluids, FluidInv, FluidType, SavedWas, CellsFit, MarksFit,
                  LevelsFit
    <3>3. InclType' /\ FramesFit' /\ StatesFit' /\ SkippedFit'
      BY <3>1 DEF InclInv, Types, InclType, FramesFit, StatesFit, SkippedFit, FrameKind, StateIn,
                  ifState, NoEndif
    <3>4. Control'
      BY <3>1 DEF InclInv, Control, ControlAt, Kinds, States, Depths, Open, StateIn, FrameKind,
                  ifState, isThisEndifLine, EndifLine
    <3>5. Order'
      BY <3>1 DEF InclInv, Order, Piles, Pile, Returned, Took, FrameKind
    <3> QED
      BY <3>2, <3>3, <3>4, <3>5 DEF InclInv, Types
  <2> QED
    BY <2>1, <2>2 DEF Kept
<1> QED
  BY <1>1, <1>2

\* What is returned at the end.
LEMMA DoneRight ==
    ASSUME Types, Order, inclPhase = "done"
    PROVE  /\ \A i \in 1 .. Len(result) - 1 : result[i].serial < result[i + 1].serial
           /\ {sl.serial : sl \in {l \in ToSet(result) : l.op = "text"}} = ToSet(taken)
<1>1. Len(calls) = 0 /\ result \in Seq(SLine)
  BY DEF Types, InclType
<1>2. PICK P : P = Piles
  OBVIOUS
<1>3. PICK s : s = Reverse(result)
  OBVIOUS
<1>4. PICK n \in Nat : n = Len(result)
  BY <1>1
<1>5. s \in Seq(SLine) /\ Len(s) = n /\ \A i \in 1 .. n : s[i] = result[n - i + 1]
  BY <1>1, <1>3, <1>4 DEF Reverse
<1>6. Len(P) = 1 /\ P[1] = s
  <2>1. PilesFit
    BY PilesType
  <2>2. Returned = s
    BY <1>3 DEF Returned
  <2> QED
    BY <2>1, <2>2, <1>1, <1>2 DEF PilesFit
<1>7. Falling(s) /\ ToSet(taken) = TextsOf(P)
  BY <1>2, <1>6 DEF Order, Stacked
<1>8. ASSUME NEW i \in 1 .. n - 1
      PROVE  result[i].serial < result[i + 1].serial
  <2>1. PICK h \in 1 .. n : h = n - i /\ h + 1 \in 1 .. n /\ h < h + 1
    OBVIOUS
  <2>2. s[h] = result[i + 1] /\ s[h + 1] = result[i]
    <3>1. s[h] = result[n - h + 1] /\ s[h + 1] = result[n - (h + 1) + 1]
      BY <2>1, <1>5
    <3>2. n - h + 1 = i + 1 /\ n - (h + 1) + 1 = i
      BY <2>1
    <3> QED
      BY <3>1, <3>2
  <2> QED
    BY <2>1, <2>2, <1>5, <1>7 DEF Falling
<1>9. ToSet(s) = ToSet(result)
  <2>1. DOMAIN s = 1 .. n /\ DOMAIN result = 1 .. n
    BY <1>1, <1>4, <1>5
  <2>2. ASSUME NEW i \in 1 .. n  PROVE \E h \in 1 .. n : result[i] = s[h]
    <3>1. PICK h \in 1 .. n : h = n - i + 1 /\ n - h + 1 = i
      OBVIOUS
    <3> QED
      BY <3>1, <1>5
  <2>3. ASSUME NEW i \in 1 .. n  PROVE \E h \in 1 .. n : s[i] = result[h]
    <3>1. n - i + 1 \in 1 .. n
      OBVIOUS
    <3> QED
      BY <3>1, <1>5
  <2>4. PICK r : r = result
    OBVIOUS
  <2>5. ToSet(s) = {s[i] : i \in 1 .. n} /\ ToSet(r) = {r[i] : i \in 1 .. n}
    BY <2>1, <2>4 DEF ToSet
  <2>6. {s[i] : i \in 1 .. n} \subseteq {r[i] : i \in 1 .. n}
    BY <2>3, <2>4
  <2>7. {r[i] : i \in 1 .. n} \subseteq {s[i] : i \in 1 .. n}
    BY <2>2, <2>4
  <2> QED
    BY <2>4, <2>5, <2>6, <2>7
<1>10. TextsOf(P) = TextOf(s)
  BY <1>6 DEF TextsOf
<1>11. TextOf(s) = {sl.serial : sl \in {l \in ToSet(result) : l.op = "text"}}
  BY <1>9 DEF TextOf
<1> QED
  BY <1>4, <1>7, <1>8, <1>10, <1>11

\* The invariant says what is wanted.
LEMMA InvReadsRight ==
    ASSUME InclInv
    PROVE  ReadsRight
<1>1. CASE inclPhase = "line"
  <2>1. /\ Len(meant) = Len(fileState.codes)
        /\ Even(Here, Len(Here)) => (INCLUDING <=> Wanted(Here, Len(Here)))
    BY <1>1, LineRight DEF InclInv
  <2> QED
    BY <2>1, <1>1 DEF ReadsRight, Even, Wanted
<1>2. CASE inclPhase = "done"
  BY <1>2, DoneRight DEF ReadsRight, InclInv
<1> QED
  BY <1>1, <1>2 DEF ReadsRight

\* Whatever the files hold, however deep they are nested and wherever they
\* leave off: where a line is read the state of the innermost #if is what all
\* the conditions of its file say, and at the end all the text that was read
\* where lines counted is there, in order.
THEOREM ReadsRightHolds == InclSpec => []ReadsRight
<1>1. (\E value \in [FluidVars -> FluidValues] : FluidInit(value)) /\ InclInit => InclInv /\ ListFits
  BY InclInitially
<1>2. InclInv /\ ListFits /\ [InclNext]_<<fluidVars, inclVars>> => (InclInv /\ ListFits)'
  BY InclStepKeeps, ListKeeps DEF Kept
<1>3. InclInv => ReadsRight
  BY InvReadsRight
<1> QED
  BY <1>1, <1>2, <1>3, PTL DEF InclSpec

\* The includer is a client that leaves its fluid variables as they were: every
\* frame of an #if or of a file puts back the state of the one around it, and
\* none is taken for an improper return.
THEOREM InclFluidsCorrect == InclSpec => FluidsRestored
<1>1. (\E value \in [FluidVars -> FluidValues] : FluidInit(value)) /\ InclInit => InclInv /\ ListFits
  BY InclInitially
<1>2. InclInv /\ ListFits /\ [InclNext]_<<fluidVars, inclVars>> => (InclInv /\ ListFits)'
  BY InclStepKeeps, ListKeeps DEF Kept
<1>3. InclInv /\ ListFits /\ [InclNext]_<<fluidVars, inclVars>> =>
          [Restores /\ ~improper']_fluidVars
  <2>1. InclInv /\ ListFits /\ [InclNext]_<<fluidVars, inclVars>> => Kept
    BY InclStepKeeps
  <2>2. Kept => Restores /\ improper' = FALSE
    BY DEF Kept, InclInv, Types, Fluids, FluidInv, FluidType
  <2> QED
    BY <2>1, <2>2
<1> QED
  BY <1>1, <1>2, <1>3, PTL DEF InclSpec, FluidsRestored, Restores

=============================================================================
