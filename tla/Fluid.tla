------------------------------- MODULE Fluid -------------------------------
(* Dynamically scoped variables, fluid.c and the macros of fluid.h.         *)
(*                                                                          *)
(* A function that says Scope and fluid(v) saves v in a slot of its own     *)
(* frame and leaves a cell on fluidStack that knows variable and slot.  Its *)
(* Return, or a LongJmp over it, puts the saved values back.  The frames of *)
(* the functions in progress are the sequence "calls"; what a client keeps  *)
(* in a frame of its own is the field "own".                                *)
EXTENDS Integers, Sequences, SequencesExt, FiniteSets

CONSTANTS
    FluidVars,   \* the global variables that are bound somewhere
    FluidValues, \* the values a client of this module assigns to them
    NoJmp,       \* no SetJmp yet in a frame
    MaxScopes,   \* bound: frames of such a client
    MaxFluidOps  \* bound: steps of such a client other than Return

ASSUME FluidConstants == IsFiniteSet(FluidVars)

VARIABLES
    global,      \* [variable -> its value]
    fluidStack,  \* the cells
    scopeLevel,
    calls,       \* the frames, outermost first
    improper,    \* "Improper return from scope" was reported
    fluidOps     \* steps of a client of this module so far

fluidVars == <<global, fluidStack, scopeLevel, calls, improper, fluidOps>>

FluidInit(value) ==
    /\ global = value
    /\ fluidStack = <<>> /\ scopeLevel = 0 /\ calls = <<>>
    /\ improper = FALSE /\ fluidOps = 0

fluidLevel == Len(fluidStack)

\* Scope, then fluid(v) for each v in vs; in a frame that keeps "own".  The
\* field "was" is not in the code: the variables when the function was called.
Scope(vs, own, value) ==
    LET f == Len(calls) + 1
    IN /\ scopeLevel' = scopeLevel + 1
       /\ calls' = Append(calls, [level0 |-> fluidLevel, saved |-> [v \in ToSet(vs) |-> global[v]],
                                  jmp |-> NoJmp, was |-> global, own |-> own])
       /\ fluidStack' = fluidStack \o [i \in 1 .. Len(vs) |->
                            [level |-> scopeLevel + 1, var |-> vs[i], frame |-> f]]
       /\ global' = value
       /\ UNCHANGED improper

\* fluidUnwind's loop goes from the last cell down to toCell: of several cells
\* of a variable the first has the last word.
\* Mutant of LastWord: from the first cell up.
WordUpwards(cells) == CHOOSE i \in cells : \A j \in cells : j <= i
LastWord(cells) == CHOOSE i \in cells : \A j \in cells : i <= j

CellsOf(v, toCell) == {i \in toCell + 1 .. fluidLevel : fluidStack[i].var = v}
Restored(toCell) ==
    [v \in FluidVars |->
        LET cells == CellsOf(v, toCell) IN
        IF cells = {} THEN global[v]
        ELSE calls[fluidStack[LastWord(cells)].frame].saved[v]]

fluidUnwind(toCell, isLongJmp) ==
    /\ global' = Restored(toCell)
    /\ improper' = (improper \/ \E i \in toCell + 1 .. fluidLevel :
                        \/ scopeLevel < fluidStack[i].level
                        \/ scopeLevel > fluidStack[i].level /\ ~isLongJmp)
    /\ fluidStack' = SubSeq(fluidStack, 1, toCell)
    /\ scopeLevel' = IF toCell > 0 THEN fluidStack[toCell].level ELSE 0

Return ==
    /\ calls # <<>>
    /\ fluidUnwind(Last(calls).level0, FALSE)
    /\ calls' = Front(calls)

-----------------------------------------------------------------------------
(* Any client: functions that bind some variables or none, assign to any,   *)
(* and return or jump to a function in progress that has said SetJmp.       *)

FluidOp == fluidOps < MaxFluidOps /\ fluidOps' = fluidOps + 1

ClientCall ==
    /\ FluidOp /\ Len(calls) < MaxScopes
    /\ \E vs \in SetToAllKPermutations(FluidVars) : Scope(vs, {}, global)

ClientAssign ==
    /\ FluidOp /\ calls # <<>>
    /\ \E v \in FluidVars, x \in FluidValues : global' = [global EXCEPT ![v] = x]
    /\ UNCHANGED <<fluidStack, scopeLevel, calls, improper>>

ClientReturn == Return /\ UNCHANGED fluidOps

\* SetJmp is said once in a function, as in the loops of axlcomp.c.
ClientSetJmp ==
    /\ FluidOp /\ calls # <<>> /\ Last(calls).jmp = NoJmp
    /\ calls' = [calls EXCEPT ![Len(calls)].jmp = fluidLevel]
    /\ UNCHANGED <<global, fluidStack, scopeLevel, improper>>

ClientLongJmp ==
    /\ FluidOp
    /\ \E f \in 1 .. Len(calls) :
        /\ calls[f].jmp # NoJmp
        /\ fluidUnwind(calls[f].jmp, TRUE)
        /\ calls' = SubSeq(calls, 1, f)

FluidNext == ClientCall \/ ClientAssign \/ ClientReturn \/ ClientSetJmp \/ ClientLongJmp
FluidSpec ==
    (\E value \in [FluidVars -> FluidValues] : FluidInit(value)) /\ [][FluidNext]_fluidVars

-----------------------------------------------------------------------------
\* When functions are left, by Return or by LongJmp over several, a variable
\* that some of them had bound is again what it was when the outermost of these
\* was called, every other variable keeps its value, and what fluidUnwind calls
\* an improper return is never seen: not after scopes that bind nothing either,
\* whose level no cell records.
FluidsRestored ==
    [][/\ Len(calls') < Len(calls) =>
            \A v \in FluidVars :
                LET bound == {f \in Len(calls') + 1 .. Len(calls) : v \in DOMAIN calls[f].saved}
                IN global'[v] = IF bound = {} THEN global[v]
                                ELSE calls[CHOOSE f \in bound : \A h \in bound : f <= h].was[v]
       /\ ~improper']_fluidVars
=============================================================================
