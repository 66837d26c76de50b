------------------------------- MODULE Dflow -------------------------------
(* Data-flow analysis by iteration, dflow.c, with the entries and reference *)
(* counts of flog.c that say which blocks take part.                        *)
(*                                                                          *)
(* A problem is a flow graph (the exits of each block; block 1 is block0),  *)
(* the facts each block makes (gen) and each of its exits undoes (kill), a  *)
(* direction and a type of equations, what the caller's dflowInit puts into *)
(* the "in" of block0, and the cutoff.  A bit vector is a set of facts.     *)
EXTENDS Integers, Sequences, FiniteSets, SequencesExt, FiniteSetsExt

CONSTANTS
    Graphs,    \* flow graphs: for each block the sequence of its exits
    Facts,
    CutOffs

Blocks(g) == 1 .. Len(g)

ASSUME DflowConstants ==
    /\ \A g \in Graphs : Len(g) > 0 /\ \A b \in Blocks(g) : g[b] \in Seq(Blocks(g))
    /\ CutOffs \subseteq Nat

VARIABLES
    flog,      \* the problem
    entries,   \* [block -> the exits that lead to it], after flogFixEntries
    dfIn,      \* [block -> its "in"]
    nchanged,  \* n, what dflowFwdStep or dflowRevStep returned, or -1
    count,     \* i
    dfPhase    \* "idle", "iterate" or "done"

dflowVars == <<flog, entries, dfIn, nchanged, count, dfPhase>>

ExitsOf(g) == {<<b, j>> : b \in Blocks(g), j \in 1 .. 1 + Len(g)}

\* Dataflow is per exit, or per block with the exit 1 for all; backwards it is
\* never per exit, and only a union is given a start.
Kinds ==
    {k \in [dir : {"Fwd", "Rev"}, type : {"Union", "Intersection"},
            dfIsPerExit : BOOLEAN, start : SUBSET Facts] :
        /\ k.dir = "Rev" => ~k.dfIsPerExit
        /\ k.dir = "Rev" \/ k.type = "Intersection" => k.start = {}}

Problem(g, kind, gen, kill, cutoff) ==
    [exits |-> g, dir |-> kind.dir, type |-> kind.type, dfIsPerExit |-> kind.dfIsPerExit,
     start |-> kind.start, gen |-> gen, kill |-> kill, cutoff |-> cutoff]

\* The exits that undo something in graph g, one for each block or each.
KillExits(g, perExit) ==
    {e \in ExitsOf(g) : e[2] = 1 \/ (perExit /\ e[2] <= Len(g[e[1]]))}

DflowWith(p) ==
    /\ flog = p
    /\ entries = [b \in Blocks(p.exits) |-> {}]
    /\ dfIn = [b \in Blocks(p.exits) |-> {}]
    /\ nchanged = -1 /\ count = 0 /\ dfPhase = "idle"

DflowInit ==
    \E g \in Graphs, kind \in Kinds, cutoff \in CutOffs :
    \E gen \in [Blocks(g) -> SUBSET Facts],
       kill \in SUBSET (KillExits(g, kind.dfIsPerExit) \X Facts) :
        DflowWith(Problem(g, kind, gen, kill, cutoff))

\* flogFixRefCounts marks the blocks with a path from block0.
Reached[k \in Nat] ==
    IF k = 0 THEN {1}
    ELSE LET r == Reached[k - 1] IN r \cup UNION {ToSet(flog.exits[b]) : b \in r}

\* flogFixEntries: the exits of marked blocks are the entries of others.
FixedEntries(marked) ==
    [d \in DOMAIN entries |->
        {e \in ExitsOf(flog.exits) : /\ e[1] \in marked /\ e[2] <= Len(flog.exits[e[1]])
                                     /\ flog.exits[e[1]][e[2]] = d}]

\* The blocks that take part.
Live(ent) == {b \in DOMAIN ent : b = 1 \/ ent[b] # {}}

Exits(b) == 1 .. Len(flog.exits[b])
Kill(b, j) == {f \in Facts : <<<<b, IF flog.dfIsPerExit THEN j ELSE 1>>, f>> \in flog.kill}
Union == flog.type = "Union"
Clear == IF Union THEN {} ELSE Facts
Meet(S, T) == IF Union THEN S \cup T ELSE S \cap T
MeetAll(base, sets) == FoldSet(Meet, base, sets)

\* dflowFwdInit, dflowRevInit, and the caller's dflowInit.
\* Mutant of Initial: an intersection starts from nothing.
InitialClear(b, ent) == IF flog.dir = "Fwd" /\ b = 1 THEN flog.start ELSE {}
Initial(b, ent) ==
    IF b \notin Live(ent) THEN {}
    ELSE IF flog.dir = "Fwd" /\ b = 1 THEN flog.start
    ELSE Clear

DflowStart ==
    /\ dfPhase = "idle"
    /\ \E marked \in {Reached[Len(flog.exits)]} : \E ent \in {FixedEntries(marked)} :
        /\ entries' = ent
        /\ \E in \in {[b \in DOMAIN dfIn |-> Initial(b, ent)]} : dfIn' = in
    /\ dfPhase' = "iterate"
    /\ UNCHANGED <<flog, nchanged, count>>

-----------------------------------------------------------------------------
(* One round, which gives the new "in" sets.                                *)

Out(b, j, in) == (in[b] \cup flog.gen[b]) \ Kill(b, j)

\* dflowFwdStep: all "out" first, then each "in" from the blocks before; the
\* "in" of block0 is not cleared.
FwdStep(in) ==
    [d \in DOMAIN in |->
        IF d \in Live(entries)
        THEN MeetAll(IF d = 1 THEN in[d] ELSE Clear, {Out(e[1], e[2], in) : e \in entries[d]})
        ELSE in[d]]

\* dflowRevStep: block after block, each seeing what was done before it.
RevIn(b, in) ==
    flog.gen[b] \cup (MeetAll(Clear, {in[flog.exits[b][j]] : j \in Exits(b)}) \ Kill(b, 1))
RevStep(in) ==
    FoldLeft(LAMBDA s, b : IF b \in Live(entries) THEN [s EXCEPT ![b] = RevIn(b, s)] ELSE s,
             in, [b \in 1 .. Len(flog.exits) |-> b])

Step(in) == IF flog.dir = "Fwd" THEN FwdStep(in) ELSE RevStep(in)
Changed(in, new) == Cardinality({b \in Live(entries) : new[b] # in[b]})

\* dflowFwdIterate leaves its loop before counting the round without changes,
\* dflowRevIterate counts it.
Round ==
    /\ dfPhase = "iterate" /\ count < flog.cutoff
    /\ \E new \in {Step(dfIn)} : \E n \in {Changed(dfIn, new)} :
        /\ dfIn' = new
        /\ nchanged' = n
        /\ count' = IF n = 0 /\ flog.dir = "Fwd" THEN count ELSE count + 1
        /\ dfPhase' = IF n = 0 THEN "done" ELSE "iterate"
    /\ UNCHANGED <<flog, entries>>

CutOff ==
    /\ dfPhase = "iterate" /\ count = flog.cutoff
    /\ dfPhase' = "done"
    /\ UNCHANGED <<flog, entries, dfIn, nchanged, count>>

DflowNext == DflowStart \/ Round \/ CutOff

-----------------------------------------------------------------------------
(* The equations, and their solutions over the blocks that take part.       *)

Equation(b, in) ==
    IF flog.dir = "Rev" THEN RevIn(b, in)
    ELSE MeetAll(IF b = 1 THEN flog.start ELSE Clear,
                 {Out(e[1], e[2], in) : e \in entries[b]})
Solves(in) == \A b \in Live(entries) : in[b] = Equation(b, in)

\* A result of 0, on which the optimisers go ahead, means that the "in" sets
\* are the best solution of the equations, the least for a union and the
\* greatest for an intersection: neither the first guess, nor blocks that
\* cannot be reached, nor rounds that see half of the new sets leave anything
\* behind.  A cutoff above the number of sets' bits is never what ends it.
AnswersBest ==
    dfPhase = "done" =>
        /\ nchanged = 0 =>
            /\ Solves(dfIn)
            /\ \A in \in [Live(entries) -> SUBSET Facts] :
                Solves(in) => \A b \in Live(entries) : IF Union THEN dfIn[b] \subseteq in[b]
                                              ELSE in[b] \subseteq dfIn[b]
        /\ flog.cutoff > Cardinality(Live(entries)) * Cardinality(Facts) => nchanged = 0
=============================================================================
