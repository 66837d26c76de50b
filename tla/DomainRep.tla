----------------------------- MODULE DomainRep -----------------------------
(* The run-time representation of domains: lib/libfoam/al/aldordomainrep.as *)
(* with the calls that domain.as and runtime.as make of it, and the order   *)
(* in which the code that gf_add.c generates for a domain calls it.         *)
(*                                                                          *)
(* A domain is lazy.  Its function f1 sets the hash code and gives f2; f2   *)
(* opens the export table, finds the parent, and runs the body of the "add" *)
(* from top to bottom, each export being entered after its value is there.  *)
(* Looking up an export runs what is missing of these, and they look up     *)
(* exports in turn, also of domains that are still being built.             *)
(*                                                                          *)
(* The calls in progress are the sequence "todo" of what is still to be     *)
(* done, innermost first; "found" is the box that the last look-up          *)
(* returned.  An ERROR drops all of them: the client may go on.             *)
EXTENDS Integers, Sequences, SequencesExt, FiniteSets

CONSTANTS
    MaxDom,      \* the domains of a program are numbered up to this
    Exp,         \* names of exports, with their types
    PcentPcent,  \* the export "%%", which names the domain itself
    Self,        \* % in the body of a domain
    None,        \* no domain, or a null box
    Programs,    \* the programs considered
    GetLimit,    \* how often one domain may be asked in a nest of look-ups
    MaxCalls     \* bound: look-ups by the client

(* A program gives for each domain                                          *)
(*   base      the domain it adds to, or None                               *)
(*   defaults  the exports its category has defaults for                    *)
(*   hashing   what computing its hash code asks of others                  *)
(*   body      the statements of its body                                   *)
(*   extends   the domains it puts together, if it is an extend             *)
Dom == 1 .. MaxDom
Ops == {"define", "get", "test", "hash"}
Statement(doms) == [op : Ops, dom : doms \cup {Self}, exp : Exp]
Program(doms) ==
    [base : [doms -> doms \cup {None}], defaults : [doms -> SUBSET Exp],
     hashing : [doms -> Seq(Statement(doms))], body : [doms -> Seq(Statement(doms))],
     extends : [doms -> Seq(doms)]]

ASSUME DomainConstants ==
    /\ MaxDom \in Nat \ {0}
    /\ PcentPcent \in Exp
    /\ Self \notin Dom /\ None \notin Dom
    /\ \A p \in Programs : \E n \in Dom : p \in Program(1 .. n)
    /\ GetLimit \in Nat \ {0}
    /\ MaxCalls \in Nat

VARIABLES
    prog,      \* the program that runs
    reps,      \* the records of AldorDomainRep, by address
    todo,      \* what the calls in progress have still to do
    found,     \* the box: who provides the export, or None
    left,      \* [record -> look-ups that an ERROR has left in it]
    lookups    \* look-ups of the client so far

domainVars == <<prog, reps, todo, found, left, lookups>>

-----------------------------------------------------------------------------
(* Records.                                                                *)

\* new: dom's code is run for the record.  orig and child are what inheritTo
\* was called with, None for the domain itself; hashed says that f2 is there,
\* opened that names is; built is not in the code: the body has been run.
NewRep(d, orig, child) ==
    [dom |-> d, orig |-> orig, child |-> child, hashed |-> FALSE,
     opened |-> FALSE, built |-> FALSE, exports |-> {}, defaults |-> {},
     parents |-> <<>>, extendees |-> <<>>, ngets |-> 0]

\* The record goes with extendDispatchVector.
IsExtend(r) == prog.extends[reps[r].dom] # <<>>

\* What there is to do.
Do(what, r) == [do |-> what, rep |-> r]
Look(what, r, e, skip) == [do |-> what, rep |-> r, exp |-> e, skip |-> skip]
Top == Head(todo)
Rest == Tail(todo)

\* What a statement of domain r's code calls: gen0InitExport tests before it
\* forces, other uses of an export need it.
Task(r, s) ==
    LET q == IF s.dom = Self THEN r ELSE s.dom IN
    CASE s.op = "define" -> Look("define", r, s.exp, FALSE)
      [] s.op = "get"    -> Look("getExport", q, s.exp, FALSE)
      [] s.op = "test"   -> Look("testExport", q, s.exp, FALSE)
      [] s.op = "hash"   -> Do("getHash", q)
Code(r, statements) == [i \in DOMAIN statements |-> Task(r, statements[i])]

DomainWith(program) ==
    /\ prog = program
    /\ reps = [d \in DOMAIN prog.base |-> NewRep(d, None, None)]
    /\ todo = <<>>
    /\ found = None
    /\ left = [r \in DOMAIN prog.base |-> 0]
    /\ lookups = 0
DomainInit == \E program \in Programs : DomainWith(program)

\* inheritTo for each of doms: new records, each to be made from its original
\* for the child r when it is first asked.
Clones(doms, r) ==
    [i \in DOMAIN doms |-> NewRep(reps[doms[i]].dom, doms[i], r)]
Addresses(n) == [i \in 1 .. n |-> Len(reps) + i]

\* ERROR: every call in progress is left where it is.
Depth(r) == Cardinality({i \in DOMAIN todo : todo[i].do = "endget" /\ todo[i].rep = r})
Error ==
    /\ todo' = <<>>
    /\ found' = None
    /\ left' = [r \in DOMAIN left |-> left[r] + Depth(r)]

-----------------------------------------------------------------------------
(* Preparing a domain.                                                     *)

\* prepareGetter!: first the hash code, then the table if it is not there.
PrepareGetter(r) == <<Do("prepareHash", r), Do("build", r)>>

\* getHash! through the dispatch vector: an extend has the hash code of the
\* first domain it extends.
getHash ==
    LET r == Top.rep IN
    /\ todo # <<>> /\ Top.do = "getHash"
    /\ todo' = <<Do("prepareHash", r)>>
               \o (IF IsExtend(r) THEN <<Do("firstHash", r)>> ELSE <<>>) \o Rest
    /\ UNCHANGED <<prog, reps, found, left, lookups>>

firstHash ==
    LET pars == reps[Top.rep].parents IN
    /\ todo # <<>> /\ Top.do = "firstHash"
    /\ todo' = (IF pars = <<>> THEN <<>> ELSE <<Do("getHash", Head(pars))>>) \o Rest
    /\ UNCHANGED <<prog, reps, found, left, lookups>>

\* prepareHash! runs f1 unless f2 is there.
prepareHash ==
    LET r == Top.rep IN
    /\ todo # <<>> /\ Top.do = "prepareHash"
    /\ reps[r].hashed \/ ~(IsExtend(r) /\ reps[r].orig = None)
    /\ todo' =
         (IF reps[r].hashed THEN <<>>
          ELSE IF reps[r].orig = None
          THEN Code(r, prog.hashing[reps[r].dom]) \o <<Do("hashed", r)>>
          ELSE IF IsExtend(r)
          THEN <<Do("prepareHash", reps[r].orig), Do("expand", r)>>
          ELSE <<Do("prepareHash", reps[r].orig), Do("getHash", reps[r].child),
                 Do("expand", r)>>) \o Rest
    /\ UNCHANGED <<prog, reps, found, left, lookups>>

\* f1 of an extend is extendFill!, which makes the other domains extendees of
\* the first.  It returns Nil for f2, so that it is run again each time.
extendFill ==
    LET r == Top.rep
        pars == prog.extends[reps[r].dom]
    IN  /\ todo # <<>> /\ Top.do = "prepareHash"
        /\ IsExtend(r) /\ reps[r].orig = None /\ ~reps[r].hashed
        /\ reps' = [reps EXCEPT ![r].parents = pars,
                                ![Head(pars)].extendees = Tail(pars)]
        /\ todo' = Rest
        /\ UNCHANGED <<prog, found, left, lookups>>

\* f1 of a domain of the program returns f2.
Hashed ==
    /\ todo # <<>> /\ Top.do = "hashed"
    /\ reps' = [reps EXCEPT ![Top.rep].hashed = TRUE]
    /\ todo' = Rest
    /\ UNCHANGED <<prog, found, left, lookups>>

\* The rest of expandInherited and expandExtend: what the original has so far
\* is inherited for the child.
Expand ==
    LET r == Top.rep
        o == reps[r].orig
        pars == IF IsExtend(r) THEN reps[o].parents ELSE <<>>
        exts == reps[o].extendees
        new == Clones(pars \o exts, reps[r].child)
        at == Addresses(Len(new))
    IN  /\ todo # <<>> /\ Top.do = "expand"
        /\ reps' = [reps EXCEPT ![r].hashed = TRUE,
                                ![r].parents = SubSeq(at, 1, Len(pars)),
                                ![r].extendees = SubSeq(at, Len(pars) + 1, Len(at))]
                   \o new
        /\ left' = left \o [i \in DOMAIN new |-> 0]
        /\ todo' = Rest
        /\ UNCHANGED <<prog, found, lookups>>

\* Mutant of Open: the table is not entered before the body is run.
OpenLate(r) ==
    /\ reps' = [reps EXCEPT ![r].exports = {},
                            ![r].defaults = prog.defaults[reps[r].dom]]
    /\ left' = left
    /\ todo' = Code(r, prog.body[reps[r].dom]) \o <<Do("built", r)>> \o Rest
    /\ UNCHANGED <<prog, found, lookups>>

\* f2, up to the body: addExports!, addDefaults! and addParents!.  f2 is only
\* called when there are no names.
Open(r) ==
    LET b == prog.base[reps[r].dom]
        new == IF b = None THEN <<>> ELSE Clones(<<b>>, r)
    IN  /\ reps' = [reps EXCEPT ![r].opened = TRUE,
                                ![r].exports = {},
                                ![r].defaults = prog.defaults[reps[r].dom],
                                ![r].parents = Addresses(Len(new))]
                   \o new
        /\ left' = left \o [i \in DOMAIN new |-> 0]
        /\ todo' = Code(r, prog.body[reps[r].dom]) \o <<Do("built", r)>> \o Rest
        /\ UNCHANGED <<prog, found, lookups>>

Build ==
    /\ todo # <<>> /\ Top.do = "build"
    /\ ~reps[Top.rep].opened
    /\ Open(Top.rep)

Prepared ==
    /\ todo # <<>> /\ Top.do = "build"
    /\ reps[Top.rep].opened
    /\ todo' = Rest
    /\ UNCHANGED <<prog, reps, found, left, lookups>>

\* The statements of the body that enter an export, and its end.
Define ==
    /\ todo # <<>> /\ Top.do = "define"
    /\ reps' = [reps EXCEPT ![Top.rep].exports = @ \cup {Top.exp}]
    /\ todo' = Rest
    /\ UNCHANGED <<prog, found, left, lookups>>

Built ==
    /\ todo # <<>> /\ Top.do = "built"
    /\ reps' = [reps EXCEPT ![Top.rep].built = TRUE]
    /\ todo' = Rest
    /\ UNCHANGED <<prog, found, left, lookups>>

-----------------------------------------------------------------------------
(* Looking up an export.                                                   *)

\* getExport0!, with a fresh box; getExport! needs what it answers.
getExport0 ==
    LET t == Top
        after == IF t.do = "getExport" THEN Do("need", t.rep)
                 ELSE Look("force", t.rep, t.exp, FALSE)
    IN  /\ todo # <<>> /\ t.do \in {"getExport", "testExport"}
        /\ todo' = <<Look("get", t.rep, t.exp, FALSE), after>> \o Rest
        /\ found' = None
        /\ UNCHANGED <<prog, reps, left, lookups>>

\* getauxArray stops at the first box that is not null.
Passed ==
    /\ todo # <<>> /\ Top.do \in {"get", "defaults", "parents", "extendees"}
    /\ found # None
    /\ todo' = Rest
    /\ UNCHANGED <<prog, reps, found, left, lookups>>

\* get, up to getaux.
get ==
    LET t == Top IN
    /\ todo # <<>> /\ t.do = "get" /\ found = None
    /\ ~IsExtend(t.rep)
    /\ reps[t.rep].ngets < GetLimit
    /\ reps' = [reps EXCEPT ![t.rep].ngets = @ + 1]
    /\ todo' = PrepareGetter(t.rep)
               \o <<Look("own", t.rep, t.exp, t.skip), Look("endget", t.rep, t.exp, t.skip)>>
               \o Rest
    /\ UNCHANGED <<prog, found, left, lookups>>

\* "Circular get broken": the count stays where it is.
BreakCircle ==
    LET r == Top.rep IN
    /\ todo # <<>> /\ Top.do = "get" /\ found = None
    /\ ~IsExtend(r)
    /\ reps[r].ngets >= GetLimit
    /\ reps' = [reps EXCEPT ![r].ngets = @ + 1]
    /\ todo' = <<>>
    /\ found' = None
    /\ left' = [q \in DOMAIN left |-> left[q] + Depth(q) + (IF q = r THEN 1 ELSE 0)]
    /\ UNCHANGED <<prog, lookups>>

\* getExtend has no count.
getExtend ==
    LET t == Top IN
    /\ todo # <<>> /\ t.do = "get" /\ found = None
    /\ IsExtend(t.rep)
    /\ todo' = <<Do("prepareHash", t.rep), Look("own", t.rep, t.exp, t.skip)>> \o Rest
    /\ UNCHANGED <<prog, reps, found, left, lookups>>

\* Mutant of Places: one pass, which takes a default before what is inherited.
DefaultsFirst(r, e, skip) ==
    (IF skip THEN <<>> ELSE <<Look("defaults", r, e, skip)>>)
    \o <<Look("parents", r, e, skip), Look("extendees", r, e, skip)>>

\* Where getaux looks after the domain's own exports: first everywhere
\* without the defaults, then with them.  "%%" comes from defaults alone.
Places(r, e, skip) ==
    LET without == <<Look("parents", r, e, TRUE), Look("extendees", r, e, TRUE)>>
        with == <<Look("defaults", r, e, FALSE), Look("parents", r, e, FALSE),
                  Look("extendees", r, e, FALSE)>>
    IN  IF IsExtend(r) THEN <<Look("parents", r, e, skip)>>
        ELSE IF e = PcentPcent
        THEN IF reps[r].defaults = {} THEN <<>>
             ELSE <<Look("defaults", r, e, skip), Look("extendees", r, e, skip)>>
        ELSE IF skip THEN without ELSE without \o with

Provider(r, kind) == [rep |-> r, kind |-> kind]
OwnHas(r, e) == e # PcentPcent /\ e \in reps[r].exports

\* The domain's own exports, as far as they have been entered.
Own ==
    LET t == Top
        has == OwnHas(t.rep, t.exp)
    IN  /\ todo # <<>> /\ t.do = "own"
        /\ found' = IF has THEN Provider(t.rep, "own") ELSE None
        /\ todo' = (IF has THEN <<>> ELSE Places(t.rep, t.exp, t.skip)) \o Rest
        /\ UNCHANGED <<prog, reps, left, lookups>>

\* getDefault!.
Defaults ==
    LET t == Top IN
    /\ todo # <<>> /\ t.do = "defaults" /\ found = None
    /\ found' = IF t.exp \in reps[t.rep].defaults THEN Provider(t.rep, "default") ELSE None
    /\ todo' = Rest
    /\ UNCHANGED <<prog, reps, left, lookups>>

\* The look-ups that getauxArray makes.
Remaining(t, doms) == [i \in DOMAIN doms |-> Look("get", doms[i], t.exp, t.skip)]

getauxArray ==
    LET t == Top IN
    /\ todo # <<>> /\ t.do \in {"parents", "extendees"} /\ found = None
    /\ todo' = Remaining(t, IF t.do = "parents" THEN reps[t.rep].parents
                            ELSE reps[t.rep].extendees) \o Rest
    /\ UNCHANGED <<prog, reps, found, left, lookups>>

\* Mutant of Finished: a look-up that fails is not counted down.
FinishedIfFound(r) == IF found = None THEN reps[r].ngets ELSE reps[r].ngets - 1

Finished(r) == reps[r].ngets - 1

\* get, from getaux on.
EndGet ==
    LET r == Top.rep IN
    /\ todo # <<>> /\ Top.do = "endget"
    /\ reps' = [reps EXCEPT ![r].ngets = Finished(r)]
    /\ todo' = Rest
    /\ UNCHANGED <<prog, found, left, lookups>>

\* getExport! raises an ERROR if there is no such export.
Need ==
    /\ todo # <<>> /\ Top.do = "need"
    /\ IF found = None THEN Error ELSE todo' = Rest /\ UNCHANGED <<found, left>>
    /\ UNCHANGED <<prog, reps, lookups>>

\* gen0TryForceLazy forces what its test has found.
TryForce ==
    LET t == Top IN
    /\ todo # <<>> /\ t.do = "force"
    /\ todo' = (IF found = None THEN <<>> ELSE <<Look("getExport", t.rep, t.exp, FALSE)>>) \o Rest
    /\ UNCHANGED <<prog, reps, found, left, lookups>>

-----------------------------------------------------------------------------

\* The client looks up an export of a domain.
Call(d, e) ==
    /\ todo = <<>>
    /\ lookups < MaxCalls
    /\ todo' = <<Look("getExport", d, e, FALSE)>>
    /\ lookups' = lookups + 1
    /\ UNCHANGED <<prog, reps, found, left>>

Preparing == getHash \/ firstHash \/ prepareHash \/ extendFill \/ Hashed \/ Expand
             \/ Build \/ Prepared \/ Define \/ Built
LookingUp == getExport0 \/ Passed \/ get \/ BreakCircle \/ getExtend \/ Own \/ Defaults
             \/ getauxArray \/ EndGet \/ Need \/ TryForce
Runtime == Preparing \/ LookingUp
DomainNext == Runtime \/ \E d \in DOMAIN prog.base, e \in Exp : Call(d, e)
DomainSpec == DomainInit /\ [][DomainNext]_domainVars

-----------------------------------------------------------------------------
(* Properties.                                                             *)

\* ngets counts the look-ups in progress, and those that an ERROR has cut
\* off: only these can break a look-up that is not circular.
NgetsBalanced == \A r \in DOMAIN reps : reps[r].ngets = Depth(r) + left[r]

\* However a domain's construction comes back to it, its table is not opened
\* before its hash code is there, and its body is run at most once:
\* prepareGetter! looks for the table only then.
BuiltOnce ==
    \A r \in DOMAIN reps :
        /\ reps[r].opened => reps[r].hashed
        /\ Cardinality({i \in DOMAIN todo : todo[i] = Do("built", r)})
              <= (IF reps[r].built THEN 0 ELSE 1)

\* What the code of the domain defines when all of it is run.
Defines(r) ==
    {s.exp : s \in {t \in Range(prog.body[reps[r].dom]) : t.op = "define"}}

\* The records that a look-up in r may come to.
Below(r) == Range(reps[r].parents) \cup Range(reps[r].extendees)
Reach(r) ==
    LET upTo[n \in Nat] == IF n = 0 THEN {r}
                           ELSE upTo[n - 1] \cup UNION {Below(q) : q \in upTo[n - 1]}
    IN  upTo[Len(reps)]
Complete(r) == IF IsExtend(r) THEN reps[r].parents # <<>> ELSE reps[r].built

\* The provider a reader of the program expects: the domain's own export, or
\* else the first that is inherited or extended, or else the first default.
First(choices) ==
    LET there == {i \in DOMAIN choices : choices[i] # None}
    IN  IF there = {} THEN None ELSE choices[CHOOSE i \in there : \A j \in there : i <= j]
Expected(r0, e, skip0) ==
    LET of[n \in Nat, r \in DOMAIN reps, skip \in BOOLEAN] ==
          LET all(doms, s) == [i \in DOMAIN doms |-> of[n - 1, doms[i], s]]
              own == IF e # PcentPcent /\ e \in Defines(r)
                     THEN Provider(r, "own") ELSE None
              default == IF e \in prog.defaults[reps[r].dom]
                         THEN Provider(r, "default") ELSE None
              pars == reps[r].parents
              exts == reps[r].extendees
          IN  IF n = 0 THEN None
              ELSE IF IsExtend(r) THEN First(all(pars, skip))
              ELSE IF e = PcentPcent
              THEN IF prog.defaults[reps[r].dom] = {} THEN None
                   ELSE First(<<default>> \o all(exts, skip))
              ELSE First(<<own>> \o all(pars, TRUE) \o all(exts, TRUE)
                         \o (IF skip THEN <<>>
                             ELSE <<default>> \o all(pars, FALSE) \o all(exts, FALSE)))
    IN  of[Len(reps), r0, skip0]

\* A look-up answers what the program says, unless it comes to a domain whose
\* body is still being run, or was cut off by an ERROR.
AnswersRight ==
    todo # <<>> /\ Top.do = "endget" =>
        \/ found = Expected(Top.rep, Top.exp, Top.skip)
        \/ \E q \in Reach(Top.rep) : ~Complete(q)

=============================================================================
