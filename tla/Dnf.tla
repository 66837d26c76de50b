-------------------------------- MODULE Dnf --------------------------------
(* Conditions under which exports are there: formulas in disjunctive normal *)
(* form, dnf.c, and what ablogic.c makes of them.                           *)
(*                                                                          *)
(* An atom is a number; a literal is an atom or its negative; a conjunction *)
(* is a sequence of literals ordered by atom, and a DNF a sequence of       *)
(* conjunctions.  A client builds conditions from the leaves up, as         *)
(* ablogFrSefo does, and keeps what is known in the branch it is in.        *)
EXTENDS Integers, Sequences, FiniteSets, SequencesExt

CONSTANTS
    Atom,        \* the atoms, numbered from 1
    HasImplies,  \* <<a, b>>: both are "has" tests of one domain, and a's
                 \* category has b's (ablogTestProperties)
    Null,        \* a conjunction that is not there
    MaxConds,    \* bound: conditions a client has at a time
    MaxDnfOps    \* bound: operations

ASSUME DnfConstants ==
    /\ Atom \subseteq Nat \ {0}
    /\ HasImplies \subseteq Atom \X Atom

VARIABLES
    conds,     \* the conditions being built, the last on top
    knowns,    \* abCondKnown and what ablogAndPush has saved of it
    dnfOps

dnfVars == <<conds, knowns, dnfOps>>

Abs(l) == IF l < 0 THEN -l ELSE l
dnfAtomLT(l1, l2) == Abs(l1) < Abs(l2)

-----------------------------------------------------------------------------
(* Conjunctions.                                                           *)

\* Mutant of dnfAndMerge: the first of a literal and its negation stays.
MergeClashing(xx, yy) ==
    LET literals == ToSet(xx) \cup {l \in ToSet(yy) : -l \notin ToSet(xx)}
    IN  SetToSortSeq(literals, dnfAtomLT)

\* Null if a literal and its negation are found.
dnfAndMerge(xx, yy) ==
    LET literals == ToSet(xx) \cup ToSet(yy)
    IN  IF \E l \in literals : -l \in literals THEN Null
        ELSE SetToSortSeq(literals, dnfAtomLT)

dnfAndImplies(xx, yy) == ToSet(yy) \subseteq ToSet(xx)
dnfAndImpliesNegation(xx, yy) == \A l \in ToSet(yy) : -l \in ToSet(xx)

\* Both indices go on together, whether a literal is kept or cancelled, and
\* the result is as long as if every literal of yy had been cancelled.
dnfAndCancelNegation(xx, yy) ==
    LET kept == {i \in DOMAIN xx : i > Len(yy) \/ dnfAtomLT(xx[i], yy[i])}
        places == SetToSortSeq(kept, <)
    IN  [i \in 1 .. Len(xx) - Len(yy) |-> xx[places[i]]]

-----------------------------------------------------------------------------
(* Disjunctions.                                                           *)

dnfTrue == << <<>> >>
dnfFalse == <<>>
dnfIsTrue(xx) == Len(xx) = 1 /\ xx[1] = <<>>
dnfIsFalse(xx) == xx = <<>>

\* One comparison of dnfOrMerge: the term at i, with the one at j.
MergeTerms(t, ij) ==
    LET i == ij[1]
        j == ij[2]
    IN  IF i = j \/ t[i] = Null \/ t[j] = Null THEN t
        ELSE IF dnfAndImplies(t[i], t[j]) THEN [t EXCEPT ![i] = Null]
        ELSE IF dnfAndImpliesNegation(t[i], t[j])
             THEN [t EXCEPT ![i] = dnfAndCancelNegation(t[i], t[j])]
        ELSE t

dnfOrMerge(t) ==
    LET n == Len(t)
        pairs == FlattenSeq([i \in 1 .. n |-> [j \in 1 .. n |-> <<i, j>>]])
    IN  SelectSeq(FoldLeft(MergeTerms, t, pairs), LAMBDA xx : xx # Null)

\* The terms that dnfOr and dnfAnd give to dnfOrMerge.
OrTerms(xx, yy) == xx \o yy
AndTerms(xx, yy) ==
    FlattenSeq([i \in DOMAIN xx |-> [j \in DOMAIN yy |-> dnfAndMerge(xx[i], yy[j])]])

dnfOr(xx, yy) ==
    IF dnfIsTrue(xx) \/ dnfIsTrue(yy) THEN dnfTrue
    ELSE IF dnfIsFalse(xx) THEN yy
    ELSE IF dnfIsFalse(yy) THEN xx
    ELSE dnfOrMerge(OrTerms(xx, yy))

dnfAnd(xx, yy) ==
    IF dnfIsFalse(xx) \/ dnfIsFalse(yy) THEN dnfFalse
    ELSE IF dnfIsTrue(xx) THEN yy
    ELSE IF dnfIsTrue(yy) THEN xx
    ELSE dnfOrMerge(AndTerms(xx, yy))

dnfAndNot(xx) == [i \in DOMAIN xx |-> <<-xx[i]>>]
dnfNot(xx) ==
    IF dnfIsFalse(xx) THEN dnfTrue
    ELSE IF dnfIsTrue(xx) THEN dnfFalse
    ELSE FoldLeft(LAMBDA rr, xxi : dnfAnd(rr, dnfAndNot(xxi)), dnfTrue, xx)

-----------------------------------------------------------------------------
(* Implication.                                                            *)

dnfImplies(xx, yy) == \A i \in DOMAIN xx : \E j \in DOMAIN yy : dnfAndImplies(xx[i], yy[j])

\* Mutant of ablogTestImplies: literals that are negated are not exchanged.
TestSameWay(a, b) == IF a < 0 THEN <<-a, -b>> \in HasImplies ELSE <<a, b>> \in HasImplies

\* a => b; for two negations, the other way round.
ablogTestImplies(a, b) == IF a < 0 THEN <<-b, -a>> \in HasImplies ELSE <<a, b>> \in HasImplies

\* Literals at the same place, else any literal of xx that implies the one of
\* yy; the place in xx goes on only in the first case.
dnfExpandAndImplies(xx, yy) ==
    LET Find(p, l) ==
            IF p = 0 \/ p > Len(xx) THEN 0
            ELSE IF xx[p] = l THEN p + 1
            ELSE IF \E a \in ToSet(xx) : ablogTestImplies(a, l) THEN p
            ELSE 0
    IN  Len(xx) >= Len(yy) /\ FoldLeft(Find, 1, yy) > 0

dnfExpandImplies(xx, yy) ==
    \A i \in DOMAIN xx : \E j \in DOMAIN yy : dnfExpandAndImplies(xx[i], yy[j])
ablogImplies(known, query) == dnfImplies(known, query) \/ dnfExpandImplies(known, query)

-----------------------------------------------------------------------------
(* What a DNF says: the sets of atoms that make it true.                   *)

Valuations == SUBSET Atom
Holds(l, v) == IF l > 0 THEN l \in v ELSE -l \notin v
Models(xx) ==
    {v \in Valuations : \E i \in DOMAIN xx : \A l \in ToSet(xx[i]) : Holds(l, v)}

\* A DNF the client has.  History: "is" has the valuations in which it should
\* be true, going by the DNFs it was made of, and "clash" says whether a term
\* had all literals of another negated when it was made.
Cond(dnf, is, clash) == [dnf |-> dnf, is |-> is, clash |-> clash]
Constant(xx) == dnfIsTrue(xx) \/ dnfIsFalse(xx)
Clash(xx, yy, terms) ==
    /\ ~Constant(xx) /\ ~Constant(yy)
    /\ \E i, j \in DOMAIN terms :
        i # j /\ Null \notin {terms[i], terms[j]} /\ dnfAndImpliesNegation(terms[i], terms[j])
Always == Cond(dnfTrue, Valuations, FALSE)
And(x, y) ==
    Cond(dnfAnd(x.dnf, y.dnf), Models(x.dnf) \cap Models(y.dnf),
         Clash(x.dnf, y.dnf, AndTerms(x.dnf, y.dnf)))
Or(x, y) ==
    Cond(dnfOr(x.dnf, y.dnf), Models(x.dnf) \cup Models(y.dnf),
         Clash(x.dnf, y.dnf, OrTerms(x.dnf, y.dnf)))
\* Made by several steps, any of which may clash.
Not(x) == Cond(dnfNot(x.dnf), Valuations \ Models(x.dnf), TRUE)

-----------------------------------------------------------------------------
(* The client.                                                             *)

DnfInit == conds = <<>> /\ knowns = <<Always>> /\ dnfOps = 0

DnfOp == dnfOps < MaxDnfOps /\ dnfOps' = dnfOps + 1
Under(n) == SubSeq(conds, 1, Len(conds) - n)
Top1 == Last(conds)
Top2 == conds[Len(conds) - 1]

\* ablogFrSefo: a leaf, "not", "and" and "or".
Leaf ==
    /\ DnfOp /\ Len(conds) < MaxConds
    /\ \E a \in Atom :
        conds' = Append(conds, Cond(<< <<a>> >>, {v \in Valuations : a \in v}, FALSE))
    /\ UNCHANGED knowns

Negation ==
    /\ DnfOp /\ Len(conds) >= 1
    /\ conds' = Append(Under(1), Not(Top1))
    /\ UNCHANGED knowns

Binary ==
    /\ DnfOp /\ Len(conds) >= 2
    /\ \E c \in {And(Top2, Top1), Or(Top2, Top1)} : conds' = Append(Under(2), c)
    /\ UNCHANGED knowns

\* Into a branch of an "if", and out of it.
ablogAndPush ==
    /\ DnfOp /\ Len(conds) >= 1 /\ Len(knowns) < MaxConds
    /\ \E c \in {Top1, Not(Top1)} : knowns' = Append(knowns, And(Last(knowns), c))
    /\ conds' = Under(1)

ablogAndPop ==
    /\ DnfOp /\ Len(knowns) > 1
    /\ knowns' = SubSeq(knowns, 1, Len(knowns) - 1)
    /\ UNCHANGED conds

DnfNext == Leaf \/ Negation \/ Binary \/ ablogAndPush \/ ablogAndPop
DnfSpec == DnfInit /\ [][DnfNext]_dnfVars

-----------------------------------------------------------------------------
(* Properties.                                                             *)

Held == ToSet(conds) \cup ToSet(knowns)

\* An operation never loses a case in which its result should be true, and adds
\* none unless one of its terms had all the literals of another negated: what
\* goes wrong in a merge goes wrong in dnfAndCancelNegation.  Every term is in
\* order, each atom once, as the next merge and comparison need it.
DnfCovers ==
    \A c \in Held :
        /\ c.is \subseteq Models(c.dnf)
        /\ ~c.clash => c.is = Models(c.dnf)
        /\ \A i \in DOMAIN c.dnf : \A j \in 1 .. Len(c.dnf[i]) - 1 :
                dnfAtomLT(c.dnf[i][j], c.dnf[i][j + 1])

\* What is taken as implied is: in every valuation that agrees with the
\* categories, where what is known holds, a condition it implies holds too.
\* The converse is not so: implication is found term by term.
ImpliesSound ==
    \A x \in ToSet(knowns), y \in Held :
        ablogImplies(x.dnf, y.dnf) =>
            \A v \in Models(x.dnf) :
                (\A ab \in HasImplies : ab[1] \in v => ab[2] \in v) => v \in Models(y.dnf)

\* A DNF says what the operation that made it says of the DNFs it was made of:
\* what dnfOrMerge takes out is redundant (comment at dnf.c:325).
DnfExact == \A c \in Held : Models(c.dnf) = c.is
=============================================================================
