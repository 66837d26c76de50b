------------------------------ MODULE MCParts ------------------------------
(* Parts that share no state: the domain runtime, and of the compiler the   *)
(* includer, a client of fluid variables, data-flow analysis, priority      *)
(* queues, conditions, big integers and layout.  A behaviour runs one of    *)
(* them; the others wait in their first state.                              *)
EXTENDS DomainRep, Include, Dflow, PriQ, Dnf, Bigint, Linear

VARIABLE part

vars == <<part, domainVars, fluidVars, inclVars, dflowVars, priqVars, dnfVars,
          bigVars, linVars>>

-----------------------------------------------------------------------------
(* Programs: two domains whose construction may come back to each other,    *)
(* and an extend with a domain that adds to it.                             *)
Exports == {"a", "b", "%%"}
S(op, d, e) == [op |-> op, dom |-> d, exp |-> e]
D(e) == S("define", Self, e)

\* Bodies that look up exports, of the other domain or of their own, before or
\* after their own exports are entered.
Bodies1 == {<<D("a"), D("b")>>, <<D("b"), S("get", 2, "a")>>, <<S("get", 2, "b"), D("a")>>,
            <<S("get", Self, "b"), D("a")>>, <<S("test", Self, "a"), D("a")>>,
            <<D("a"), S("test", Self, "b")>>, <<D("b")>>}
Bodies2 == {<<D("a"), D("b")>>, <<D("b"), S("get", 1, "a")>>, <<S("get", 1, "b"), D("b")>>}

\* The hash codes of both: of one the other's, or an export of the other or its
\* own; and in a circle.
Hashings ==
    {<<<<>>, <<>>>>, <<<<S("hash", 2, "a")>>, <<>>>>, <<<<S("get", Self, "a")>>, <<>>>>,
     <<<<S("hash", 2, "a")>>, <<S("get", 1, "a")>>>>,
     <<<<S("get", 2, "a")>>, <<S("get", 1, "a")>>>>}

\* Domain 1 may add to 2, and its hash code may need 2, an export of 2, or one
\* of its own; domain 2's hash code may need an export of 1.
Pairs ==
    {[base |-> <<b, None>>, defaults |-> <<f, {"a", "%%"}>>,
      hashing |-> h, body |-> <<x, y>>, extends |-> <<<<>>, <<>>>>] :
        b \in {2, None}, f \in {{}, {"b", "%%"}}, h \in Hashings,
        x \in Bodies1, y \in Bodies2}

\* Domain 3 extends 1 by 2, and 4 adds to 3; 1 or 2 may use 3.
Extends ==
    {[base |-> <<None, None, None, 3>>, defaults |-> <<f, {"a", "%%"}, {}, {"b"}>>,
      hashing |-> <<<<>>, h, <<>>, <<>>>>, body |-> <<x, y, <<>>, z>>,
      extends |-> <<<<>>, <<>>, <<1, 2>>, <<>>>>] :
        f \in {{"b", "%%"}},
        h \in {<<>>, <<S("get", 3, "a")>>, <<S("hash", 3, "a")>>},
        x \in {<<D("b")>>, <<S("get", 3, "a"), D("b")>>},
        y \in {<<D("a"), D("b")>>, <<D("a"), S("get", 3, "b")>>},
        z \in {<<>>, <<D("b")>>, <<S("get", Self, "a"), D("b")>>}}

AllPrograms == Pairs \cup Extends

-----------------------------------------------------------------------------
(* Sources: every text of six lines with the branches of nested #if's,      *)
(* every two files of five lines with #if's that include each other, and of *)
(* four lines with other directives.                                        *)
L(op, arg) == [op |-> op, arg |-> arg]
Plain(op) == L(op, "")
Conditions ==
    [lines |-> {L("if", "p"), L("elseif", "p"), Plain("else"), Plain("endif"),
                L("assert", "p")},
     limit |-> 6]
Nesting ==
    [lines |-> {Plain("text"), L("if", "p"), Plain("endif"), L("assert", "p"),
                L("include", "b"), L("reinclude", "a")},
     limit |-> 5]
Asserting ==
    [lines |-> {Plain("text"), L("assert", "p"), L("unassert", "p"), L("if", "p"),
                Plain("unknown"), Plain("botched"), L("reinclude", "b"), L("include", "c")},
     limit |-> 4]
AllKits == {Conditions, Nesting, Asserting}

FluidVariables == {"ifState", "x"}
FluidAssigned == {"NoIf", "ActiveIf"}

-----------------------------------------------------------------------------
(* Flow graphs: a diamond, a loop through block0 with a loop inside and a   *)
(* block that is not reached, exits that lead to one block.                 *)
SmallGraphs ==
    {<<<<2, 3>>, <<4>>, <<4>>, <<>>>>, <<<<2>>, <<3, 1>>, <<2>>, <<3>>>>,
     <<<<2, 2>>, <<1, 3>>, <<>>>>}
OneFact == {"f"}

-----------------------------------------------------------------------------
\* Of three conditions "has" the first implies the second, and each itself.
Implications == {<<1, 2>>, <<1, 1>>, <<2, 2>>}

-----------------------------------------------------------------------------
(* Integers with the places 0, 1, half the radix and the highest in all     *)
(* arrangements, and those around the largest immediate number.             *)
EdgePlaces == {0, 1, 8, 15}
Numbers(n) == {ValueOf(v) : v \in [1 .. n -> EdgePlaces]}
Signed(s) == s \cup {-n : n \in s}
Smaller == Signed(Numbers(2) \cup {2, 63, 64})
Pick(ops, xs, ys, zs) == [op |-> ops, x |-> xs, y |-> ys, z |-> zs]
AllJobs ==
    {Pick({"plus", "minus", "times", "compare"}, Smaller, Smaller, {0}),
     Pick({"plus", "minus", "times"}, Numbers(3), Numbers(3), {0}),
     Pick({"divide"}, Smaller, Smaller \ {0}, {0}),
     Pick({"divide"}, Numbers(4), Numbers(3) \ {0}, {0}),
     Pick({"shift"}, Signed(Numbers(3)) \cup Smaller, -9 .. 9, {0}),
     Pick({"scan"}, Signed(Numbers(4)), 0 .. 2, {0}),
     Pick({"format"}, Signed(Numbers(4)), {0}, {0}),
     Pick({"gcd"}, Signed({0, 6, 63, 64, 240, 255}), Signed(Numbers(3)), {0}),
     Pick({"power"}, Smaller, 0 .. 3, {0}),
     Pick({"powermod"}, {-17, -4, 3, 8, 143}, 0 .. 3, {-16, 7, 63, 64, 255})}

-----------------------------------------------------------------------------
(* Piles: every five lines in three columns; every four with a word that    *)
(* opens a pile; three with what keeps a BackSet away and labels, and with  *)
(* comments and separators; two and three with brackets and piles in them.  *)
(* Random tokens, up to four.                                               *)
Tok(tag) == [kind |-> "tok", tag |-> tag, of |-> <<>>]
Curly(items) == [kind |-> "curly", tag |-> NoTok, of |-> items]
Pile(lines) == [kind |-> "pile", tag |-> NoTok, of |-> lines]
Laid(col, items) == [indent |-> col, label |-> FALSE, items |-> items]
Labelled(col, items) == [indent |-> col, label |-> TRUE, items |-> items]
LaidAll(cols, contents) == {Laid(c, i) : c \in cols, i \in contents}
W == <<Tok("w")>>

FlatPiles ==
    [1 .. 5 -> LaidAll(1 .. 3, {W})]
    \cup [1 .. 4 -> LaidAll(1 .. 3, {W, <<Tok("w"), Tok("add")>>})]
    \cup [1 .. 3 ->
        LaidAll(1 .. 2, {W, <<Tok("w"), Tok(",")>>, <<Tok("doc")>>, <<Tok("then"), Tok("w")>>,
                         <<Tok("w"), Tok("else")>>, <<Tok("w"), Tok("(")>>, <<Tok(")")>>})
        \cup {Labelled(2, i) : i \in {<<>>, W}}]
    \cup [1 .. 3 -> LaidAll(1 .. 2, {W, <<Tok("w"), Tok("comment")>>, <<Tok("comment")>>,
                                    <<Tok("w"), Tok(";")>>, <<Tok("then")>>})]

InnerPiles ==
    {Pile(<<Laid(1, W)>>), Pile(<<Laid(2, W), Laid(2, W)>>), Pile(<<Laid(1, W), Laid(2, W)>>),
     Pile(<<Laid(2, W), Laid(1, W)>>),
     Pile(<<Laid(2, W), Laid(1, <<Pile(<<Laid(2, W)>>)>>)>>)}
Piled == Curly(<<Pile(<<Laid(2, W), Laid(2, W)>>)>>)
Curlies == {Curly(<<>>), Curly(W), Curly(<<Tok("w"), Tok(";")>>), Curly(<<Curly(W)>>), Piled}
\* A pile in a pile, with the line behind it or as the last.
Middle == {Laid(Margin, <<p, Tok("w")>>) : p \in InnerPiles}
Ends == {Laid(Margin, <<p>>) : p \in InnerPiles}
Bracketed ==
    UNION {LaidAll(1 .. 2, {W, <<b>>, <<Tok("w"), b>>, <<b, Tok("w")>>, <<b, Tok(";")>>}) :
               b \in Curlies}
    \cup Middle
FewBracketed == LaidAll(1 .. 2, {W, <<Curly(W)>>, <<Tok("w"), Piled>>}) \cup Middle
NestedPiles ==
    {<<a, b>> : a \in Bracketed, b \in Bracketed \cup Ends}
    \cup {<<a, b, c>> : a \in FewBracketed, b \in FewBracketed, c \in FewBracketed \cup Ends}

AllPiles == FlatPiles \cup NestedPiles
RandomTokens ==
    UNION {[1 .. n -> {LToken(t, 1) : t \in {"w", "nl", "{", "}", "#pile", "#endpile"}}] :
               n \in 1 .. 4}

-----------------------------------------------------------------------------
\* The state in which a part that is not run stays.
Waiting ==
    [base |-> <<None>>, defaults |-> <<{}>>, hashing |-> <<<<>>>>, body |-> <<<<>>>>,
     extends |-> <<<<>>>>]
DomainWaits == DomainWith(Waiting)
InclWaits == InclInit /\ kit = Asserting
DflowWaits ==
    DflowWith(Problem(<<<<>>>>, CHOOSE k \in Kinds : TRUE, <<{}>>, {}, 0))
PriqWaits == PriqInit /\ size = 1

Init ==
    /\ FluidInit([v \in FluidVars |-> "NoIf"])
    /\ DnfInit
    /\ BigInit
    /\ LinearInit
    /\ part \in {"domain", "include", "fluid", "dflow", "priq", "dnf", "numbers",
                "layout"}
    /\ IF part = "domain" THEN DomainInit ELSE DomainWaits
    /\ IF part = "include" THEN InclInit ELSE InclWaits
    /\ IF part = "priq" THEN PriqInit ELSE PriqWaits
    /\ IF part = "dflow" THEN DflowInit ELSE DflowWaits

\* What goes on once it is called.
Work ==
    \/ /\ part = "domain" /\ DomainNext
       /\ UNCHANGED <<part, fluidVars, inclVars, dflowVars, priqVars, dnfVars, bigVars,
                      linVars>>
    \/ /\ part = "include" /\ InclNext
       /\ UNCHANGED <<part, domainVars, dflowVars, priqVars, dnfVars, bigVars,
                      linVars>>
    \/ /\ part = "fluid" /\ FluidNext
       /\ UNCHANGED <<part, domainVars, inclVars, dflowVars, priqVars, dnfVars, bigVars,
                      linVars>>
    \/ /\ part = "dflow" /\ DflowNext
       /\ UNCHANGED <<part, domainVars, fluidVars, inclVars, priqVars, dnfVars, bigVars,
                      linVars>>
    \/ /\ part = "priq" /\ PriqNext
       /\ UNCHANGED <<part, domainVars, fluidVars, inclVars, dflowVars, dnfVars, bigVars,
                      linVars>>

\* Single computations.
Compute ==
    \/ /\ part = "dnf" /\ DnfNext
       /\ UNCHANGED <<part, domainVars, fluidVars, inclVars, dflowVars, priqVars, bigVars,
                      linVars>>
    \/ /\ part = "numbers" /\ BigNext
       /\ UNCHANGED <<part, domainVars, fluidVars, inclVars, dflowVars, priqVars, dnfVars,
                      linVars>>
    \/ /\ part = "layout" /\ LinearNext
       /\ UNCHANGED <<part, domainVars, fluidVars, inclVars, dflowVars, priqVars, dnfVars,
                      bigVars>>

Next == Work \/ Compute

\* One thread: what was called goes on as long as there is something to do.
FairSpec == Init /\ [][Next]_vars /\ WF_vars(Work)

\* Every look-up ends, with an answer or with an ERROR; includeFile returns,
\* however files include each other and wherever their conditions are left
\* open; every function that binds fluid variables is left; an analysis ends at
\* its cutoff or before; every sift of a queue ends.
Over ==
    CASE part = "domain"  -> todo = <<>>
      [] part = "include" -> inclPhase = "done" /\ calls = <<>>
      [] part = "fluid"   -> calls = <<>>
      [] part = "dflow"   -> dfPhase = "done"
      [] part = "priq"    -> sift = NoSift
      [] part \in {"dnf", "numbers", "layout"} -> TRUE
PartsReturn == <>[]Over
=============================================================================
