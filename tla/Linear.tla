------------------------------- MODULE Linear -------------------------------
(* Layout: linear.c, which turns the newlines and indentation of piles into *)
(* SetTab, BackSet and BackTab.                                             *)
(*                                                                          *)
(* A token has a tag and a column.  A text is one that a writer laid out,   *)
(* of lines and blocks, of which the tokens are made; or tokens at random.  *)
EXTENDS Integers, Sequences, FiniteSets, SequencesExt

CONSTANTS
    Piles,      \* what a writer may lay out: sequences of lines, each with items and an indentation
    Snippets    \* tokens at random: sequences of them

VARIABLES
    source,     \* the text: the lines of a pile, or tokens at random
    linErrors,  \* linearize has reported an unbalanced bracket
    linear      \* what linearize returned; <<"not yet">> before

linVars == <<source, linErrors, linear>>

(* tokInfoTable, as far as layout goes by it. *)
Openers == {"(", "{"}
Closers == {")", "}"}
Followers == {"then", "else"}
Documentation == {"doc"}
IsNonStarter(tag) == tag \in Followers \cup Closers

MootIndentation == -1
NoTok == "no token"

LToken(tag, col) == [tag |-> tag, col |-> col]
Tags(tl) == [i \in DOMAIN tl |-> tl[i].tag]

-----------------------------------------------------------------------------
(* Token lists.                                                            *)

\* The elements of s whose indices pass.
Those(s, Pass(_)) ==
    LET kept == SelectSeq([i \in DOMAIN s |-> i], Pass)
    IN  [k \in DOMAIN kept |-> s[kept[k]]]

linXTokens(tl, tag) == SelectSeq(tl, LAMBDA t : t.tag # tag)

\* Newlines at the beginning, behind #pile, and behind another go.
linXBlankLines(tl) ==
    LET Kept(i) ==
            tl[i].tag = "nl" => i > 1 /\ tl[i - 1].tag \notin {"nl", "#pile"}
    IN  Those(tl, Kept)

\* linCheckBalance, by the openers that are open: is an error reported?
\* A missing #endpile at the end is none.
linCheckBalance(tags) ==
    LET Mate == [c \in {"}", "#endpile"} |-> IF c = "}" THEN "{" ELSE "#pile"]
        RECURSIVE Unbalanced(_, _)
        Unbalanced(rest, open) ==
            IF rest = <<>> THEN \E i \in DOMAIN open : open[i] = "{"
            ELSE IF rest[1] \in {"{", "#pile"}
                 THEN Unbalanced(Tail(rest), Append(open, rest[1]))
            ELSE IF rest[1] \notin DOMAIN Mate THEN Unbalanced(Tail(rest), open)
            ELSE open = <<>> \/ Last(open) # Mate[rest[1]] \/ Unbalanced(Tail(rest), Front(open))
    IN  Unbalanced(tags, <<>>)

\* The column of a line, behind a label.
linIndentation(tl) ==
    LET rest == IF Head(tl).tag = "@" THEN SubSeq(tl, 3, Len(tl)) ELSE tl
    IN  IF rest = <<>> \/ rest[1].tag = "nl" THEN MootIndentation ELSE rest[1].col

-----------------------------------------------------------------------------
(* Trees of nodes: "tok", "nodes" for a line or a block, "pile" for lines.  *)

lntTokHas(tag) ==
    IF tag = "nl" THEN {} ELSE IF tag \in Documentation THEN {"NonBlank"}
    ELSE {"NonBlank", "NonCom"}
lntTok(t) ==
    [kind |-> "tok", tag |-> t.tag, indent |-> t.col, has |-> lntTokHas(t.tag), argv |-> <<>>]
LNode(kind, indent, has, argv) ==
    [kind |-> kind, tag |-> NoTok, indent |-> indent,
     has |-> has \cup UNION {argv[i].has : i \in DOMAIN argv}, argv |-> argv]
lntEmpty == LNode("nodes", MootIndentation, {}, <<>>)

linIsBlank(n) == "NonBlank" \notin n.has
linIsCom(n) == "NonCom" \notin n.has

lntConcat(lnt, rnt) == LNode("nodes", lnt.indent, {}, <<lnt, rnt>>)
lntSeparate(lnt, sep, rnt) ==
    LNode("nodes", lnt.indent, {}, <<lnt, lntTok(LToken(sep, 0)), rnt>>)
lntWrap(open, lnt, close) ==
    LNode("nodes", lnt.indent, {}, <<lntTok(LToken(open, 0)), lnt, lntTok(LToken(close, 0))>>)

RECURSIVE lntToTokenList(_)
lntToTokenList(n) ==
    IF n.kind = "tok" THEN <<n.tag>>
    ELSE FlattenSeq([i \in DOMAIN n.argv |-> lntToTokenList(n.argv[i])])

RECURSIVE lntFirstTok(_)
lntFirstTok(n) ==
    IF n.kind = "tok" THEN n.tag
    ELSE IF n.argv = <<>> THEN NoTok ELSE lntFirstTok(n.argv[1])

\* Mutant of lntLastTokLessNL: a newline counts.
LastTok(n) ==
    LET tags == lntToTokenList(n) IN IF tags = <<>> THEN NoTok ELSE Last(tags)

lntLastTokLessNL(n) ==
    LET tags == SelectSeq(lntToTokenList(n), LAMBDA t : t # "nl")
    IN  IF tags = <<>> THEN NoTok ELSE Last(tags)

-----------------------------------------------------------------------------
(* From tokens to trees.  Each returns the node and the tokens behind it;   *)
(* curlies says whether a { is open around it.                              *)

lntFrTL_MakeLine(args, in0) ==
    IF Len(args) = 1 THEN args[1] ELSE LNode("nodes", in0, {}, args)

\* What was read of the tokens: nodes, and the tokens behind them.
Read(nodes, rest) == [nodes |-> nodes, rest |-> rest]
Node(lnt, rest) == [lnt |-> lnt, rest |-> rest]
PileRead(all, in0) == Node(LNode("pile", in0, lntTokHas("#pile"), all.nodes), all.rest)
LineRead(all, in0) == Node(lntFrTL_MakeLine(all.nodes, in0), all.rest)

RECURSIVE lntFrTL_DoPile(_, _), lntFrTL_DoLine(_, _), lntFrTL_DontPile(_),
          lntFrTL_DontLine(_, _), PileLines(_, _, _), LineParts(_, _, _),
          DontParts(_, _, _, _)

\* Up to #endpile, or to the end.
PileLines(lines, rest, curlies) ==
    IF rest = <<>> THEN Read(lines, rest)
    ELSE IF rest[1].tag = "#endpile" THEN Read(lines, Tail(rest))
    ELSE LET More(line) == PileLines(Append(lines, line.lnt), line.rest, curlies)
         IN  More(lntFrTL_DoLine(rest, curlies))
lntFrTL_DoPile(tl, curlies) ==
    PileRead(PileLines(<<>>, Tail(tl), curlies), linIndentation(tl))

\* A line of a pile, with the newline.  It stops at a } that closes a { around
\* the pile, with it, and before #endpile.
LineParts(args, rest, curlies) ==
    LET tag == rest[1].tag
        More(one) ==
            IF tag = "nl" \/ (tag = "}" /\ curlies) \/ one.rest = <<>>
            THEN Read(Append(args, one.lnt), one.rest)
            ELSE LineParts(Append(args, one.lnt), one.rest, curlies)
    IN  IF tag = "#endpile" THEN Read(args, rest)
        ELSE More(CASE tag = "#pile" -> lntFrTL_DoPile(rest, curlies)
                    [] tag = "{"     -> lntFrTL_DontPile(rest)
                    [] OTHER         -> Node(lntTok(rest[1]), Tail(rest)))
lntFrTL_DoLine(tl, curlies) == LineRead(LineParts(<<>>, tl, curlies), linIndentation(tl))

\* { and what is in it, and the } if there is one.
lntFrTL_DontPile(tl) ==
    LET Closed(inner) ==
            LET isClosed == inner.rest # <<>> /\ inner.rest[1].tag = "}"
                open == <<lntTok(tl[1]), inner.lnt>>
            IN  Node(LNode("nodes", linIndentation(tl), {},
                           IF isClosed THEN Append(open, lntTok(inner.rest[1])) ELSE open),
                     IF isClosed THEN Tail(inner.rest) ELSE inner.rest)
    IN  Closed(lntFrTL_DontLine(Tail(tl), TRUE))

\* Up to the } that closes the { before tl if isStacking, otherwise all.
DontParts(args, rest, depth, isStacking) ==
    IF rest = <<>> \/ (isStacking /\ rest[1].tag = "}" /\ depth = 0) THEN Read(args, rest)
    ELSE IF rest[1].tag = "#pile"
    THEN LET More(pile) == DontParts(Append(args, pile.lnt), pile.rest, depth, isStacking)
         IN  More(lntFrTL_DoPile(rest, isStacking))
    ELSE DontParts(Append(args, lntTok(rest[1])), Tail(rest),
                   depth + (CASE rest[1].tag = "{" -> 1 [] rest[1].tag = "}" -> -1
                              [] OTHER -> 0),
                   isStacking)
lntFrTL_DontLine(tl, isStacking) ==
    IF tl = <<>> THEN Node(LNode("nodes", 0, {}, <<>>), tl)
    ELSE LineRead(DontParts(<<>>, tl, 0, isStacking), linIndentation(tl))

-----------------------------------------------------------------------------
(* The rules of layout.  NoContext is no node.                             *)

NoContext == LNode("nodes", 0, {}, <<>>)

isPileRequired(context) ==
    lntLastTokLessNL(context) \in {"then", "else", "with", "add"}

isBackSetRequired(lnt1, lnt2) ==
    LET tok1 == lntLastTokLessNL(lnt1)
        tok2 == lntFirstTok(lnt2)
    IN  IF linIsCom(lnt1) \/ linIsBlank(lnt1) \/ linIsBlank(lnt2) THEN FALSE
        ELSE \/ tok1 = NoTok \/ tok2 = NoTok
             \/ tok1 \notin Openers \cup {","} /\ ~IsNonStarter(tok2)

\* The lines of a pile in one, to be put behind context.
joinUp(context, lines) ==
    LET RECURSIVE Join(_, _, _)
        Join(i, lnt, had) ==
            IF i = Len(lines) THEN [lnt |-> lnt, had |-> had]
            ELSE IF isBackSetRequired(lines[i], lines[i + 1])
            THEN Join(i + 1, lntSeparate(lnt, "BackSet", lines[i + 1]), TRUE)
            ELSE Join(i + 1, lntConcat(lnt, lines[i + 1]), had)
        all == Join(1, lines[1], FALSE)
    IN  IF all.had \/ isPileRequired(context) THEN lntWrap("SetTab", all.lnt, "BackTab")
        ELSE all.lnt

\* The lines from iS that are indented as it is, or more: those that are
\* indented more are joined to the one before them.
RECURSIVE lin2DRulesPile0(_, _, _)
lin2DRulesPile0(context, lines, iS) ==
    LET indentS == lines[iS].indent
        RECURSIVE From(_, _)
        From(i, sofar) ==
            IF i > Len(lines) THEN [i |-> i, sofar |-> sofar]
            ELSE IF linIsBlank(lines[i]) \/ lines[i].indent \in {MootIndentation, indentS}
            THEN From(i + 1, Append(sofar, lines[i]))
            ELSE IF lines[i].indent < indentS THEN [i |-> i, sofar |-> sofar]
            ELSE LET sub == lin2DRulesPile0(Last(sofar), lines, i)
                 IN  From(sub.i, Append(Front(sofar), sub.lnt))
        all == From(iS, <<>>)
        joined == joinUp(context, all.sofar)
    IN  [lnt |-> IF context = NoContext THEN joined ELSE lntConcat(context, joined),
         i |-> all.i]

\* A pile, and those behind it that are indented less.
lin2DRulesPile(lines) ==
    LET RECURSIVE More(_)
        More(s) == IF s.i > Len(lines) THEN s.lnt ELSE More(lin2DRulesPile0(s.lnt, lines, s.i))
    IN  IF lines = <<>> THEN lntEmpty ELSE More(lin2DRulesPile0(NoContext, lines, 1))

RECURSIVE lin2DRules(_), lin2DRulesAll(_)
lin2DRulesAll(argv) ==
    IF argv = <<>> THEN <<>> ELSE <<lin2DRules(Head(argv))>> \o lin2DRulesAll(Tail(argv))
lin2DRules(n) ==
    LET argv == lin2DRulesAll(n.argv)
    IN  IF n.kind = "pile" THEN lin2DRulesPile(argv) ELSE [n EXCEPT !.argv = argv]

-----------------------------------------------------------------------------
(* Separators.                                                             *)

\* A ; behind each } that has none.
linISepAfterDontPiles(tags) ==
    FlattenSeq([i \in DOMAIN tags |->
        IF tags[i] = "}" /\ i < Len(tags) /\ tags[i + 1] # ";" THEN <<"}", ";">>
        ELSE <<tags[i]>>])

\* Without each ; at the beginning, and the last before what starts nothing.
linXSep(tags) ==
    LET first == IF \E i \in DOMAIN tags : tags[i] # ";"
                 THEN CHOOSE i \in DOMAIN tags :
                         tags[i] # ";" /\ \A j \in 1 .. i - 1 : tags[j] = ";"
                 ELSE Len(tags) + 1
        Goes(i) == tags[i] = ";" /\ (i = Len(tags) \/ IsNonStarter(tags[i + 1]))
    IN  Those(tags, LAMBDA i : i >= first /\ ~Goes(i))

linUseNeededSep(tags) == linXSep(linISepAfterDontPiles(tags))

linearize(tl0) ==
    LET tl == linXBlankLines(linXTokens(tl0, "comment"))
        lnt == lin2DRules(lntFrTL_DontLine(tl, FALSE).lnt)
    IN  linUseNeededSep(SelectSeq(lntToTokenList(lnt), LAMBDA t : t # "nl"))

-----------------------------------------------------------------------------
(* The writer.  A line has an indentation, perhaps a label, and items; an   *)
(* item is a tag, items in curly brackets, or a pile.  The directives of a  *)
(* pile are lines of their own and have no newline, so that what is behind  *)
(* #endpile is in the line that #pile began, at the margin.                 *)
Other == 9
Margin == 1

RECURSIVE LayPile(_), LayItems(_, _)
LayItems(items, col) ==
    FlattenSeq([i \in DOMAIN items |->
        LET c == IF i = 1 THEN col ELSE Other IN
        CASE items[i].kind = "tok"   -> <<LToken(items[i].tag, c)>>
          [] items[i].kind = "curly" ->
                <<LToken("{", c), LToken("nl", c)>> \o LayItems(items[i].of, 0)
                    \o <<LToken("nl", c), LToken("}", 0)>>
          [] items[i].kind = "pile"  -> LayPile(items[i].of)])
LayLine(line) ==
    (IF line.label THEN <<LToken("@", 0), LToken("w", 0)>> ELSE <<>>)
        \o LayItems(line.items, line.indent)
        \o (IF line.items # <<>> /\ Last(line.items).kind = "pile" THEN <<>>
             ELSE <<LToken("nl", Other)>>)
LayPile(lines) ==
    <<LToken("#pile", Margin)>>
        \o FlattenSeq([i \in DOMAIN lines |-> LayLine(lines[i])])
        \o <<LToken("#endpile", Margin)>>

Text(laid, of) == [laid |-> laid, of |-> of]
NoSource == Text(FALSE, <<>>)
LinearInit == source = NoSource /\ linErrors = FALSE /\ linear = <<"not yet">>

Write ==
    /\ source = NoSource
    /\ \/ \E p \in Piles : source' = Text(TRUE, p)
       \/ \E s \in Snippets : source' = Text(FALSE, s)
    /\ UNCHANGED <<linErrors, linear>>

Tokens == IF source.laid THEN LayPile(source.of) ELSE source.of

Linearize ==
    /\ source # NoSource /\ linear = <<"not yet">>
    /\ LET tl == Tokens IN linErrors' = linCheckBalance(Tags(tl)) /\ linear' = linearize(tl)
    /\ UNCHANGED source

LinearNext == Write \/ Linearize
LinearSpec == LinearInit /\ [][LinearNext]_linVars

-----------------------------------------------------------------------------
(* What a pile means, by the lines that belong together.                    *)

\* Without comments and the lines that are empty then.
Cleared(lines) ==
    LET Code(items) == SelectSeq(items, LAMBDA i : i.tag # "comment")
    IN  SelectSeq([i \in DOMAIN lines |-> [lines[i] EXCEPT !.items = Code(@)]],
                  LAMBDA l : l.items # <<>> \/ l.label)

\* The rules of the user guide (aldorug/formal.tex:379-405), line by line: lines
\* with the same column and none to the left between them are siblings, and
\* those behind the first sibling, as far as they are no further left, its group.
\* Between siblings stands BackSet, with exceptions; a group is enclosed if it
\* has more than one line of its column, or comes behind a word that opens a
\* pile.  A label alone goes with the line before it.
\*
\* A group of several lines with no BackSet between any of them is enclosed by
\* these rules, but not by joinUp (linear.c:1317) unless such a word is before
\* it.  It begins with Disputed in the place of SetTab.
Disputed == "SetTab?"
RECURSIVE OutItems(_), Meaning(_), ColumnOf(_)
\* A pile that ends another has the column of its first line.
ColumnOf(line) ==
    IF Len(line.items) = 1 /\ line.items[1].kind = "pile"
    THEN ColumnOf(Cleared(line.items[1].of)[1])
    ELSE line.indent
OutItems(items) ==
    FlattenSeq([i \in DOMAIN items |->
        CASE items[i].kind = "tok"   -> <<items[i].tag>>
          [] items[i].kind = "curly" -> <<"{">> \o OutItems(items[i].of) \o <<"}">>
          [] items[i].kind = "pile"  -> Meaning(Cleared(items[i].of))])
Meaning(lines) ==
    LET n == Len(lines)
        column[i \in 0 .. n] ==
            IF i = 0 THEN MootIndentation
            ELSE IF lines[i].items = <<>> THEN column[i - 1] ELSE ColumnOf(lines[i])
        Words(line) == (IF line.label THEN <<"@", "w">> ELSE <<>>) \o OutItems(line.items)
        RECURSIVE AllWords(_)
        AllWords(rest) ==
            IF rest = <<>> THEN <<>> ELSE <<Words(Head(rest))>> \o AllWords(Tail(rest))
        words == AllWords(lines)
        OnlyDoc(i) ==
            ~lines[i].label
            /\ \A k \in DOMAIN lines[i].items : lines[i].items[k].tag \in Documentation
        Sibling(i, j) ==
            i < j /\ column[i] = column[j] /\ \A m \in i + 1 .. j - 1 : column[m] > column[j]
        Starts(j) == \A i \in 1 .. j - 1 : ~Sibling(i, j)
        InGroup(f, j) == j >= f /\ \A m \in f .. j : column[m] >= column[f]
        Ending(j) ==
            {f \in 1 .. j : Starts(f) /\ InGroup(f, j) /\ (j = n \/ ~InGroup(f, j + 1))}
        Own(f) == {j \in f + 1 .. n : InGroup(f, j) /\ column[j] = column[f]}
        \* By the last word of each line.
        BehindOpener(f, last) == f > 1 /\ last[f - 1] \in {"then", "else", "with", "add"}
        Enclosed(f, last) == Own(f) # {} \/ BehindOpener(f, last)
        \* The lines that have a BackSet before them, and the last word of each.
        RECURSIVE From(_, _, _)
        From(j, back, last) ==
            LET separate ==
                    \E i \in 1 .. j - 1 :
                        /\ Sibling(i, j)
                        /\ \E m \in i .. j - 1 : ~OnlyDoc(m)
                        /\ last[j - 1] \notin Openers \cup {","}
                        /\ ~IsNonStarter(words[j][1])
                closed == \E f \in Ending(j) : Enclosed(f, last)
            IN  IF j > n THEN [back |-> back, last |-> last]
                ELSE From(j + 1, IF separate THEN back \cup {j} ELSE back,
                          Append(last, IF closed THEN "BackTab" ELSE Last(words[j])))
        all == From(1, {}, <<>>)
        IsEnclosed(f) == Enclosed(f, all.last)
        Opening(f) ==
            IF Own(f) \cap all.back = {} /\ ~BehindOpener(f, all.last) THEN Disputed ELSE "SetTab"
    IN  FlattenSeq([j \in 1 .. n |->
            (IF j \in all.back THEN <<"BackSet">> ELSE <<>>)
            \o (IF Starts(j) /\ IsEnclosed(j) THEN <<Opening(j)>> ELSE <<>>)
            \o words[j]
            \o [k \in 1 .. Cardinality({f \in Ending(j) : IsEnclosed(f)}) |-> "BackTab"]])

-----------------------------------------------------------------------------
(* Properties.                                                             *)

NoSeparators(tags) == SelectSeq(tags, LAMBDA t : t # ";")
\* After how many other tokens there is a ; .
Separators(tags) ==
    {Len(NoSeparators(SubSeq(tags, 1, i))) : i \in {k \in DOMAIN tags : tags[k] = ";"}}

\* Brackets cancel; what #pile is left over is closed by the end of the text.
RECURSIVE Cancelled(_)
Cancelled(tags) ==
    LET Pair(i) == <<tags[i], tags[i + 1]>> \in {<<"{", "}">>, <<"#pile", "#endpile">>}
    IN  IF \E i \in 1 .. Len(tags) - 1 : Pair(i)
        THEN LET i == CHOOSE i \in 1 .. Len(tags) - 1 : Pair(i)
             IN  Cancelled(SubSeq(tags, 1, i - 1) \o SubSeq(tags, i + 2, Len(tags)))
        ELSE tags

Marks == {"SetTab", "BackSet", "BackTab", Disputed, ";"}
NoMarks(tags) == SelectSeq(tags, LAMBDA t : t \notin Marks)

\* A text that a writer laid out becomes what the rules of layout say, with no
\* token lost, added or moved, however its lines are indented and its blocks
\* nested; a ; stands behind each } and where the text has one, but before what
\* starts nothing.  Where a pile of several lines has no BackSet in it the rules
\* and the code disagree, and it is said only that all tokens of the text are
\* kept in order.  A text that nobody laid out keeps its words and brackets, and
\* an error is reported just when brackets do not match.
LayoutMeant ==
    linear # <<"not yet">> =>
        IF source.laid
        THEN LET meaning == Meaning(Cleared(source.of))
                 words == NoSeparators(meaning)
             IN  /\ ~linErrors
                 /\ NoMarks(linear) = NoMarks(meaning)
                 /\ ~Contains(meaning, Disputed) =>
                        /\ NoSeparators(linear) = words
                        /\ Separators(linear) =
                               {k \in Separators(meaning) \cup {i \in DOMAIN words : words[i] = "}"} :
                                   k \in 1 .. Len(words) - 1 /\ ~IsNonStarter(words[k + 1])}
        ELSE /\ LET In(t) == t \in {"w", "{", "}"}
                IN  SelectSeq(linear, In) = SelectSeq(Tags(source.of), In)
             /\ LET left == Cancelled(SelectSeq(Tags(source.of), LAMBDA t : t \notin {"w", "nl"}))
                IN  linErrors <=> \E i \in DOMAIN left : left[i] # "#pile"
=============================================================================
