------------------------------ MODULE Include ------------------------------
(* The source includer, include.c: #if with its branches, files that are    *)
(* included in each other, and the properties they assert.                  *)
(*                                                                          *)
(* inclFile and inclHandleIf bind the fluid variable ifState, set it and    *)
(* call inclFileContents, which reads lines until the file or the #if ends: *)
(* the frames of these two functions are the "calls" of Fluid.  A file's    *)
(* text is chosen line by line as it is read, and stays what it was if the  *)
(* file is read again.  Lists of lines are reversed, as in the code.        *)
EXTENDS Fluid, FiniteSets

CONSTANTS
    File, Main,        \* the files there are; includeFile is called with Main
    Kits               \* what texts are made of: [lines, limit] (bound)

IfState == {"NoIf", "ActiveIf", "InactiveIf", "FormerlyActiveIf"}

ASSUME InclConstants == Main \in File /\ "ifState" \in FluidVars

VARIABLES
    kit,               \* the kit of this source
    text, ended,       \* [file -> lines known so far], files whose end is known
    fileState,         \* the file read, the lines read of it, and fileCodes
    includedFileCodes,
    localAssertList,
    inclSerialLineNo,
    sll,               \* the lists of inclFileContents, one for each frame
    d_sll,             \* what inclHandleDirective returned
    inclPhase,         \* "idle", "line", "directive" or "done"
    inclErrors,        \* messages: [msg, serial]
    result,            \* what includeFile returns
    taken,             \* history: text lines read when INCLUDING
    meant,             \* history: see ReadsRight, below
    turnedOn, again    \* history: see TurnProperty, below

properties == <<turnedOn, again>>
inclVars == <<kit, text, ended, fileState, includedFileCodes, localAssertList,
              inclSerialLineNo, sll, d_sll, inclPhase, inclErrors, result, taken, meant,
              properties>>

NoFile == [file |-> Main, pos |-> 0, codes |-> <<>>]
EndifLine == <<[serial |-> 0, op |-> "endif", isEndifLine |-> TRUE]>>

InclInit ==
    /\ kit \in Kits
    /\ text = [f \in File |-> <<>>] /\ ended = {}
    /\ fileState = NoFile /\ includedFileCodes = {} /\ localAssertList = <<>>
    /\ inclSerialLineNo = 0 /\ sll = <<>> /\ d_sll = <<>>
    /\ inclPhase = "idle" /\ inclErrors = {} /\ result = <<>>
    /\ taken = <<>> /\ meant = <<>> /\ turnedOn = {} /\ again = {}

ifState == global["ifState"]
INCLUDING == ifState \in {"NoIf", "ActiveIf"}
IsAssert(p) == Contains(localAssertList, p)

\* The line being read is number inclSerialLineNo', and fileState is past it.
SrcLine(op) == [serial |-> inclSerialLineNo', op |-> op, isEndifLine |-> op = "endif"]

addSysCmd(list, line) == Append(list, line)
isThisEndifLine(d) == d = EndifLine \/ (d # <<>> /\ Last(d).isEndifLine)

InclError(msg) == inclErrors' = inclErrors \cup {[msg |-> msg, serial |-> inclSerialLineNo']}
NoError == UNCHANGED inclErrors
PastLine == [fileState EXCEPT !.pos = @ + 1]

-----------------------------------------------------------------------------
(* What the source says, read without the code's states: a condition is     *)
(* "on" while the lines of its present branch are wanted, "done" when one   *)
(* of its branches has been, "elsed" after #else, and "odd" when a branch   *)
(* comes after #else or tests a property that is Unclear.  "meant" has the  *)
(* open conditions of each open file.                                       *)

\* #assert turns a property on and #unassert turns it off, as formal.tex:35-40
\* has it, however often it is on in the code's list; "again" has those that
\* were asserted when they were on.
TurnProperty(l) ==
    /\ turnedOn' = CASE INCLUDING /\ l.op = "assert"   -> turnedOn \cup {l.arg}
                     [] INCLUDING /\ l.op = "unassert" -> turnedOn \ {l.arg}
                     [] OTHER                          -> turnedOn
    /\ again' = IF INCLUDING /\ l.op = "assert" THEN again \cup (turnedOn \cap {l.arg})
                ELSE again

\* It is off, but was asserted more than once: where INCL_Unassert
\* (include.c:270) takes one entry off the list and another is left.
Unclear(p) == p \in again \ turnedOn

NewCondition(b, unclear) == [on |-> b, done |-> b, elsed |-> FALSE, odd |-> unclear]
NextBranch(c, b, isElse, unclear) ==
    [on |-> b /\ ~c.done, done |-> c.done \/ b, elsed |-> isElse,
     odd |-> c.odd \/ c.elsed \/ unclear]

Here == Last(meant)
InFile(cs) == [meant EXCEPT ![Len(meant)] = cs]
Branch(b, isElse, unclear) ==
    IF Here = <<>> THEN meant
    ELSE InFile(Append(Front(Here), NextBranch(Last(Here), b, isElse, unclear)))

MeantAfter(l) ==
    CASE l.op = "if"     -> InFile(Append(Here, NewCondition(l.arg \in turnedOn, Unclear(l.arg))))
      [] l.op = "elseif" -> Branch(l.arg \in turnedOn, FALSE, Unclear(l.arg))
      [] l.op = "else"   -> Branch(TRUE, TRUE, FALSE)
      [] l.op = "endif"  -> IF Here = <<>> THEN Front(meant) ELSE InFile(Front(Here))
      [] OTHER           -> meant

-----------------------------------------------------------------------------
(* inclFile, up to inclFileContents: the file is entered, or its directive  *)
(* is all there is to see.                                                  *)

\* inclHandleIf and inclFile: a frame with ifState bound and given a value.
Enter(state, own) ==
    /\ Scope(<<"ifState">>, own, [global EXCEPT !["ifState"] = state])
    /\ sll' = Append(sll, <<>>)
    /\ inclPhase' = "line"

\* What a directive handler returns to inclLine, with no frame of its own.
Answer(d) ==
    /\ d_sll' = d /\ inclPhase' = "directive"
    /\ UNCHANGED <<fluidVars, sll>>

InclFile(f, line, o_fileState) ==
    /\ includedFileCodes' = includedFileCodes \cup {f}
    /\ fileState' = [file |-> f, pos |-> 0, codes |-> Append(fileState.codes, f)]
    /\ Enter("NoIf", [kind |-> "file", line |-> line, o_fileState |-> o_fileState])

IncludeFile ==
    /\ inclPhase = "idle"
    /\ InclFile(Main, <<>>, fileState)
    /\ meant' = <<<<>>>>
    /\ UNCHANGED <<kit, text, ended, localAssertList, inclSerialLineNo, d_sll,
                   inclErrors, result, taken, properties, fluidOps>>

-----------------------------------------------------------------------------
(* The directives, inclHandleDirective.  Each is given the line l.          *)

\* A directive that is passed on, or asserts something, where lines count.
HandlePlain(l) ==
    /\ l.op \in {"assert", "unassert", "unknown"}
    /\ Answer(IF INCLUDING THEN addSysCmd(<<>>, SrcLine(l.op)) ELSE <<>>)
    /\ localAssertList' =
         IF ~INCLUDING THEN localAssertList
         ELSE CASE l.op = "assert"   -> <<l.arg>> \o localAssertList
                [] l.op = "unassert" -> RemoveFirst(localAssertList, l.arg)
                [] OTHER             -> localAssertList
    /\ fileState' = PastLine
    /\ NoError /\ UNCHANGED includedFileCodes

\* botchSysCmd: a directive that cannot be read is kept in any branch.
HandleBotched(l) ==
    /\ l.op = "botched"
    /\ InclError("SysCmdBad")
    /\ Answer(addSysCmd(<<>>, SrcLine(l.op)))
    /\ fileState' = PastLine
    /\ UNCHANGED <<includedFileCodes, localAssertList>>

\* #include, #reinclude.
HandleInclude(l) ==
    /\ l.op \in {"include", "reinclude"}
    /\ UNCHANGED localAssertList
    /\ \/ /\ INCLUDING
          /\ l.arg \in File
          /\ l.op = "reinclude" \/ l.arg \notin includedFileCodes
          /\ ~Contains(fileState.codes, l.arg)
          /\ InclFile(l.arg, SrcLine(l.op), PastLine)
          /\ NoError /\ UNCHANGED <<d_sll>>
       \/ /\ INCLUDING
          /\ l.arg \in File => \/ l.op = "include" /\ l.arg \in includedFileCodes
                               \/ Contains(fileState.codes, l.arg)
          /\ IF l.arg \notin File THEN InclError("CantOpen")
             ELSE IF l.op = "include" /\ l.arg \in includedFileCodes THEN NoError
             ELSE InclError("InclInfinite")
          /\ Answer(addSysCmd(<<>>, SrcLine(l.op)))
          /\ fileState' = PastLine
          /\ UNCHANGED includedFileCodes
       \/ /\ ~INCLUDING
          /\ Answer(<<>>)
          /\ fileState' = PastLine
          /\ NoError /\ UNCHANGED includedFileCodes

\* Mutant of HandleIf: an #if among lines that are skipped is like any other.
HandleIfAnywhere(l) ==
    /\ l.op = "if"
    /\ Enter(IF IsAssert(l.arg) THEN "ActiveIf" ELSE "InactiveIf",
             [kind |-> "if", line |-> SrcLine(l.op)])
    /\ fileState' = PastLine
    /\ NoError /\ UNCHANGED <<d_sll, includedFileCodes, localAssertList>>

HandleIf(l) ==
    /\ l.op = "if"
    /\ IF INCLUDING
       THEN Enter(IF IsAssert(l.arg) THEN "ActiveIf" ELSE "InactiveIf",
                  [kind |-> "if", line |-> SrcLine(l.op)])
       ELSE Enter("FormerlyActiveIf", [kind |-> "skipped"])
    /\ fileState' = PastLine
    /\ NoError /\ UNCHANGED <<d_sll, includedFileCodes, localAssertList>>

\* A directive of the present #if: its next state, and what it returns.
SetIfState(state, d) ==
    /\ global' = [global EXCEPT !["ifState"] = state]
    /\ d_sll' = d /\ inclPhase' = "directive"
    /\ UNCHANGED <<fluidStack, scopeLevel, calls, improper, fluidOps, sll>>

HandleElseif(l) ==
    /\ l.op = "elseif"
    /\ IF ifState = "NoIf" THEN InclError("InclUnbalElseif") ELSE NoError
    /\ SetIfState(
         CASE ifState = "NoIf" -> "NoIf"
           [] ifState = "InactiveIf" -> IF IsAssert(l.arg) THEN "ActiveIf" ELSE "InactiveIf"
           [] OTHER -> "FormerlyActiveIf",
         IF ifState = "FormerlyActiveIf" THEN <<>> ELSE addSysCmd(<<>>, SrcLine(l.op)))
    /\ fileState' = PastLine
    /\ UNCHANGED <<includedFileCodes, localAssertList>>

HandleElse(l) ==
    /\ l.op = "else"
    /\ IF ifState = "NoIf" THEN InclError("InclUnbalElse") ELSE NoError
    /\ SetIfState(
         CASE ifState = "ActiveIf"   -> "InactiveIf"
           [] ifState = "InactiveIf" -> "ActiveIf"
           [] OTHER                  -> ifState,
         IF ifState = "FormerlyActiveIf" THEN <<>> ELSE addSysCmd(<<>>, SrcLine(l.op)))
    /\ fileState' = PastLine
    /\ UNCHANGED <<includedFileCodes, localAssertList>>

HandleEndif(l) ==
    /\ l.op = "endif"
    /\ IF ifState = "NoIf" THEN InclError("InclUnbalEndif") ELSE NoError
    /\ Answer(IF ifState = "FormerlyActiveIf" THEN EndifLine ELSE addSysCmd(<<>>, SrcLine(l.op)))
    /\ fileState' = PastLine
    /\ UNCHANGED <<includedFileCodes, localAssertList>>

-----------------------------------------------------------------------------
(* inclLine and inclFileContents.                                           *)

\* inclFileContents ends with this list, and so does the function it was
\* called by.
EndContents(list) ==
    LET own == Last(calls).own
    IN /\ Return
       /\ sll' = Front(sll)
       /\ fileState' = IF own.kind = "file" THEN own.o_fileState ELSE fileState
       /\ IF Len(calls) = 1
          THEN result' = Reverse(list) /\ inclPhase' = "done" /\ UNCHANGED d_sll
          ELSE /\ d_sll' = IF own.kind = "skipped" THEN list ELSE addSysCmd(list, own.line)
               /\ inclPhase' = "directive"
               /\ UNCHANGED result
       /\ UNCHANGED <<kit, text, includedFileCodes, localAssertList,
                      inclSerialLineNo, taken, properties, fluidOps>>

\* The lines that may come next in the file that is read.
Known == text[fileState.file]
Limit == FoldFunction(LAMBDA s, n : Len(s) + n, 0, text) = kit.limit
NextLines ==
    IF fileState.pos < Len(Known) THEN {Known[fileState.pos + 1]}
    ELSE IF fileState.file \in ended \/ Limit THEN {}
    ELSE kit.lines

NextLine(l) ==
    /\ inclPhase = "line"
    /\ text' = [text EXCEPT ![fileState.file] =
                    IF fileState.pos < Len(@) THEN @ ELSE Append(@, l)]
    /\ inclSerialLineNo' = inclSerialLineNo + 1
    /\ UNCHANGED <<kit, ended, result>>

ReadText ==
    \E l \in NextLines :
        /\ l.op = "text"
        /\ NextLine(l)
        /\ fileState' = PastLine
        /\ IF INCLUDING
           THEN /\ sll' = [sll EXCEPT ![Len(sll)] = <<SrcLine(l.op)>> \o @]
                /\ taken' = Append(taken, inclSerialLineNo')
           ELSE UNCHANGED <<sll, taken>>
        /\ UNCHANGED <<includedFileCodes, localAssertList, d_sll, inclPhase, inclErrors,
                       meant, properties, fluidVars>>

ReadDirective ==
    \E l \in NextLines :
        /\ NextLine(l)
        /\ \/ HandlePlain(l) \/ HandleBotched(l) \/ HandleInclude(l)
           \/ HandleIf(l) \/ HandleElseif(l) \/ HandleElse(l) \/ HandleEndif(l)
        /\ meant' = IF l.op \in {"include", "reinclude"} /\ Len(calls') > Len(calls)
                    THEN Append(meant, <<>>) ELSE MeantAfter(l)
        /\ TurnProperty(l)
        /\ UNCHANGED <<taken, fluidOps>>

\* Mutant of ReadEof: an #if that is open at the end of the file goes on being read.
ReadEofGoesOn ==
    /\ inclPhase = "line"
    /\ fileState.pos = Len(Known)
    /\ ended' = ended \cup {fileState.file}
    /\ IF ifState = "NoIf"
       THEN EndContents(Last(sll)) /\ meant' = Front(meant) /\ NoError
       ELSE /\ inclErrors' = inclErrors \cup {[msg |-> "InclIfEof", serial |-> inclSerialLineNo]}
            /\ UNCHANGED <<kit, text, fileState, includedFileCodes, localAssertList, meant,
                           inclSerialLineNo, sll, d_sll, inclPhase, result, taken,
                           properties, fluidVars>>

\* The end of the file, for each function that reads it.
ReadEof ==
    /\ inclPhase = "line"
    /\ fileState.pos = Len(Known)
    /\ ended' = ended \cup {fileState.file}
    /\ inclErrors' = IF ifState = "NoIf" THEN inclErrors
                     ELSE inclErrors \cup {[msg |-> "InclIfEof", serial |-> inclSerialLineNo]}
    /\ meant' = IF Here = <<>> THEN Front(meant) ELSE InFile(Front(Here))
    /\ EndContents(Last(sll))

\* inclLine with what the handler returned.
TakeDirective ==
    /\ inclPhase = "directive"
    /\ IF isThisEndifLine(d_sll)
       THEN /\ EndContents(IF d_sll = EndifLine THEN Last(sll) ELSE d_sll \o Last(sll))
            /\ UNCHANGED <<ended, inclErrors, meant>>
       ELSE /\ sll' = [sll EXCEPT ![Len(sll)] = d_sll \o @]
            /\ inclPhase' = "line" /\ d_sll' = <<>>
            /\ UNCHANGED <<kit, text, ended, fileState, includedFileCodes, localAssertList,
                           inclSerialLineNo, inclErrors, result, taken, meant, properties,
                           fluidVars>>

InclNext == IncludeFile \/ ReadText \/ ReadDirective \/ ReadEof \/ TakeDirective
InclSpec ==
    /\ \E value \in [FluidVars -> FluidValues] : FluidInit(value)
    /\ InclInit
    /\ [][InclNext]_<<fluidVars, inclVars>>

-----------------------------------------------------------------------------
\* Whenever a line is read, the one state of the innermost #if says what the
\* source says with all the conditions open in this file: every one is in the
\* branch that is wanted.  It is so after files that were included from any
\* branch, that leave an #if open, or that end at an #endif they did not open,
\* and after any #assert's and #unassert's.  Two cases are left out, in which
\* the code does not do what its manual says: a branch after #else, which
\* include.c:673 turns on again, and the test of a property that was asserted
\* twice and is unasserted once, which include.c:270 leaves on.  At the end the
\* lines are in the order they were read, and the text among them is what was
\* read while lines counted, each once.
ReadsRight ==
    /\ inclPhase = "line" =>
        /\ Len(meant) = Len(fileState.codes)
        /\ (\A i \in 1 .. Len(Here) : ~Here[i].odd) =>
                (INCLUDING <=> \A i \in 1 .. Len(Here) : Here[i].on)
    /\ inclPhase = "done" =>
        /\ \A i \in 1 .. Len(result) - 1 : result[i].serial < result[i + 1].serial
        /\ {sl.serial : sl \in {l \in ToSet(result) : l.op = "text"}} = ToSet(taken)
=============================================================================
