----------------------------- MODULE CommandLine -----------------------------
(***************************************************************************)
(* How the three shells take a line apart: build_cmd_list() of ShellP1,    *)
(* build_cmd_buff() of ShellP2, and build_cmd_list() with build_cmd_buff() *)
(* of ShellP3 (RShell has the same text).  Each is a pure function of the  *)
(* line, which is typed here a character at a time.                        *)
(***************************************************************************)
EXTENDS Integers, Sequences, FiniteSets, SequencesExt

CONSTANTS Letters, \* characters of words
          MaxLine, \* characters of a line
          CmdMax,  \* CMD_MAX
          ArgvMax, \* CMD_ARGV_MAX of ShellP3
          Argv2Max, \* CMD_ARGV_MAX of ShellP2
          ExeMax,  \* EXE_MAX
          ArgMax   \* ARG_MAX

Blanks == {" ", "\t"}
Quote  == "\""
Pipe   == "|"

ASSUME LettersAssumption == Letters \cap (Blanks \cup {Quote, Pipe}) = {}
ASSUME BoundsAssumption ==
  MaxLine \in Nat /\ {CmdMax, ArgvMax, Argv2Max, ExeMax, ArgMax} \subseteq Nat \ {0}
\* There is room for a character and its NUL, for a word and its NULL.
ASSUME RoomAssumption == ExeMax > 1 /\ ArgvMax > 1

Chars == Letters \cup Blanks \cup {Quote, Pipe}

VARIABLE line

Init == line = <<>>

Type(c) == Len(line) < MaxLine /\ line' = Append(line, c)

Next == \E c \in Chars : Type(c)

Spec == Init /\ [][Next]_line

-----------------------------------------------------------------------------
(***************************************************************************)
(* The library.                                                            *)
(***************************************************************************)
\* The n-th of a set of places, from the left.
Nth(S, n) == CHOOSE k \in S : Cardinality({m \in S : m <= k}) = n

\* The members of s at the places S, in their order.
At(s, S) == [n \in 1..Cardinality(S) |-> s[Nth(S, n)]]

\* strtok(): the longest parts of s without a separator, in their order.  Each ends
\* before the first separator behind its start.
Inside(s, seps, k) == k \in DOMAIN s /\ s[k] \notin seps
Starts(s, seps) == {k \in DOMAIN s : Inside(s, seps, k) /\ ~Inside(s, seps, k - 1)}
EndOf(s, seps, k) == CHOOSE e \in k..Len(s) : /\ \A m \in k..e : Inside(s, seps, m)
                                             /\ ~Inside(s, seps, e + 1)

Tokens(s, seps) ==
  At([k \in Starts(s, seps) |-> SubSeq(s, k, EndOf(s, seps, k))], Starts(s, seps))

First(s, n) == SubSeq(s, 1, IF Len(s) < n THEN Len(s) ELSE n)

\* s without the blanks at its ends.
Trimmed(s, blanks) ==
  LET Solid == {k \in DOMAIN s : s[k] \notin blanks}
  IN  IF Solid = {} THEN <<>>
      ELSE SubSeq(s, Min(Solid), Max(Solid))

-----------------------------------------------------------------------------
(***************************************************************************)
(* ShellP1: the commands with their exe and args; args, in the code one    *)
(* string, are its words here.                                             *)
(***************************************************************************)
\* strlen() of the args that are the words ws with spaces between them.
StrLen(ws) == IF ws = <<>> THEN 0 ELSE Len(FlattenSeq(ws)) + Len(ws) - 1

\* Some word after the first does not fit into args any more.
TooBig(ws) ==
  \E n \in 2..Len(ws) : StrLen(SubSeq(ws, 2, n - 1)) + Len(ws[n]) + 1 >= ArgMax

\* Mutant: the name of the program is the last word.
Command1_LastWord(s) ==
  LET ws == Tokens(s, {" "})
  IN  [exe  |-> IF ws = <<>> THEN <<>> ELSE First(ws[Len(ws)], ExeMax - 1),
       args |-> IF ws = <<>> THEN <<>> ELSE Tail(ws)]

\* A blank command has an empty exe.
Command1(s) ==
  LET ws == Tokens(s, {" "})
  IN  [exe  |-> IF ws = <<>> THEN <<>> ELSE First(ws[1], ExeMax - 1),
       args |-> IF ws = <<>> THEN <<>> ELSE Tail(ws)]

ShellP1(s) ==
  LET t     == Trimmed(s, {" "})
      parts == Tokens(t, {Pipe})
      cmds  == First(parts, CmdMax)
      Fail(e) == [rc |-> e, cmds |-> <<>>]
  IN  CASE t = <<>> -> Fail("WARN_NO_CMDS")
        [] \E n \in DOMAIN cmds : TooBig(Tokens(cmds[n], {" "}))
             -> Fail("ERR_CMD_OR_ARGS_TOO_BIG")
        [] OTHER
             -> IF Len(parts) > CmdMax THEN Fail("ERR_TOO_MANY_COMMANDS")
                ELSE [rc |-> "OK", cmds |-> [n \in DOMAIN cmds |-> Command1(cmds[n])]]

-----------------------------------------------------------------------------
(***************************************************************************)
(* ShellP3: the argv of every command of the line.                         *)
(***************************************************************************)
\* Mutant: the limit leaves no place for the NULL at the end of argv.
Argv_NoNull(s) == First(Tokens(s, {" "}), ArgvMax)

\* Mutant: the limit is one word too low.
Argv_OneLess(s) == First(Tokens(s, {" "}), ArgvMax - 2)

\* build_cmd_buff() stops with an error at the word that has no place.
Argv(s) == First(Tokens(s, {" "}), ArgvMax - 1)

BadArgs(s) == Len(Tokens(s, {" "})) >= ArgvMax

\* The commands between the pipes, blank ones left out.
AllStages(s) ==
  LET parts   == Tokens(s, {Pipe})
      trimmed == [n \in DOMAIN parts |-> Trimmed(parts[n], Blanks)]
  IN  At(trimmed, {n \in DOMAIN parts : trimmed[n] # <<>>})

\* Those after CMD_MAX are dropped without an error.
Stages(s) == First(AllStages(s), CmdMax)

Piped(s) == Contains(s, Pipe)

\* exec_local_cmd_loop() looks for an error of build_cmd_buff(), and
\* build_cmd_list() does not.
ShellP3(s) ==
  LET stages == Stages(s)
  IN  CASE s = <<>> \/ (Piped(s) /\ stages = <<>>)
             -> [rc |-> "WARN_NO_CMDS", cmds |-> <<>>]
        [] Piped(s) /\ stages # <<>>
             -> [rc |-> "OK", cmds |-> [n \in DOMAIN stages |-> Argv(stages[n])]]
        [] s # <<>> /\ ~Piped(s)
             -> IF BadArgs(s) THEN [rc |-> "ERR_CMD_OR_ARGS_TOO_BIG", cmds |-> <<>>]
                              ELSE [rc |-> "OK", cmds |-> <<Argv(s)>>]

-----------------------------------------------------------------------------
(***************************************************************************)
(* ShellP2: one loop over the characters.  An argument is a pointer into   *)
(* the line, and ends where the loop put a NUL.                            *)
(***************************************************************************)
NoArg == 0

\* Mutant: arg_start is not reset at the space behind an argument.
OnBlank_KeepsStart(st, k) ==
  [st EXCEPT !.nuls = @ \cup {k},
             !.argv = IF st.start = NoArg THEN @ ELSE Append(@, st.start)]

\* isspace() outside quotes.
OnBlank(st, k) ==
  [st EXCEPT !.nuls = @ \cup {k},
             !.argv = IF st.start = NoArg THEN @ ELSE Append(@, st.start),
             !.start = NoArg]

\* Mutant: an argument in quotes ends at its first space.
OnQuote_AsBlank(st, k) ==
  [OnBlank(st, k) EXCEPT !.start = k + 1]

\* arg_start is left where it is at the closing quote.
OnQuote(st, k) ==
  IF st.quoted
    THEN [st EXCEPT !.quoted = FALSE, !.nuls = @ \cup {k}, !.argv = Append(@, st.start)]
    ELSE [st EXCEPT !.quoted = TRUE, !.start = k + 1]

OnChar(st, s, k) ==
  CASE s[k] = Quote -> OnQuote(st, k)
    [] s[k] \in Blanks /\ ~st.quoted -> OnBlank(st, k)
    [] OTHER -> [st EXCEPT !.start = IF @ = NoArg THEN k ELSE @]

\* What the loop has after each number of characters.
Loop(s) ==
  LET st[k \in 0..Len(s)] ==
        IF k = 0 THEN [quoted |-> FALSE, start |-> NoArg, nuls |-> {}, argv |-> <<>>]
                 ELSE OnChar(st[k - 1], s, k)
  IN  st

\* The NUL that ends an argument: the first one from its start on.
Stop(s, nuls, p) ==
  CHOOSE k \in p..Len(s) + 1 : k \in nuls \cup {Len(s) + 1} /\ nuls \cap p..k - 1 = {}

\* The arguments that the loop finds, if argv has a place for each.
Found(s) ==
  LET st   == Loop(s)[Len(s)]
      argv == IF st.start = NoArg THEN st.argv ELSE Append(st.argv, st.start)
  IN  [n \in DOMAIN argv |-> SubSeq(s, argv[n], Stop(s, st.nuls, argv[n]) - 1)]

\* The loop has no limit.  Arguments without a place, or that leave none for the
\* NULL, are written behind argv[CMD_ARGV_MAX]: undefined behaviour, after which
\* nothing is said of the arguments ("overrun").  LocalShell takes the outcome of
\* the build for such a line of more than ten words ("toomany").
ShellP2(s) ==
  CASE Found(s) = <<>>           -> [rc |-> "WARN_NO_CMDS", cmds |-> <<>>]
    [] Len(Found(s)) >= Argv2Max -> [rc |-> "overrun", cmds |-> <<>>]
    [] OTHER                     -> [rc |-> "OK", cmds |-> <<Found(s)>>]

-----------------------------------------------------------------------------
(***************************************************************************)
(* Properties.                                                             *)
(***************************************************************************)
\* What ShellP1 and ShellP3 fill stays in its arrays, with their NUL and NULL.  The
\* argv of ShellP2 does not: see ShellP2().
TypeOK ==
  /\ line \in Seq(Chars) /\ Len(line) <= MaxLine
  /\ LET p1 == ShellP1(line).cmds
         p3 == ShellP3(line).cmds
     IN  /\ Len(p1) <= CmdMax /\ Len(p3) <= CmdMax
         /\ \A n \in DOMAIN p1 : Len(p1[n].exe) < ExeMax /\ StrLen(p1[n].args) < ArgMax
         /\ \A n \in DOMAIN p3 : Len(p3[n]) < ArgvMax

Has(C) == \E k \in DOMAIN line : line[k] \in C

\* Every name of a program that ShellP3 finds fits into the exe of ShellP1.
NamesFit ==
  \A n \in DOMAIN ShellP3(line).cmds :
    LET argv == ShellP3(line).cmds[n] IN argv # <<>> => Len(argv[1]) < ExeMax

\* ShellP1 and ShellP3 find the same commands in a line that both accept, but for
\* what they are known to differ in.  Blank commands count only in ShellP1.  A tab
\* is a blank at the ends of a command in ShellP3 and never one in ShellP1, so
\* lines with tabs are left out.  So are names too long for exe: ShellP1 cuts them
\* and returns OK, where ShellP1/dshlib.c:28-30 promises ERR_CMD_OR_ARGS_TOO_BIG.
\* A command of a pipeline with more words than argv takes is compared as far as
\* argv goes, since ShellP3 drops the rest without an error.
P1AgreesWithP3 ==
  LET p1 == ShellP1(line)
      p3 == ShellP3(line)
  IN  p1.rc = "OK" /\ p3.rc = "OK" /\ NamesFit /\ ~Has({"\t"}) =>
        LET Named == At(p1.cmds, {n \in DOMAIN p1.cmds : p1.cmds[n].exe # <<>>})
        IN  /\ Len(Named) = Len(p3.cmds)
            /\ \A n \in DOMAIN Named :
                 /\ Named[n].exe = p3.cmds[n][1]
                 /\ First(Named[n].args, ArgvMax - 2) = Tail(p3.cmds[n])

\* ShellP3 loses no word and changes no order, unless the line has more commands
\* or a command more words than there is place for.
P3KeepsWords ==
  LET p3   == ShellP3(line)
      full == \/ Len(Tokens(line, {Pipe})) > CmdMax
              \/ \E n \in DOMAIN Tokens(line, {Pipe}) :
                   BadArgs(Tokens(line, {Pipe})[n])
  IN  p3.rc = "OK" /\ ~full /\ ~Has({"\t"}) =>
        FlattenSeq(p3.cmds) = Tokens(line, {" ", Pipe})

\* What a line means to the user of ShellP2: quotes keep blanks together.
Quoted(k)  == Cardinality({m \in 1..k : line[m] = Quote}) % 2 = 1
Parts      == {k \in DOMAIN line : line[k] \in Blanks => Quoted(k)}
PartStarts == {k \in Parts : k - 1 \notin Parts}
PartEnd(k) == CHOOSE m \in k..Len(line) : k..m \subseteq Parts /\ m + 1 \notin Parts
Words      == At([k \in PartStarts |-> SubSeq(line, k, PartEnd(k))], PartStarts)

InQuotes(w)  == w[1] = Quote
Unquoted(w)  == At(w, {k \in DOMAIN w : w[k] # Quote})

\* Every quote begins or ends a word, and no word has more than two.
WellQuoted ==
  \A n \in DOMAIN Words :
    LET w == Words[n]
        Q == {k \in DOMAIN w : w[k] = Quote}
    IN  Q = {} \/ (Q = {1, Len(w)} /\ Len(w) > 1)

\* What the words of the line give: one in quotes is given twice.
Twice ==
  FlattenSeq([n \in DOMAIN Words |->
    IF InQuotes(Words[n]) THEN <<Unquoted(Words[n]), Unquoted(Words[n])>>
                          ELSE <<Words[n]>>])

\* argv of ShellP2 for the arguments that a line should give.
Filled(args) == IF args = <<>> THEN <<>> ELSE <<args>>

\* ShellP2 keeps the blanks in quotes and the order of the arguments, but gives
\* an argument in quotes twice; this as long as argv has room for them and its
\* NULL.  It refuses no other line: it overruns argv.
P2KeepsWords ==
  WellQuoted =>
    IF Len(Twice) < Argv2Max THEN ShellP2(line).cmds = Filled(Twice)
                            ELSE ShellP2(line).rc = "overrun"

\* Where quotes, pipes and tabs play no part ShellP2, which looks at every character,
\* and ShellP3, which uses strtok(), give a program the same arguments.  A line of
\* spaces, which ShellP3 accepts, has none.  Lines that overrun argv of ShellP2 are
\* left out.
P2AgreesWithP3 ==
  LET p3 == ShellP3(line)
  IN  p3.rc = "OK" /\ ~Has({Quote, Pipe, "\t"}) /\ Len(p3.cmds[1]) < Argv2Max =>
        ShellP2(line).cmds = Filled(p3.cmds[1])

\* An argument in quotes is one argument, not two (ShellP2/questions.md:41), at
\* least where argv has room for what the code makes of the line.
QuotedIsOneArgument ==
  WellQuoted /\ Len(Twice) < Argv2Max =>
    ShellP2(line).cmds = Filled([n \in DOMAIN Words |-> Unquoted(Words[n])])
=============================================================================
