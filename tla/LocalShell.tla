----------------------------- MODULE LocalShell -----------------------------
(***************************************************************************)
(* exec_local_cmd_loop() of ShellP3/dshlib.c (RShell/dshlib.c is the same  *)
(* text), "P3", and of ShellP2/dshlib.c, "P2", on an input that is a file  *)
(* or a pipe, with an output that is not a terminal either.                *)
(*                                                                         *)
(* The shell reads with fgets(), so the lines it has not executed yet may  *)
(* be in its stdio buffer, and the offset behind standard input is shared  *)
(* with its children.  A child that cannot execute its program calls       *)
(* exit(), which gives the unread part of its copy of that buffer back to  *)
(* the file: it moves the shared offset.  It also writes its copy of what  *)
(* the shell has printed and not flushed.  execute_pipeline() is in module *)
(* Pipeline; here only its first stage counts, whose input is the shell's. *)
(*                                                                         *)
(* A line is what one fgets() returns, and all lines are of one length.    *)
(***************************************************************************)
EXTENDS Integers, Sequences

CONSTANTS Shells,    \* the loops: "P2" and "P3"
          LineKinds, \* what the lines of the input are
          MaxLines, \* lines of the input
          BufLines, \* lines that the stdio buffer holds
          MaxRan,   \* lines that the shell takes from its buffer
          Faults    \* system calls that may fail

ASSUME BoundsAssumption ==
  MaxLines \in Nat /\ BufLines \in Nat \ {0} /\ MaxRan \in Nat
ASSUME FaultsAssumption == Faults \subseteq {"malloc", "pipe", "fork"}

\* What a line is: empty, spaces only, "exit", "exit" with spaces or arguments,
\* "cd", a command of more than ten words, pipe characters only; or a command, a
\* pipeline of which the first program ends by itself, is not found, or reads
\* its standard input to the end.
Commands  == {"cmd", "nocmd", "reader"}
Pipelines == {"cmd|", "nocmd|", "reader|"}
Missing   == {"nocmd", "nocmd|"}
Readers   == {"reader", "reader|"}
Programs  == Commands \cup Pipelines
Kinds     == {"empty", "blank", "exit", " exit", "cd", "toomany", "|"}
           \cup Programs

ASSUME LineKindsAssumption == LineKinds \subseteq Kinds /\ Shells \subseteq {"P2", "P3"}

VARIABLES shell,    \* which loop this is
          script,   \* the lines of the input
          seekable, \* the input is a file
          off,      \* lines before the offset of the open file description
          next,     \* the stdio buffer holds the lines next..last
          last,
          pc,       \* "prompt", "line", "wait", "ended" or "crashed"
          ran,      \* the lines that fgets() returned
          kids,     \* children that have not ended
          unsaid,   \* the stdio buffer of standard output is not empty
          repeated  \* history: a child has written what the shell writes, too

vars == <<shell, script, seekable, off, next, last, pc, ran, kids, unsaid, repeated>>

\* A child: the place in ran of the line that it executes, the number of lines
\* in its copy of the input buffer, and whether its copy of the output is empty.
Kid == [at : 1..MaxRan, held : 0..BufLines, unsaid : BOOLEAN]

TypeOK ==
  /\ shell \in Shells
  /\ script \in Seq(LineKinds) /\ Len(script) <= MaxLines
  /\ seekable \in BOOLEAN
  /\ off \in 0..Len(script)
  /\ next \in 1..Len(script) + 1 /\ last \in 0..Len(script)
  /\ last - next < BufLines
  /\ pc \in {"prompt", "line", "wait", "ended", "crashed"}
  /\ ran \in Seq(1..Len(script)) /\ Len(ran) <= MaxRan
  /\ kids \subseteq Kid
  /\ unsaid \in BOOLEAN /\ repeated \in BOOLEAN

Init ==
  /\ shell \in Shells
  /\ \E n \in 0..MaxLines : script \in [1..n -> LineKinds]
  /\ seekable \in BOOLEAN
  /\ off = 0 /\ next = 1 /\ last = 0
  /\ pc = "prompt" /\ ran = <<>> /\ kids = {}
  /\ unsaid = FALSE /\ repeated = FALSE

\* What a line means to the shell.  ShellP2 has no exit and no pipelines: these
\* words are programs and arguments.  More than ten words overwrite the line,
\* and with it the name of the program.
Means(kind) ==
  CASE shell = "P3" -> kind
    [] kind \in {"exit", " exit", "toomany", "|", "nocmd|"} -> "nocmd"
    [] kind = "cmd|" -> "cmd"
    [] kind = "reader|" -> "reader"
    [] OTHER -> kind

Held    == IF next > last THEN 0 ELSE last - next + 1
Line(k) == Means(script[ran[k]])

fixed == <<shell, script, seekable>>
input == <<fixed, off, next, last>>

-----------------------------------------------------------------------------
(***************************************************************************)
(* fgets(): it takes the next line of the buffer, which read() fills when  *)
(* it is empty, from a file to its size, from a pipe with what is there.   *)
(***************************************************************************)
Fill ==
  /\ pc = "prompt" /\ Held = 0 /\ off < Len(script)
  /\ \E n \in 1..BufLines :
       /\ off + n <= Len(script)
       /\ seekable => n = BufLines \/ off + n = Len(script)
       /\ next' = off + 1 /\ last' = off + n /\ off' = off + n
  /\ UNCHANGED <<fixed, pc, ran, kids, unsaid, repeated>>

\* Mutant: no loop flushes its prompt.
FlushesPrompt_Never == FALSE

\* fflush(stdout) behind the printf() of the prompt.
FlushesPrompt == shell = "P3"

\* printf() of the prompt, and fgets() of line n, the first of d.
TakeLine(n, d) ==
  /\ pc = "prompt" /\ Len(ran) < MaxRan
  /\ pc' = "line"
  /\ ran' = Append(ran, n) /\ next' = next + d
  /\ unsaid' = ~FlushesPrompt
  /\ UNCHANGED <<fixed, off, last, kids, repeated>>

\* Mutants: a line is read and thrown away; the result of fgets() is not
\* tested; the loop goes on without a new line.
ReadLine_Twice    == Held > 1 /\ TakeLine(next + 1, 2)
ReadLine_Untested == TakeLine(next, 1)
ReadLine_Stuck    == Held > 0 /\ TakeLine(next, 0)

ReadLine == Held > 0 /\ TakeLine(next, 1)

\* read() returns 0 and fgets() NULL.
EndOfInput ==
  /\ pc = "prompt" /\ Held = 0 /\ off = Len(script)
  /\ pc' = "ended" /\ unsaid' = FALSE
  /\ UNCHANGED <<input, ran, kids, repeated>>

-----------------------------------------------------------------------------
(***************************************************************************)
(* What the loop does with the line.                                       *)
(***************************************************************************)
\* The branch is taken for lines of these kinds; says: it prints a message.
Take(kinds, to, says) ==
  /\ pc = "line" /\ Line(Len(ran)) \in kinds
  /\ pc' = to /\ unsaid' = (to # "ended" /\ (unsaid \/ says))
  /\ UNCHANGED <<input, ran, repeated>>

\* strlen() is 0; in ShellP2 build_cmd_buff() finds no word.
EmptyLine ==
  /\ Take(IF shell = "P2" THEN {"empty", "blank"} ELSE {"empty"}, "prompt", TRUE)
  /\ UNCHANGED kids

ExitLine == Take({"exit"}, "ended", FALSE) /\ UNCHANGED kids

\* build_cmd_list() finds no command, build_cmd_buff() too many arguments.
BuildFails ==
  /\ Take({"|"}, "prompt", TRUE) \/ Take({"toomany"}, "prompt", FALSE)
  /\ UNCHANGED kids

\* ERR_MEMORY of build_cmd_list(), of alloc_cmd_buff() for a single command, or
\* of build_cmd_buff() in ShellP2.  In ShellP3 build_cmd_buff() does not test its
\* strdup(): that failure is undefined behaviour and left out.
MallocFails ==
  /\ "malloc" \in Faults
  /\ Take(Kinds \ {"empty", "exit"}, "prompt", TRUE) /\ UNCHANGED kids

\* exec_built_in_cmd(): chdir(), whether it fails or not, and exit.  A line of
\* spaces has no argv[0], which match_command() gives to strcmp().
ChangeDir == Take({"cd"}, "prompt", FALSE) /\ UNCHANGED kids
BuiltInExit == Take({" exit"}, "ended", FALSE) /\ UNCHANGED kids

\* Mutant: build_cmd_buff() returns OK for no words in ShellP2, too.
NoWords_Both == Take({"blank"}, "crashed", FALSE) /\ UNCHANGED kids

NoWords == shell = "P3" /\ Take({"blank"}, "crashed", FALSE) /\ UNCHANGED kids

TheKid == [at |-> Len(ran), held |-> Held, unsaid |-> unsaid]

\* exec_cmd() and execute_pipeline(): fork(), then waitpid().
Run ==
  /\ Take(Programs, "wait", FALSE)
  /\ kids' = kids \cup {TheKid}

\* exec_cmd() has no child, execute_pipeline() no pipe or no first stage.
RunFails ==
  /\ \/ "fork" \in Faults /\ Take(Programs, "prompt", FALSE)
     \/ "pipe" \in Faults /\ Take(Pipelines, "prompt", FALSE)
  /\ UNCHANGED kids

\* fork() fails for a later stage: execute_pipeline() returns at once, and the
\* first stage runs on.
LaterForkFails ==
  /\ "fork" \in Faults
  /\ Take(Pipelines, "prompt", FALSE)
  /\ kids' = kids \cup {TheKid}

Wait ==
  /\ pc = "wait" /\ \A kid \in kids : kid.at # Len(ran)
  /\ pc' = "prompt"
  /\ UNCHANGED <<input, ran, kids, unsaid, repeated>>

ShellStep ==
  \/ Fill \/ ReadLine \/ EndOfInput
  \/ EmptyLine \/ ExitLine \/ BuildFails \/ MallocFails
  \/ ChangeDir \/ BuiltInExit \/ NoWords
  \/ Run \/ RunFails \/ LaterForkFails \/ Wait

-----------------------------------------------------------------------------
(***************************************************************************)
(* The children.                                                           *)
(***************************************************************************)
\* Mutant: every child ends by exit(), as one would that is not execvp()'d.
CallsExit_Always(kid) == TRUE

\* The child comes back from execvp() and calls exit(ERR_EXEC_CMD).
CallsExit(kid) == Line(kid.at) \in Missing

\* exit(): lseek() back by what the copy of the buffer still holds, which
\* fails on a pipe and before the start of the file.
GiveBack(kid) ==
  IF seekable /\ kid.held <= off THEN off - kid.held ELSE off

\* exit() also writes the copy of the output buffer, and execvp() forgets it.
KidEnds(kid) ==
  /\ Line(kid.at) \in Readers => off = Len(script)
  /\ IF CallsExit(kid)
     THEN off' = GiveBack(kid) /\ repeated' = (repeated \/ kid.unsaid)
     ELSE UNCHANGED <<off, repeated>>
  /\ kids' = kids \ {kid}
  /\ UNCHANGED <<fixed, next, last, pc, ran, unsaid>>

\* The program reads what the shell has not.
KidReads(kid) ==
  /\ Line(kid.at) \in Readers /\ off < Len(script)
  /\ off' \in off + 1..Len(script)
  /\ UNCHANGED <<fixed, next, last, pc, ran, kids, unsaid, repeated>>

KidStep == \E kid \in kids : KidEnds(kid) \/ KidReads(kid)

-----------------------------------------------------------------------------

Next == ShellStep \/ KidStep

Spec == Init /\ [][Next]_vars

\* The kernel runs the shell and its children, which do not run for ever.
Fairness == WF_vars(ShellStep) /\ WF_vars(KidStep)

FairSpec == Spec /\ Fairness

-----------------------------------------------------------------------------
(***************************************************************************)
(* Properties.                                                             *)
(***************************************************************************)
\* On a pipe no line is executed twice or out of order, whatever the children
\* do with the offset they share (fgets() at dshlib.c:23).
InOrderOnPipe ==
  ~seekable => \A j, k \in DOMAIN ran : j < k => ran[j] < ran[k]

\* No line is left out, unless a program read it: whatever line comes, the one
\* before it came earlier.
NoLineSkipped ==
  \A k \in DOMAIN ran :
    \/ ran[k] = 1
    \/ \E j \in 1..k - 1 : ran[j] = ran[k] - 1 \/ Line(j) \in Readers

\* A line is executed again only after a program was not found: every other
\* child leaves the offset where the shell put it (exit() at dshlib.c:305, 170).
ReplayNeedsMissing ==
  \A k \in DOMAIN ran :
    (\E j \in 1..k - 1 : ran[j] >= ran[k])
      => \E j \in 1..k - 1 : Line(j) \in Missing

\* What the loop prints comes out once: whatever message is pending at the end
\* of an iteration, none is when it forks.  Only ShellP2, which does not flush
\* its prompt (ShellP2/dshlib.c:59), has it again from a child whose program
\* is not found (exit() at ShellP2/dshlib.c:103).
SaidOnce ==
  repeated => shell = "P2" /\ \E k \in DOMAIN ran : Line(k) \in Missing

\* The loop comes to its end, not to a crash, unless the input is a file and a
\* program is not found (then its lines may come again for ever), or the shell
\* is ShellP3 and a line has spaces only (argv[0] at dshlib.c:319).
LoopEnds ==
  (/\ ~seekable \/ \A n \in DOMAIN script : Means(script[n]) \notin Missing
   /\ shell = "P3" => \A n \in DOMAIN script : script[n] # "blank")
    ~> pc = "ended"
=============================================================================
