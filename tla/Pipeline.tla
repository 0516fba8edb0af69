------------------------------ MODULE Pipeline ------------------------------
(***************************************************************************)
(* execute_pipeline() of RShell/dshlib.c (and ShellP3/dshlib.c, the same   *)
(* text): the shell makes the pipes of a line, forks its stages, closes    *)
(* its own ends and waits for every stage, while the stages set up their   *)
(* descriptors, exec and pass data through bounded pipes.                  *)
(*                                                                         *)
(* Stage k of line l is the process <<l, k>>; it writes to the pipe        *)
(* <<l, k>> and reads from <<l, k - 1>>.  reads[h] and writes[h] are the   *)
(* pipes of which process h has a descriptor of that end open, whichever   *)
(* number it has.  The programs are external: a "seq" writes and ends, a   *)
(* "cat" copies until the end of its input, a "head" reads once and ends.  *)
(***************************************************************************)
EXTENDS Integers, FiniteSets

CONSTANTS Shell,   \* the process of dsh
          CmdMax,  \* stages of a line at most (CMD_MAX)
          Lines,   \* lines that the shell is given
          PipeCap, \* items a pipe holds
          Items,   \* items that a "seq" writes
          Faults   \* system calls that may fail

ASSUME BoundsAssumption ==
  CmdMax \in Nat \ {0} /\ Lines \in Nat /\ PipeCap \in Nat \ {0} /\ Items \in Nat
ASSUME FaultsAssumption == Faults \subseteq {"pipe", "fork", "exec"}

Stages == (1..Lines) \X (0..CmdMax - 1)
Pipes  == (1..Lines) \X (0..CmdMax - 2)

ASSUME ShellAssumption == Shell \notin Stages

Holders  == Stages \cup {Shell}
Programs == {"seq", "cat", "head"}

VARIABLES pc,     \* where the shell is in execute_pipeline(), or "prompt"
          line,   \* the line it executes
          i,      \* its loop variable
          num,    \* clist->num of each line
          stage,  \* what each stage is doing
          todo,   \* items each stage has left to write
          reads,  \* pipes whose read end a process has open
          writes, \* pipes whose write end a process has open
          buf     \* items in each pipe

shellVars == <<pc, line, i, num>>
vars      == <<pc, line, i, num, stage, todo, reads, writes, buf>>

StageStates == {"none", "forked", "exec", "zombie", "reaped"} \cup Programs

TypeOK ==
  /\ pc \in {"prompt", "pipe", "fork", "close", "wait", "exited"}
  /\ line \in 0..Lines
  /\ i \in 0..CmdMax
  /\ num \in [1..Lines -> 0..CmdMax]
  /\ stage \in [Stages -> StageStates]
  /\ todo \in [Stages -> 0..Items + 1]
  /\ reads \in [Holders -> SUBSET Pipes]
  /\ writes \in [Holders -> SUBSET Pipes]
  /\ buf \in [Pipes -> 0..PipeCap]

Init ==
  /\ pc = "prompt" /\ line = 0 /\ i = 0
  /\ num = [l \in 1..Lines |-> 0]
  /\ stage = [p \in Stages |-> "none"]
  /\ todo = [p \in Stages |-> 0]
  /\ reads = [h \in Holders |-> {}]
  /\ writes = [h \in Holders |-> {}]
  /\ buf = [q \in Pipes |-> 0]

N          == num[line]
PipesOf(l)  == {q \in Pipes : q[1] = l}

In(p)  == IF p[2] > 0 THEN {<<p[1], p[2] - 1>>} ELSE {}
Out(p) == IF p[2] < num[p[1]] - 1 THEN {p} ELSE {}

HasReader(q) == \E h \in Holders : q \in reads[h]
HasWriter(q) == \E h \in Holders : q \in writes[h]

-----------------------------------------------------------------------------
(***************************************************************************)
(* The shell.                                                              *)
(***************************************************************************)
Return ==
  /\ pc' = "prompt" /\ i' = 0
  /\ UNCHANGED <<line, num>>

\* The loop goes on, or its variable has reached n and the code at next begins.
NextIter(n, next) ==
  /\ IF i + 1 < n THEN i' = i + 1 /\ UNCHANGED pc ELSE i' = 0 /\ pc' = next
  /\ UNCHANGED <<line, num>>

\* exec_local_cmd_loop() has read a line with a pipe character: n commands.
ReadLine(n) ==
  /\ pc = "prompt" /\ line < Lines
  /\ line' = line + 1
  /\ num' = [num EXCEPT ![line + 1] = n]
  /\ pc' = (IF n > 1 THEN "pipe" ELSE "fork") /\ i' = 0
  /\ UNCHANGED <<stage, todo, reads, writes, buf>>

\* Mutant: a pipe for every stage instead of one between two stages.
MakePipe_OneMore ==
  /\ pc = "pipe"
  /\ reads' = [reads EXCEPT ![Shell] = @ \cup {<<line, i>>}]
  /\ writes' = [writes EXCEPT ![Shell] = @ \cup {<<line, i>>}]
  /\ NextIter(N, "fork")
  /\ UNCHANGED <<stage, todo, buf>>

\* pipe(pipes[i])
MakePipe ==
  /\ pc = "pipe"
  /\ reads' = [reads EXCEPT ![Shell] = @ \cup {<<line, i>>}]
  /\ writes' = [writes EXCEPT ![Shell] = @ \cup {<<line, i>>}]
  /\ NextIter(N - 1, "fork")
  /\ UNCHANGED <<stage, todo, buf>>

\* return ERR_MEMORY, with the pipes made so far.
PipeFails ==
  /\ "pipe" \in Faults /\ pc = "pipe"
  /\ Return
  /\ UNCHANGED <<stage, todo, reads, writes, buf>>

\* The child has a copy of every descriptor of the shell.
Fork ==
  /\ pc = "fork"
  /\ stage' = [stage EXCEPT ![<<line, i>>] = "forked"]
  /\ reads' = [reads EXCEPT ![<<line, i>>] = reads[Shell]]
  /\ writes' = [writes EXCEPT ![<<line, i>>] = writes[Shell]]
  /\ NextIter(N, IF N > 1 THEN "close" ELSE "wait")
  /\ UNCHANGED <<todo, buf>>

\* return ERR_MEMORY, with every pipe and the children forked so far.
ForkFails ==
  /\ "fork" \in Faults /\ pc = "fork"
  /\ Return
  /\ UNCHANGED <<stage, todo, reads, writes, buf>>

\* Mutant: the shell keeps its write ends.
CloseEnds_ReadOnly ==
  /\ pc = "close"
  /\ reads' = [reads EXCEPT ![Shell] = @ \ {<<line, i>>}]
  /\ NextIter(N - 1, "wait")
  /\ UNCHANGED <<stage, todo, writes, buf>>

\* close(pipes[i][0]); close(pipes[i][1])
CloseEnds ==
  /\ pc = "close"
  /\ reads' = [reads EXCEPT ![Shell] = @ \ {<<line, i>>}]
  /\ writes' = [writes EXCEPT ![Shell] = @ \ {<<line, i>>}]
  /\ NextIter(N - 1, "wait")
  /\ UNCHANGED <<stage, todo, buf>>

\* Mutant: only the first stage is waited for.
Wait_FirstOnly ==
  /\ pc = "wait"
  /\ stage[<<line, i>>] = "zombie"
  /\ stage' = [stage EXCEPT ![<<line, i>>] = "reaped"]
  /\ Return
  /\ UNCHANGED <<todo, reads, writes, buf>>

\* waitpid(pids[i], NULL, 0)
Wait ==
  /\ pc = "wait"
  /\ stage[<<line, i>>] = "zombie"
  /\ stage' = [stage EXCEPT ![<<line, i>>] = "reaped"]
  /\ NextIter(N, "prompt")
  /\ UNCHANGED <<todo, reads, writes, buf>>

\* "exit" or the end of the input: the kernel closes what the shell has open.
ShellExits ==
  /\ pc = "prompt"
  /\ pc' = "exited"
  /\ reads' = [reads EXCEPT ![Shell] = {}]
  /\ writes' = [writes EXCEPT ![Shell] = {}]
  /\ UNCHANGED <<line, i, num, stage, todo, buf>>

ShellStep ==
  MakePipe \/ PipeFails \/ Fork \/ ForkFails \/ CloseEnds \/ Wait

-----------------------------------------------------------------------------
(***************************************************************************)
(* The stages.                                                             *)
(***************************************************************************)
\* Mutant: the child does not close the ends it does not use.
KeptEnds_All(ends, p, std) == ends

\* What is left of a child's descriptors after its loop of close(): standard
\* input or output, and whatever the shell had open besides this line's pipes.
KeptEnds(ends, p, std) == (ends \ PipesOf(p[1])) \cup std

\* dup2() twice, then the loop that closes every pipe of the line.
SetUp(p) ==
  /\ stage[p] = "forked"
  /\ stage' = [stage EXCEPT ![p] = "exec"]
  /\ reads' = [reads EXCEPT ![p] = KeptEnds(@, p, In(p))]
  /\ writes' = [writes EXCEPT ![p] = KeptEnds(@, p, Out(p))]
  /\ UNCHANGED <<shellVars, todo, buf>>

\* The process ends and its descriptors are closed.
Die(p) ==
  /\ stage' = [stage EXCEPT ![p] = "zombie"]
  /\ reads' = [reads EXCEPT ![p] = {}]
  /\ writes' = [writes EXCEPT ![p] = {}]
  /\ UNCHANGED <<shellVars, todo, buf>>

\* execvp() succeeds.
Exec(p) ==
  /\ stage[p] = "exec"
  /\ \E prog \in Programs :
       /\ stage' = [stage EXCEPT ![p] = prog]
       /\ todo' = [todo EXCEPT ![p] = IF prog = "seq" THEN Items ELSE 0]
  /\ UNCHANGED <<shellVars, reads, writes, buf>>

\* execvp() fails: exit(ERR_EXEC_CMD).
ExecFails(p) == "exec" \in Faults /\ stage[p] = "exec" /\ Die(p)

\* write() to the pipe, or to the terminal for the last stage.
Write(p) ==
  /\ stage[p] \in Programs /\ todo[p] > 0
  /\ \A q \in Out(p) : HasReader(q) /\ buf[q] < PipeCap
  /\ buf' = [q \in Pipes |-> IF q \in Out(p) THEN buf[q] + 1 ELSE buf[q]]
  /\ todo' = [todo EXCEPT ![p] = @ - 1]
  /\ UNCHANGED <<shellVars, stage, reads, writes>>

\* write() to a pipe that nobody reads: SIGPIPE.
SigPipe(p) ==
  /\ stage[p] \in Programs /\ todo[p] > 0
  /\ \E q \in Out(p) : ~HasReader(q)
  /\ Die(p)

\* A "cat" writes what it reads, a "head" has what it wanted.
Read(p) ==
  /\ stage[p] \in {"cat", "head"} /\ todo[p] = 0
  /\ \E q \in In(p) : buf[q] > 0 /\ buf' = [buf EXCEPT ![q] = @ - 1]
  /\ stage' = [stage EXCEPT ![p] = IF @ = "head" THEN "seq" ELSE @]
  /\ todo' = [todo EXCEPT ![p] = 1]
  /\ UNCHANGED <<shellVars, reads, writes>>

\* read() returns 0: the pipe is empty and no process can write to it; the
\* input of the first stage is the shell's own, and ends.
EndOfInput(p) ==
  /\ stage[p] \in {"cat", "head"} /\ todo[p] = 0
  /\ \A q \in In(p) : buf[q] = 0 /\ ~HasWriter(q)
  /\ Die(p)

Finish(p) == stage[p] = "seq" /\ todo[p] = 0 /\ Die(p)

StageStep(p) ==
  \/ SetUp(p) \/ Exec(p) \/ ExecFails(p)
  \/ Write(p) \/ SigPipe(p) \/ Read(p) \/ EndOfInput(p) \/ Finish(p)

-----------------------------------------------------------------------------

Next ==
  \/ \E n \in 1..CmdMax : ReadLine(n)
  \/ ShellStep \/ ShellExits
  \/ \E p \in Stages : StageStep(p)

Spec == Init /\ [][Next]_vars

\* The kernel runs the shell, and some stage if one can run: each has finitely
\* many steps.  Nobody is bound to type a line.
Fairness == WF_vars(ShellStep) /\ WF_vars(\E p \in Stages : StageStep(p))

FairSpec == Spec /\ Fairness

-----------------------------------------------------------------------------
(***************************************************************************)
(* Properties.                                                             *)
(***************************************************************************)
Alive(p) == stage[p] \notin {"none", "zombie", "reaped"}

\* The shell gave line l up: a pipe() or a fork() failed before its last stage.
Failed(l) ==
  /\ l < line \/ (l = line /\ pc \in {"prompt", "exited"})
  /\ \E k \in 0..num[l] - 1 : stage[<<l, k>>] = "none"

FailedLines == {l \in 1..Lines : Failed(l)}

\* At the prompt every stage of every line was waited for, but for the lines
\* that failed: none runs on and none is a zombie (ShellP3/questions.md:3).
AllReaped ==
  pc = "prompt" =>
    \A p \in Stages : p[1] \notin FailedLines => stage[p] \in {"none", "reaped"}

\* At the prompt the shell has no pipe open, and a program has open only the
\* ends that are its standard input and output (ShellP3/questions.md:7), but for
\* the pipes of lines that failed: the condition for a reader to see the end of
\* its input.
NoStrayEnds ==
  LET Leaked == {q \in Pipes : q[1] \in FailedLines}
  IN  /\ pc = "prompt" => reads[Shell] \cup writes[Shell] \subseteq Leaked
      /\ \A p \in Stages : stage[p] \in Programs =>
           /\ reads[p] \subseteq In(p) \cup Leaked
           /\ writes[p] \subseteq Out(p) \cup Leaked

\* The shell comes back to its prompt whatever the stages do: a stage that ends
\* early, a pipe that is full, a program that does not exist; and whatever it
\* has leaked before.
PipelineReturns == pc \notin {"prompt", "exited"} ~> pc = "prompt"

\* Every process the shell started comes to an end (ShellP3/questions.md:7):
\* after the last line that is typed nothing runs any more.
AllEnded  == \A p \in Stages : ~Alive(p)
StagesEnd == <>[]AllEnded

\* Short of that, a stage waits no longer than the shell lives: once the shell has
\* left, and with it the ends that the returns at dshlib.c:135 and :146 leaked to
\* it, every stage ends, those of the lines that failed and those that were given
\* the leaked ends of an earlier line included.
StagesEndWithShell == pc = "exited" ~> AllEnded
=============================================================================
