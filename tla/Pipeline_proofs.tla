-------------------------- MODULE Pipeline_proofs --------------------------
(***************************************************************************)
(* Proofs about Pipeline, for every CmdMax, every number of lines, every   *)
(* pipe capacity, every length of a program's output and every set of      *)
(* system calls that may fail.                                             *)
(***************************************************************************)
EXTENDS Pipeline, TLAPS

\* The shell has come back from line l.
Past(l) == l < line \/ (l = line /\ pc \in {"prompt", "exited"})

\* The pipes of the lines that were given up: nobody in the shell closes them.
LeakedEnds == {q \in Pipes : q[1] \in FailedLines}

\* The pipes of the current line that the shell has open by now.
HeldNow ==
  {q \in PipesOf(line) : /\ q[2] < N - 1
                         /\ \/ pc = "pipe" /\ q[2] < i
                            \/ pc = "fork"
                            \/ pc = "close" /\ q[2] >= i}

\* Where the loops of execute_pipeline() are.
Control ==
  /\ pc \in {"pipe", "close"} => i < N - 1
  /\ pc \in {"fork", "wait"} => i < N
  /\ pc \in {"pipe", "fork", "close", "wait"} => line \in 1..Lines

\* How far the stages of each line are: of a line that was not given up each is
\* forked, and each is waited for, in the order of the line.
Started ==
  \A p \in Stages :
    /\ p[1] > line \/ p[2] >= num[p[1]] => stage[p] = "none"
    /\ p[1] = line /\ p[2] < N =>
         /\ pc = "pipe" => stage[p] = "none"
         /\ pc = "fork" => (stage[p] = "none" <=> p[2] >= i)
         /\ pc \in {"close", "wait"} => stage[p] # "none"
         /\ pc = "wait" /\ p[2] < i => stage[p] = "reaped"
    /\ Past(p[1]) /\ ~Failed(p[1]) => stage[p] \in {"none", "reaped"}

\* Which ends each process has open.
ShellEnds == reads[Shell] \cup writes[Shell] \subseteq LeakedEnds \cup HeldNow

StageEnds ==
  \A p \in Stages :
    /\ stage[p] = "forked" =>
         reads[p] \cup writes[p] \subseteq LeakedEnds \cup PipesOf(p[1])
    /\ stage[p] \in {"exec"} \cup Programs =>
         /\ reads[p] \subseteq In(p) \cup LeakedEnds
         /\ writes[p] \subseteq Out(p) \cup LeakedEnds

\* The inductive invariant.  AllReaped and NoStrayEnds speak of the prompt and of
\* running programs; what brings them about is where the loops of the shell are
\* and what a child inherits between fork() and its own loop of close().
IInv == TypeOK /\ Control /\ Started /\ ShellEnds /\ StageEnds

USE BoundsAssumption, ShellAssumption

-----------------------------------------------------------------------------
(***************************************************************************)
(* Stages, pipes and lines that failed.                                    *)
(***************************************************************************)
LEMMA Pairs ==
  /\ \A p \in Stages : /\ p[1] \in 1..Lines /\ p[2] \in 0..CmdMax - 1
                       /\ p = <<p[1], p[2]>> /\ p # Shell /\ p \in Holders
  /\ \A q \in Pipes : /\ q[1] \in 1..Lines /\ q[2] \in 0..CmdMax - 2
                      /\ q = <<q[1], q[2]>>
  /\ \A l \in 1..Lines, k \in 0..CmdMax - 1 : <<l, k>> \in Stages
  /\ \A l \in 1..Lines, k \in 0..CmdMax - 2 : <<l, k>> \in Pipes
  /\ \A l, k : <<l, k>>[1] = l /\ <<l, k>>[2] = k
  /\ Shell \in Holders
BY DEF Stages, Pipes, Holders

\* A line that failed stays one: nobody starts a stage of an earlier line.
LEMMA FailedStays ==
  ASSUME TypeOK,
         \A l \in 1..Lines : Past(l) => Past(l)' /\ num'[l] = num[l],
         \A p \in Stages : Past(p[1]) /\ stage[p] = "none" => stage'[p] = "none"
  PROVE  /\ \A l \in 1..Lines : Failed(l) => Failed(l)'
         /\ FailedLines \subseteq FailedLines'
         /\ LeakedEnds \subseteq LeakedEnds'
<1>1. ASSUME NEW l \in 1..Lines, Failed(l) PROVE Failed(l)'
  <2>1. Past(l) /\ \E k \in 0..num[l] - 1 : stage[<<l, k>>] = "none"
    BY <1>1 DEF Failed, Past
  <2>2. PICK k \in 0..num[l] - 1 : stage[<<l, k>>] = "none"
    BY <2>1
  <2>3. num[l] \in 0..CmdMax
    BY DEF TypeOK
  <2>4. <<l, k>> \in Stages /\ <<l, k>>[1] = l
    BY <2>3, Pairs
  <2>5. Past(l)' /\ num'[l] = num[l] /\ stage'[<<l, k>>] = "none"
    BY <2>1, <2>2, <2>4
  <2>6. k \in 0..num'[l] - 1
    BY <2>5
  <2>7. \E j \in 0..num'[l] - 1 : stage'[<<l, j>>] = "none"
    BY <2>5, <2>6
  <2> QED
    BY <2>5, <2>7 DEF Failed, Past
<1>2. FailedLines \subseteq FailedLines'
  BY <1>1 DEF FailedLines
<1> QED
  BY <1>1, <1>2 DEF LeakedEnds

\* A line of which a stage was never started when the shell comes back failed.
LEMMA GivenUp ==
  ASSUME TypeOK, NEW p \in Stages, stage[p] = "none", p[2] < num[p[1]], Past(p[1])
  PROVE  Failed(p[1])
<1>1. p[2] \in 0..num[p[1]] - 1 /\ p = <<p[1], p[2]>>
  BY Pairs DEF TypeOK
<1>2. \E k \in 0..num[p[1]] - 1 : stage[<<p[1], k>>] = "none"
  BY <1>1
<1> QED
  BY <1>2 DEF Failed, Past

-----------------------------------------------------------------------------
(***************************************************************************)
(* The stages.                                                             *)
(***************************************************************************)
\* A step of a running stage concerns the shell only in that it is not reaped.
LEMMA StageKeeps ==
  ASSUME IInv, NEW p \in Stages, Alive(p),
         NEW s \in {"exec", "zombie"} \cup Programs, stage' = [stage EXCEPT ![p] = s],
         UNCHANGED shellVars,
         todo' \in [Stages -> 0..Items + 1], buf' \in [Pipes -> 0..PipeCap],
         NEW R \in SUBSET Pipes, reads' = [reads EXCEPT ![p] = R],
         NEW W \in SUBSET Pipes, writes' = [writes EXCEPT ![p] = W],
         s = "zombie" \/ (R \subseteq In(p) \cup LeakedEnds /\ W \subseteq Out(p) \cup LeakedEnds)
  PROVE  IInv'
<1>1. /\ pc' = pc /\ line' = line /\ i' = i /\ num' = num
      /\ stage \in [Stages -> StageStates] /\ stage[p] \notin {"none", "zombie", "reaped"}
      /\ reads \in [Holders -> SUBSET Pipes] /\ writes \in [Holders -> SUBSET Pipes]
  BY DEF shellVars, IInv, TypeOK, Alive
<1>2. /\ stage'[p] = s /\ s \notin {"none", "forked", "reaped"}
      /\ \A o \in Stages \ {p} : stage'[o] = stage[o]
      /\ reads'[p] = R /\ writes'[p] = W
      /\ \A h \in Holders \ {p} : reads'[h] = reads[h] /\ writes'[h] = writes[h]
  BY <1>1, Pairs DEF Programs
<1>3. \A o \in Stages : /\ stage'[o] = "none" <=> stage[o] = "none"
                        /\ stage'[o] = "reaped" <=> stage[o] = "reaped"
  BY <1>1, <1>2
<1>4. TypeOK'
  BY <1>1, Pairs DEF IInv, TypeOK, StageStates
<1>5. \A l : Past(l)' = Past(l)
  BY <1>1 DEF Past
<1>6. LeakedEnds \subseteq LeakedEnds' /\ \A l \in 1..Lines : Failed(l) => Failed(l)'
  BY <1>1, <1>3, <1>5, FailedStays DEF IInv
<1>7. Control'
  BY <1>1 DEF IInv, Control, N
<1>8. Started'
  BY <1>1, <1>3, <1>5, <1>6, Pairs DEF IInv, Started, N
<1>9. ShellEnds'
  <2>1. reads'[Shell] = reads[Shell] /\ writes'[Shell] = writes[Shell]
    BY <1>2, Pairs
  <2>2. HeldNow' = HeldNow
    BY <1>1 DEF HeldNow, PipesOf, N
  <2> QED
    BY <1>6, <2>1, <2>2 DEF IInv, ShellEnds
<1>10. StageEnds'
  <2>1. \A o \in Stages : In(o)' = In(o) /\ Out(o)' = Out(o) /\ PipesOf(o[1])' = PipesOf(o[1])
    BY <1>1 DEF In, Out, PipesOf
  <2>2. ASSUME NEW o \in Stages \ {p}
        PROVE  /\ stage'[o] = "forked" =>
                    reads'[o] \cup writes'[o] \subseteq LeakedEnds' \cup PipesOf(o[1])
               /\ stage'[o] \in {"exec"} \cup Programs =>
                    /\ reads'[o] \subseteq In(o) \cup LeakedEnds'
                    /\ writes'[o] \subseteq Out(o) \cup LeakedEnds'
    BY <1>2, <1>6, Pairs DEF IInv, StageEnds
  <2>3. stage'[p] \in {"exec"} \cup Programs =>
          /\ reads'[p] \subseteq In(p) \cup LeakedEnds'
          /\ writes'[p] \subseteq Out(p) \cup LeakedEnds'
    BY <1>2, <1>6 DEF Programs
  <2>4. stage'[p] # "forked"
    BY <1>2
  <2> QED
    BY <2>1, <2>2, <2>3, <2>4 DEF StageEnds
<1> QED
  BY <1>4, <1>7, <1>8, <1>9, <1>10 DEF IInv

\* Standard input and output of a stage are pipes of its line.
LEMMA StdEnds ==
  ASSUME TypeOK, NEW p \in Stages
  PROVE  In(p) \subseteq Pipes /\ Out(p) \subseteq Pipes
<1>1. In(p) \subseteq Pipes
  BY Pairs DEF In
<1>2. num[p[1]] \in 0..CmdMax
  BY Pairs DEF TypeOK
<1>3. ASSUME p[2] < num[p[1]] - 1 PROVE p \in Pipes
  <2>1. p[2] \in 0..CmdMax - 2 /\ p[1] \in 1..Lines /\ p = <<p[1], p[2]>>
    BY <1>2, <1>3, Pairs
  <2> QED
    BY <2>1, Pairs
<1> QED
  BY <1>1, <1>3 DEF Out

LEMMA DieIInv ==
  ASSUME IInv, NEW p \in Stages, Alive(p), Die(p)
  PROVE  IInv'
<1>1. {} \in SUBSET Pipes
  OBVIOUS
<1>2. todo' \in [Stages -> 0..Items + 1] /\ buf' \in [Pipes -> 0..PipeCap]
  BY DEF Die, IInv, TypeOK
<1> QED
  BY <1>1, <1>2, StageKeeps DEF Die

LEMMA StageStepIInv ==
  ASSUME IInv, NEW p \in Stages, StageStep(p)
  PROVE  IInv'
<1>1. /\ stage \in [Stages -> StageStates]
      /\ todo \in [Stages -> 0..Items + 1] /\ todo[p] \in 0..Items + 1
      /\ buf \in [Pipes -> 0..PipeCap]
      /\ reads \in [Holders -> SUBSET Pipes] /\ writes \in [Holders -> SUBSET Pipes]
      /\ reads[p] \in SUBSET Pipes /\ writes[p] \in SUBSET Pipes
      /\ reads = [reads EXCEPT ![p] = reads[p]] /\ writes = [writes EXCEPT ![p] = writes[p]]
  BY Pairs DEF IInv, TypeOK
<1>2. ASSUME stage[p] \in {"exec"} \cup Programs
      PROVE  Alive(p) /\ reads[p] \subseteq In(p) \cup LeakedEnds
                      /\ writes[p] \subseteq Out(p) \cup LeakedEnds
  BY <1>2 DEF Alive, Programs, IInv, StageEnds
<1>3. CASE SetUp(p)
  <2>1. Alive(p) /\ reads[p] \cup writes[p] \subseteq LeakedEnds \cup PipesOf(p[1])
    BY <1>3 DEF SetUp, Alive, IInv, StageEnds
  <2>2. In(p) \subseteq Pipes /\ Out(p) \subseteq Pipes
    BY StdEnds DEF IInv
  <2>3. /\ KeptEnds(reads[p], p, In(p)) \in SUBSET Pipes
        /\ KeptEnds(writes[p], p, Out(p)) \in SUBSET Pipes
        /\ KeptEnds(reads[p], p, In(p)) \subseteq In(p) \cup LeakedEnds
        /\ KeptEnds(writes[p], p, Out(p)) \subseteq Out(p) \cup LeakedEnds
    BY <1>1, <2>1, <2>2 DEF KeptEnds
  <2>4. /\ stage' = [stage EXCEPT ![p] = "exec"]
        /\ reads' = [reads EXCEPT ![p] = KeptEnds(reads[p], p, In(p))]
        /\ writes' = [writes EXCEPT ![p] = KeptEnds(writes[p], p, Out(p))]
        /\ UNCHANGED <<shellVars, todo, buf>>
    BY <1>3 DEF SetUp
  <2>5. /\ "exec" \in {"exec", "zombie"} \cup Programs /\ UNCHANGED shellVars
        /\ todo' \in [Stages -> 0..Items + 1] /\ buf' \in [Pipes -> 0..PipeCap]
    BY <1>1, <2>4
  <2> DEFINE R == KeptEnds(reads[p], p, In(p))
             W == KeptEnds(writes[p], p, Out(p))
  <2> HIDE DEF R, W
  <2>6. /\ R \in SUBSET Pipes /\ W \in SUBSET Pipes
        /\ R \subseteq In(p) \cup LeakedEnds /\ W \subseteq Out(p) \cup LeakedEnds
        /\ stage' = [stage EXCEPT ![p] = "exec"]
        /\ reads' = [reads EXCEPT ![p] = R] /\ writes' = [writes EXCEPT ![p] = W]
    BY <2>3, <2>4 DEF R, W
  <2> QED
    BY <2>1, <2>5, <2>6, StageKeeps
<1>4. CASE Exec(p)
  <2>1. PICK prog \in Programs :
          /\ stage' = [stage EXCEPT ![p] = prog]
          /\ todo' = [todo EXCEPT ![p] = IF prog = "seq" THEN Items ELSE 0]
    BY <1>4 DEF Exec
  <2>2. stage[p] = "exec" /\ UNCHANGED <<shellVars, reads, writes, buf>>
    BY <1>4 DEF Exec
  <2>3. todo' \in [Stages -> 0..Items + 1]
    BY <1>1, <2>1
  <2>4. /\ reads' = [reads EXCEPT ![p] = reads[p]] /\ writes' = [writes EXCEPT ![p] = writes[p]]
        /\ buf' \in [Pipes -> 0..PipeCap] /\ UNCHANGED shellVars
    BY <1>1, <2>2
  <2>5. Alive(p) /\ reads[p] \subseteq In(p) \cup LeakedEnds
                 /\ writes[p] \subseteq Out(p) \cup LeakedEnds
    BY <1>2, <2>2
  <2>6. prog \in {"exec", "zombie"} \cup Programs
    OBVIOUS
  <2>7. /\ reads[p] \in SUBSET Pipes /\ writes[p] \in SUBSET Pipes
        /\ stage' = [stage EXCEPT ![p] = prog]
    BY <1>1, <2>1
  <2> QED
    BY <2>3, <2>4, <2>5, <2>6, <2>7, StageKeeps
<1>5. CASE ExecFails(p) \/ SigPipe(p) \/ EndOfInput(p) \/ Finish(p)
  <2>1. Alive(p) /\ Die(p)
    BY <1>5 DEF ExecFails, SigPipe, EndOfInput, Finish, Alive, Programs
  <2> QED
    BY <2>1, DieIInv
<1>6. CASE Write(p)
  <2>1. /\ stage[p] \in Programs /\ todo[p] > 0
        /\ \A q \in Out(p) : buf[q] < PipeCap
        /\ buf' = [q \in Pipes |-> IF q \in Out(p) THEN buf[q] + 1 ELSE buf[q]]
        /\ todo' = [todo EXCEPT ![p] = todo[p] - 1]
        /\ UNCHANGED <<shellVars, stage, reads, writes>>
    BY <1>6 DEF Write
  <2>2. todo' \in [Stages -> 0..Items + 1] /\ buf' \in [Pipes -> 0..PipeCap]
    BY <1>1, <2>1
  <2>3. stage' = [stage EXCEPT ![p] = stage[p]]
    BY <1>1, <2>1
  <2>4. /\ reads' = [reads EXCEPT ![p] = reads[p]] /\ writes' = [writes EXCEPT ![p] = writes[p]]
        /\ stage[p] \in {"exec", "zombie"} \cup Programs /\ UNCHANGED shellVars
        /\ reads[p] \in SUBSET Pipes /\ writes[p] \in SUBSET Pipes
    BY <1>1, <2>1
  <2>5. Alive(p) /\ reads[p] \subseteq In(p) \cup LeakedEnds
                 /\ writes[p] \subseteq Out(p) \cup LeakedEnds
    BY <1>2, <2>1
  <2> QED
    BY <2>2, <2>3, <2>4, <2>5, StageKeeps
<1>7. CASE Read(p)
  <2>1. PICK q \in In(p) : buf[q] > 0 /\ buf' = [buf EXCEPT ![q] = buf[q] - 1]
    BY <1>7 DEF Read
  <2>2. /\ stage[p] \in {"cat", "head"}
        /\ stage' = [stage EXCEPT ![p] = IF stage[p] = "head" THEN "seq" ELSE stage[p]]
        /\ todo' = [todo EXCEPT ![p] = 1]
        /\ UNCHANGED <<shellVars, reads, writes>>
    BY <1>7 DEF Read
  <2>3. q \in Pipes
    BY StdEnds DEF IInv
  <2>4. todo' \in [Stages -> 0..Items + 1] /\ buf' \in [Pipes -> 0..PipeCap]
    BY <1>1, <2>1, <2>2, <2>3
  <2>5. /\ reads' = [reads EXCEPT ![p] = reads[p]] /\ writes' = [writes EXCEPT ![p] = writes[p]]
        /\ UNCHANGED shellVars
    BY <1>1, <2>2
  <2>6. Alive(p) /\ reads[p] \subseteq In(p) \cup LeakedEnds
                 /\ writes[p] \subseteq Out(p) \cup LeakedEnds
    BY <1>2, <2>2 DEF Programs
  <2>7. PICK prog \in {"exec", "zombie"} \cup Programs : stage' = [stage EXCEPT ![p] = prog]
    BY <2>2 DEF Programs
  <2>8. reads[p] \in SUBSET Pipes /\ writes[p] \in SUBSET Pipes
    BY <1>1
  <2> QED
    BY <2>4, <2>5, <2>6, <2>7, <2>8, StageKeeps
<1> QED
  BY <1>3, <1>4, <1>5, <1>6, <1>7 DEF StageStep

-----------------------------------------------------------------------------
(***************************************************************************)
(* The shell.                                                              *)
(***************************************************************************)
LEMMA InitIInv == Init => IInv
<1> SUFFICES ASSUME Init PROVE IInv
  OBVIOUS
<1>1. TypeOK
  BY DEF Init, TypeOK, StageStates
<1>2. Control /\ Started /\ StageEnds
  BY Pairs DEF Init, Control, Started, StageEnds, Past, Programs
<1>3. ShellEnds
  BY Pairs DEF Init, ShellEnds
<1> QED
  BY <1>1, <1>2, <1>3 DEF IInv

LEMMA ReadLineIInv ==
  ASSUME IInv, NEW n \in 1..CmdMax, ReadLine(n)
  PROVE  IInv'
<1> DEFINE m == line + 1
<1>1. /\ pc = "prompt" /\ line < Lines /\ line' = m /\ i' = 0
      /\ num' = [num EXCEPT ![m] = n]
      /\ pc' = (IF n > 1 THEN "pipe" ELSE "fork")
      /\ UNCHANGED <<stage, todo, reads, writes, buf>>
  BY DEF ReadLine
<1>2. /\ line \in 0..Lines /\ m \in 1..Lines /\ line < m
      /\ num'[m] = n /\ \A l \in 1..Lines \ {m} : num'[l] = num[l]
  BY <1>1 DEF IInv, TypeOK
<1>3. TypeOK'
  BY <1>1, <1>2 DEF IInv, TypeOK
<1>4. \A l \in 1..Lines : /\ Past(l) <=> l <= line
                          /\ Past(l)' <=> l <= line
  BY <1>1, <1>2 DEF Past
<1>5. LeakedEnds \subseteq LeakedEnds' /\ \A l \in 1..Lines : Failed(l) => Failed(l)'
  BY <1>1, <1>2, <1>4, FailedStays DEF IInv
<1>6. \A p \in Stages : p[1] > line => stage[p] = "none"
  BY DEF IInv, Started
<1>7. Control'
  BY <1>1, <1>2 DEF Control, N
<1>8. Started'
  BY <1>1, <1>2, <1>4, <1>5, <1>6, Pairs DEF IInv, Started, N
<1>9. ShellEnds'
  <2>1. HeldNow = {}
    BY <1>1 DEF HeldNow
  <2> QED
    BY <1>1, <1>5, <2>1 DEF IInv, ShellEnds
<1>10. StageEnds'
  <2>1. ASSUME NEW p \in Stages, stage[p] # "none" PROVE Out(p)' = Out(p) /\ In(p)' = In(p)
    BY <1>2, <1>6, <2>1, Pairs DEF Out, In
  <2> QED
    BY <1>1, <1>5, <2>1 DEF IInv, StageEnds, PipesOf, Programs
<1> QED
  BY <1>3, <1>7, <1>8, <1>9, <1>10 DEF IInv

\* The shell has not come back from its line, and does not in this step.
LEMMA OnTheSameLine ==
  ASSUME IInv, pc \notin {"prompt", "exited"}, line' = line, num' = num,
         pc' \notin {"prompt", "exited"},
         \A p \in Stages : p[1] # line => stage'[p] = stage[p]
  PROVE  /\ LeakedEnds \subseteq LeakedEnds'
         /\ \A p \in Stages : Past(p[1])' <=> Past(p[1])
         /\ \A p \in Stages : Past(p[1]) => p[1] # line
         /\ \A p \in Stages : Failed(p[1]) => Failed(p[1])'
<1>1. \A l : (Past(l) <=> Past(l)') /\ (Past(l) => l # line)
  BY DEF Past, IInv, TypeOK
<1>2. LeakedEnds \subseteq LeakedEnds' /\ \A l \in 1..Lines : Failed(l) => Failed(l)'
  BY <1>1, FailedStays DEF IInv
<1> QED
  BY <1>1, <1>2, Pairs

\* Nothing happens to the ends of the stages.
LEMMA StageEndsRest ==
  ASSUME IInv, LeakedEnds \subseteq LeakedEnds', num' = num,
         NEW S \in SUBSET Stages,
         \A p \in S : stage'[p] = stage[p] /\ reads'[p] = reads[p] /\ writes'[p] = writes[p]
  PROVE  \A p \in S :
           /\ stage'[p] = "forked" =>
                reads'[p] \cup writes'[p] \subseteq LeakedEnds' \cup PipesOf(p[1])
           /\ stage'[p] \in {"exec"} \cup Programs =>
                /\ reads'[p] \subseteq In(p) \cup LeakedEnds'
                /\ writes'[p] \subseteq Out(p)' \cup LeakedEnds'
<1>1. \A p \in S : Out(p)' = Out(p)
  BY DEF Out
<1>2. \A p \in S : p \in Stages
  OBVIOUS
<1> QED
  BY <1>1, <1>2 DEF IInv, StageEnds

LEMMA MakePipeIInv ==
  ASSUME IInv, MakePipe
  PROVE  IInv'
<1> DEFINE q == <<line, i>>
<1>1. /\ pc = "pipe" /\ line' = line /\ num' = num
      /\ reads' = [reads EXCEPT ![Shell] = reads[Shell] \cup {q}]
      /\ writes' = [writes EXCEPT ![Shell] = writes[Shell] \cup {q}]
      /\ stage' = stage /\ todo' = todo /\ buf' = buf
      /\ \/ i + 1 < N - 1 /\ i' = i + 1 /\ pc' = "pipe"
         \/ ~(i + 1 < N - 1) /\ i' = 0 /\ pc' = "fork"
  BY DEF MakePipe, NextIter
<1>2. /\ line \in 1..Lines /\ i \in 0..CmdMax /\ i < N - 1 /\ N \in 0..CmdMax
      /\ reads \in [Holders -> SUBSET Pipes] /\ writes \in [Holders -> SUBSET Pipes]
  BY <1>1 DEF IInv, TypeOK, Control, N
<1>3. q \in Pipes /\ q[1] = line /\ q[2] = i
  BY <1>2, Pairs
<1>4. /\ reads'[Shell] = reads[Shell] \cup {q} /\ writes'[Shell] = writes[Shell] \cup {q}
      /\ \A p \in Stages : reads'[p] = reads[p] /\ writes'[p] = writes[p]
  BY <1>1, <1>2, Pairs
<1>5. TypeOK'
  <2>1. reads' \in [Holders -> SUBSET Pipes] /\ writes' \in [Holders -> SUBSET Pipes]
    <3>1. Shell \in Holders
      BY Pairs
    <3>2. reads[Shell] \cup {q} \in SUBSET Pipes /\ writes[Shell] \cup {q} \in SUBSET Pipes
      BY <1>2, <1>3, <3>1
    <3> HIDE DEF q
    <3> QED
      BY <1>1, <1>2, <3>1, <3>2
  <2>2. pc' \in {"pipe", "fork"} /\ i' \in 0..CmdMax
    BY <1>1, <1>2
  <2> QED
    BY <1>1, <2>1, <2>2 DEF IInv, TypeOK
<1>6. LeakedEnds \subseteq LeakedEnds'
      /\ \A p \in Stages : /\ Past(p[1])' <=> Past(p[1])
                           /\ Past(p[1]) => p[1] # line
                           /\ Failed(p[1]) => Failed(p[1])'
  BY <1>1, OnTheSameLine
<1>7. Control'
  BY <1>1, <1>2 DEF Control, N
<1>8. Started'
  BY <1>1, <1>2, <1>6, Pairs DEF IInv, Started, N
<1>9. ShellEnds'
  <2>1. HeldNow \cup {q} \subseteq HeldNow'
    BY <1>1, <1>2, <1>3, Pairs DEF HeldNow, PipesOf, N
  <2> QED
    BY <1>4, <1>6, <2>1 DEF IInv, ShellEnds
<1>10. StageEnds'
  BY <1>1, <1>4, <1>6, StageEndsRest DEF StageEnds
<1> QED
  BY <1>5, <1>7, <1>8, <1>9, <1>10 DEF IInv

\* The shell gives its line up, before it has forked all of its stages.
LEMMA GiveUpIInv ==
  ASSUME IInv, pc \in {"pipe", "fork"}, Return,
         UNCHANGED <<stage, todo, reads, writes, buf>>
  PROVE  IInv'
<1>1. pc' = "prompt" /\ i' = 0 /\ line' = line /\ num' = num
  BY DEF Return
<1>2. line \in 1..Lines /\ i \in 0..CmdMax /\ i < N /\ N \in 0..CmdMax
  BY DEF IInv, TypeOK, Control, N
<1>3. TypeOK'
  BY <1>1 DEF IInv, TypeOK
<1>4. \A l \in 1..Lines : Past(l) => Past(l)'
  BY <1>1 DEF Past
<1>5. LeakedEnds \subseteq LeakedEnds' /\ \A l \in 1..Lines : Failed(l) => Failed(l)'
  BY <1>1, <1>4, FailedStays DEF IInv
<1>6. ASSUME NEW l \in 1..Lines, l = line PROVE Failed(l)'
  <2>1. <<line, i>> \in Stages /\ <<line, i>>[1] = line /\ <<line, i>>[2] = i
    BY <1>2, Pairs DEF N
  <2>2. stage[<<line, i>>] = "none"
    BY <1>2, <2>1 DEF IInv, Started
  <2>3. \E k \in 0..num[line] - 1 : stage[<<line, k>>] = "none"
    BY <1>2, <2>2 DEF N
  <2> QED
    BY <1>1, <1>6, <2>3 DEF Failed
<1>7. Control'
  BY <1>1 DEF Control
<1>8. Started'
  BY <1>1, <1>2, <1>5, <1>6, Pairs DEF IInv, Started, N, Past
<1>9. ShellEnds'
  <2>1. line \in FailedLines'
    BY <1>2, <1>6 DEF FailedLines
  <2>2. HeldNow \subseteq PipesOf(line) /\ PipesOf(line) \subseteq LeakedEnds'
    BY <2>1 DEF HeldNow, PipesOf, LeakedEnds
  <2> QED
    BY <1>5, <2>2 DEF IInv, ShellEnds
<1>10. StageEnds'
  BY <1>1, <1>5, StageEndsRest DEF StageEnds
<1> QED
  BY <1>3, <1>7, <1>8, <1>9, <1>10 DEF IInv

\* The child that is forked has a copy of the ends of the shell: those of its line
\* and those that earlier lines have leaked.
LEMMA ForkIInv ==
  ASSUME IInv, Fork
  PROVE  IInv'
<1> DEFINE o == <<line, i>>
<1>1. /\ pc = "fork" /\ line' = line /\ num' = num
      /\ stage' = [stage EXCEPT ![o] = "forked"]
      /\ reads' = [reads EXCEPT ![o] = reads[Shell]]
      /\ writes' = [writes EXCEPT ![o] = writes[Shell]]
      /\ todo' = todo /\ buf' = buf
      /\ \/ i + 1 < N /\ i' = i + 1 /\ pc' = "fork"
         \/ ~(i + 1 < N) /\ i' = 0 /\ pc' = (IF N > 1 THEN "close" ELSE "wait")
  BY DEF Fork, NextIter
<1>2. /\ line \in 1..Lines /\ i \in 0..CmdMax /\ i < N /\ N \in 0..CmdMax
      /\ stage \in [Stages -> StageStates]
      /\ reads \in [Holders -> SUBSET Pipes] /\ writes \in [Holders -> SUBSET Pipes]
  BY <1>1 DEF IInv, TypeOK, Control, N
<1>3. o \in Stages /\ o[1] = line /\ o[2] = i /\ o \in Holders /\ o # Shell
      /\ \A p \in Stages : p[1] = line /\ p[2] = i => p = o
  BY <1>2, Pairs
<1>4. /\ stage'[o] = "forked" /\ reads'[o] = reads[Shell] /\ writes'[o] = writes[Shell]
      /\ \A p \in Stages \ {o} :
           stage'[p] = stage[p] /\ reads'[p] = reads[p] /\ writes'[p] = writes[p]
      /\ reads'[Shell] = reads[Shell] /\ writes'[Shell] = writes[Shell]
  <2> HIDE DEF o
  <2> QED
    BY <1>1, <1>2, <1>3, Pairs
<1>5. TypeOK'
  <2>1. /\ reads' \in [Holders -> SUBSET Pipes] /\ writes' \in [Holders -> SUBSET Pipes]
        /\ stage' \in [Stages -> StageStates]
    <3>1. reads[Shell] \in SUBSET Pipes /\ writes[Shell] \in SUBSET Pipes
      BY <1>2, Pairs
    <3>2. "forked" \in StageStates
      BY DEF StageStates
    <3> HIDE DEF o
    <3> QED
      BY <1>1, <1>2, <1>3, <3>1, <3>2
  <2>2. pc' \in {"fork", "close", "wait"} /\ i' \in 0..CmdMax
    BY <1>1, <1>2
  <2> QED
    BY <1>1, <2>1, <2>2 DEF IInv, TypeOK
<1>6. LeakedEnds \subseteq LeakedEnds'
      /\ \A p \in Stages : /\ Past(p[1])' <=> Past(p[1])
                           /\ Past(p[1]) => p[1] # line
                           /\ Failed(p[1]) => Failed(p[1])'
  BY <1>1, <1>3, <1>4, OnTheSameLine
<1>7. Control'
  BY <1>1, <1>2 DEF Control, N
<1>8. Started'
  <2> HIDE DEF o
  <2> QED
    BY <1>1, <1>2, <1>3, <1>4, <1>6, Pairs DEF IInv, Started, N
<1>9. ShellEnds'
  <2>1. HeldNow \subseteq HeldNow'
    BY <1>1, <1>2, Pairs DEF HeldNow, PipesOf, N
  <2> QED
    BY <1>4, <1>6, <2>1 DEF IInv, ShellEnds
<1>10. StageEnds'
  <2>1. reads[Shell] \cup writes[Shell] \subseteq LeakedEnds \cup PipesOf(line)
    BY DEF IInv, ShellEnds, HeldNow
  <2>2. Stages \ {o} \in SUBSET Stages /\ num' = num
    BY <1>1
  <2> HIDE DEF o
  <2>3. \A p \in Stages \ {o} :
           /\ stage'[p] = "forked" =>
                reads'[p] \cup writes'[p] \subseteq LeakedEnds' \cup PipesOf(p[1])
           /\ stage'[p] \in {"exec"} \cup Programs =>
                /\ reads'[p] \subseteq In(p) \cup LeakedEnds'
                /\ writes'[p] \subseteq Out(p)' \cup LeakedEnds'
    BY <1>4, <1>6, <2>2, StageEndsRest
  <2>4. /\ reads'[o] \cup writes'[o] \subseteq LeakedEnds' \cup PipesOf(o[1])
        /\ stage'[o] \notin {"exec"} \cup Programs
    BY <1>3, <1>4, <1>6, <2>1 DEF Programs
  <2> QED
    BY <1>3, <2>3, <2>4 DEF StageEnds
<1> QED
  BY <1>5, <1>7, <1>8, <1>9, <1>10 DEF IInv

LEMMA CloseEndsIInv ==
  ASSUME IInv, CloseEnds
  PROVE  IInv'
<1> DEFINE q == <<line, i>>
<1>1. /\ pc = "close" /\ line' = line /\ num' = num
      /\ reads' = [reads EXCEPT ![Shell] = reads[Shell] \ {q}]
      /\ writes' = [writes EXCEPT ![Shell] = writes[Shell] \ {q}]
      /\ stage' = stage /\ todo' = todo /\ buf' = buf
      /\ \/ i + 1 < N - 1 /\ i' = i + 1 /\ pc' = "close"
         \/ ~(i + 1 < N - 1) /\ i' = 0 /\ pc' = "wait"
  BY DEF CloseEnds, NextIter
<1>2. /\ line \in 1..Lines /\ i \in 0..CmdMax /\ i < N - 1 /\ N \in 0..CmdMax
      /\ reads \in [Holders -> SUBSET Pipes] /\ writes \in [Holders -> SUBSET Pipes]
  BY <1>1 DEF IInv, TypeOK, Control, N
<1>3. \A r \in Pipes : r[1] = line /\ r[2] = i => r = q
  BY <1>2, Pairs
<1>4. /\ reads'[Shell] = reads[Shell] \ {q} /\ writes'[Shell] = writes[Shell] \ {q}
      /\ \A p \in Stages : reads'[p] = reads[p] /\ writes'[p] = writes[p]
  BY <1>1, <1>2, Pairs
<1>5. TypeOK'
  <2>1. reads' \in [Holders -> SUBSET Pipes] /\ writes' \in [Holders -> SUBSET Pipes]
    <3>1. Shell \in Holders
      BY Pairs
    <3>2. reads[Shell] \ {q} \in SUBSET Pipes /\ writes[Shell] \ {q} \in SUBSET Pipes
      BY <1>2, <3>1
    <3> HIDE DEF q
    <3> QED
      BY <1>1, <1>2, <3>1, <3>2
  <2>2. pc' \in {"close", "wait"} /\ i' \in 0..CmdMax
    BY <1>1, <1>2
  <2> QED
    BY <1>1, <2>1, <2>2 DEF IInv, TypeOK
<1>6. LeakedEnds \subseteq LeakedEnds'
      /\ \A p \in Stages : /\ Past(p[1])' <=> Past(p[1])
                           /\ Past(p[1]) => p[1] # line
                           /\ Failed(p[1]) => Failed(p[1])'
  BY <1>1, OnTheSameLine
<1>7. Control'
  BY <1>1, <1>2 DEF Control, N
<1>8. Started'
  BY <1>1, <1>2, <1>6, Pairs DEF IInv, Started, N
<1>9. ShellEnds'
  <2>1. HeldNow \ {q} \subseteq HeldNow'
    <3> HIDE DEF q
    <3> QED
      BY <1>1, <1>2, <1>3, Pairs DEF HeldNow, PipesOf, N
  <2> QED
    BY <1>4, <1>6, <2>1 DEF IInv, ShellEnds
<1>10. StageEnds'
  BY <1>1, <1>4, <1>6, StageEndsRest DEF StageEnds
<1> QED
  BY <1>5, <1>7, <1>8, <1>9, <1>10 DEF IInv

\* The last waitpid() takes the shell back to its prompt, with every stage reaped.
LEMMA WaitIInv ==
  ASSUME IInv, Wait
  PROVE  IInv'
<1> DEFINE o == <<line, i>>
<1>1. /\ pc = "wait" /\ line' = line /\ num' = num /\ stage[o] = "zombie"
      /\ stage' = [stage EXCEPT ![o] = "reaped"]
      /\ todo' = todo /\ reads' = reads /\ writes' = writes /\ buf' = buf
      /\ \/ i + 1 < N /\ i' = i + 1 /\ pc' = "wait"
         \/ ~(i + 1 < N) /\ i' = 0 /\ pc' = "prompt"
  BY DEF Wait, NextIter
<1>2. /\ line \in 1..Lines /\ i \in 0..CmdMax /\ i < N /\ N \in 0..CmdMax
      /\ stage \in [Stages -> StageStates]
  BY <1>1 DEF IInv, TypeOK, Control, N
<1>3. o \in Stages /\ o[1] = line /\ o[2] = i
      /\ \A p \in Stages : p[1] = line /\ p[2] = i => p = o
  BY <1>2, Pairs
<1>4. /\ stage'[o] = "reaped" /\ \A p \in Stages \ {o} : stage'[p] = stage[p]
      /\ stage' \in [Stages -> StageStates]
  <2>1. "reaped" \in StageStates
    BY DEF StageStates
  <2> HIDE DEF o
  <2> QED
    BY <1>1, <1>2, <1>3, <2>1
<1> HIDE DEF o
<1>5. TypeOK'
  <2>1. pc' \in {"prompt", "wait"} /\ i' \in 0..CmdMax
    BY <1>1, <1>2
  <2> QED
    BY <1>1, <1>4, <2>1 DEF IInv, TypeOK
<1>6. \A p \in Stages : stage'[p] = "none" <=> stage[p] = "none"
  BY <1>1, <1>3, <1>4
<1>7. \A l \in 1..Lines : Past(l) => Past(l)' /\ l # line
  BY <1>1, <1>2 DEF Past
<1>8. LeakedEnds \subseteq LeakedEnds' /\ \A l \in 1..Lines : Failed(l) => Failed(l)'
  BY <1>1, <1>6, <1>7, FailedStays DEF IInv
<1>9. Control'
  BY <1>1, <1>2 DEF Control, N
<1>10. Started'
  <2>1. ASSUME NEW p \in Stages, p[1] = line, p[2] < N, p[2] < i \/ p[2] = i
        PROVE  stage'[p] = "reaped"
    BY <1>1, <1>3, <1>4, <2>1 DEF IInv, Started
  <2>2. ASSUME NEW p \in Stages, p[1] # line, Past(p[1])', ~Failed(p[1])'
        PROVE  stage'[p] \in {"none", "reaped"}
    <3>1. Past(p[1])
      BY <1>1, <1>2, <2>2, Pairs DEF Past
    <3> QED
      BY <1>3, <1>4, <1>8, <2>2, <3>1, Pairs DEF IInv, Started
  <2>3. ASSUME NEW p \in Stages, p[1] = line, Past(p[1])'
        PROVE  stage'[p] \in {"none", "reaped"}
    <3>1. ~(i + 1 < N)
      BY <1>1, <2>3, <1>2 DEF Past
    <3>2. p[2] < N => p[2] < i \/ p[2] = i
      BY <1>2, <3>1, Pairs
    <3>3. p[2] < N \/ stage[p] = "none"
      BY <1>2, <2>3, Pairs DEF IInv, Started, N
    <3> QED
      BY <1>6, <2>1, <2>3, <3>2, <3>3
  <2>4. ASSUME NEW p \in Stages
        PROVE  /\ p[1] > line \/ p[2] >= num[p[1]] => stage'[p] = "none"
               /\ p[1] = line /\ p[2] < N =>
                    /\ stage'[p] # "none"
                    /\ pc' = "wait" /\ p[2] < i' => stage'[p] = "reaped"
    BY <1>1, <1>2, <1>6, <2>1, Pairs DEF IInv, Started
  <2> QED
    BY <1>1, <2>2, <2>3, <2>4 DEF Started, N
<1>11. ShellEnds'
  <2>1. HeldNow = {}
    BY <1>1 DEF HeldNow
  <2> QED
    BY <1>1, <1>8, <2>1 DEF IInv, ShellEnds
<1>12. StageEnds'
  <2>1. Stages \ {o} \in SUBSET Stages /\ num' = num
    BY <1>1
  <2>2. \A p \in Stages \ {o} :
           /\ stage'[p] = "forked" =>
                reads'[p] \cup writes'[p] \subseteq LeakedEnds' \cup PipesOf(p[1])
           /\ stage'[p] \in {"exec"} \cup Programs =>
                /\ reads'[p] \subseteq In(p) \cup LeakedEnds'
                /\ writes'[p] \subseteq Out(p)' \cup LeakedEnds'
    BY <1>1, <1>4, <1>8, <2>1, StageEndsRest
  <2> QED
    BY <1>3, <1>4, <2>2 DEF StageEnds, Programs
<1> QED
  BY <1>5, <1>9, <1>10, <1>11, <1>12 DEF IInv

LEMMA ShellExitsIInv ==
  ASSUME IInv, ShellExits
  PROVE  IInv'
<1>1. /\ pc = "prompt" /\ pc' = "exited"
      /\ reads' = [reads EXCEPT ![Shell] = {}] /\ writes' = [writes EXCEPT ![Shell] = {}]
      /\ line' = line /\ i' = i /\ num' = num
      /\ stage' = stage /\ todo' = todo /\ buf' = buf
  BY DEF ShellExits
<1>2. /\ reads'[Shell] = {} /\ writes'[Shell] = {}
      /\ \A p \in Stages : reads'[p] = reads[p] /\ writes'[p] = writes[p]
  BY <1>1, Pairs DEF IInv, TypeOK
<1>3. TypeOK'
  BY <1>1 DEF IInv, TypeOK
<1>4. \A l : Past(l)' <=> Past(l)
  BY <1>1 DEF Past
<1>5. LeakedEnds \subseteq LeakedEnds' /\ \A l \in 1..Lines : Failed(l) => Failed(l)'
  BY <1>1, <1>4, FailedStays DEF IInv
<1>6. Control'
  BY <1>1 DEF Control
<1>7. Started'
  BY <1>1, <1>4, <1>5, Pairs DEF IInv, Started, N
<1>8. ShellEnds'
  BY <1>2 DEF ShellEnds
<1>9. StageEnds'
  BY <1>1, <1>2, <1>5, StageEndsRest DEF StageEnds
<1> QED
  BY <1>3, <1>6, <1>7, <1>8, <1>9 DEF IInv

LEMMA NextIInv == IInv /\ [Next]_vars => IInv'
<1> SUFFICES ASSUME IInv, [Next]_vars PROVE IInv'
  OBVIOUS
<1>1. CASE UNCHANGED vars
  <2> USE <1>1 DEF vars
  <2>1. TypeOK' /\ Control'
    BY DEF IInv, TypeOK, Control, N
  <2>2. \A l : (Past(l)' <=> Past(l)) /\ (Failed(l)' <=> Failed(l))
    BY DEF Past, Failed
  <2>3. Started'
    BY <2>2 DEF IInv, Started, N
  <2>4. FailedLines' = FailedLines /\ LeakedEnds' = LeakedEnds /\ HeldNow' = HeldNow
    BY <2>2 DEF FailedLines, LeakedEnds, HeldNow, PipesOf, N
  <2>5. ShellEnds'
    BY <2>4 DEF IInv, ShellEnds
  <2>6. StageEnds'
    BY <2>4, StageEndsRest DEF StageEnds
  <2> QED
    BY <2>1, <2>3, <2>5, <2>6 DEF IInv
<1>2. ASSUME NEW n \in 1..CmdMax, ReadLine(n) PROVE IInv'
  BY <1>2, ReadLineIInv
<1>3. CASE ShellStep
  <2>1. CASE PipeFails \/ ForkFails
    BY <2>1, GiveUpIInv DEF PipeFails, ForkFails
  <2> QED
    BY <1>3, <2>1, MakePipeIInv, ForkIInv, CloseEndsIInv, WaitIInv DEF ShellStep
<1>4. CASE ShellExits
  BY <1>4, ShellExitsIInv
<1>5. ASSUME NEW p \in Stages, StageStep(p) PROVE IInv'
  BY <1>5, StageStepIInv
<1> QED
  BY <1>1, <1>2, <1>3, <1>4, <1>5 DEF Next

-----------------------------------------------------------------------------

\* The type invariant: a pipe holds no more than its capacity, the loops of the
\* shell stay within CMD_MAX, and a descriptor is one of a pipe that exists.
THEOREM TypeCorrect == Spec => []TypeOK
<1>1. IInv => TypeOK
  BY DEF IInv
<1> QED
  BY <1>1, InitIInv, NextIInv, PTL DEF Spec

\* When execute_pipeline() has returned every stage of every line was waited for,
\* but for the lines a failed pipe() or fork() made it give up (RShell/dshlib.c).
THEOREM NoneLeftBehind == Spec => []AllReaped
<1>1. IInv => AllReaped
  <2> SUFFICES ASSUME IInv, pc = "prompt", NEW p \in Stages, p[1] \notin FailedLines
               PROVE  stage[p] \in {"none", "reaped"}
    BY DEF AllReaped
  <2>1. p[1] \in 1..Lines /\ ~Failed(p[1])
    BY Pairs DEF FailedLines
  <2>2. CASE p[1] > line
    BY <2>2 DEF IInv, Started
  <2>3. CASE ~(p[1] > line)
    <3>1. Past(p[1])
      BY <2>1, <2>3 DEF Past, IInv, TypeOK
    <3> QED
      BY <2>1, <3>1 DEF IInv, Started
  <2> QED
    BY <2>2, <2>3
<1> QED
  BY <1>1, InitIInv, NextIInv, PTL DEF Spec

\* A program has open only the ends that are its standard input and output, and
\* the shell at its prompt none, but for the pipes of lines that were given up:
\* a reader sees the end of its input when the stage before it ends.
THEOREM EndsAreClosed == Spec => []NoStrayEnds
<1>1. IInv => NoStrayEnds
  <2> SUFFICES ASSUME IInv PROVE NoStrayEnds
    OBVIOUS
  <2>1. ASSUME pc = "prompt" PROVE reads[Shell] \cup writes[Shell] \subseteq LeakedEnds
    <3>1. HeldNow = {}
      BY <2>1 DEF HeldNow
    <3> QED
      BY <3>1 DEF IInv, ShellEnds
  <2>2. \A p \in Stages : stage[p] \in Programs =>
           /\ reads[p] \subseteq In(p) \cup LeakedEnds
           /\ writes[p] \subseteq Out(p) \cup LeakedEnds
    BY DEF IInv, StageEnds
  <2> QED
    BY <2>1, <2>2 DEF NoStrayEnds, LeakedEnds
<1> QED
  BY <1>1, InitIInv, NextIInv, PTL DEF Spec
=============================================================================
