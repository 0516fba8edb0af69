-------------------------- MODULE LocalShell_proofs --------------------------
(***************************************************************************)
(* Proofs about LocalShell: its lines come in order from a pipe, none is   *)
(* left out, and neither a line nor a message comes twice before a program *)
(* was not found, for every input, size of the buffer and choice of faults.*)
(***************************************************************************)
EXTENDS LocalShell, TLAPS

Ran(n)      == \E j \in DOMAIN ran : ran[j] = n
RanOneOf(K) == \E j \in DOMAIN ran : Line(j) \in K

\* The line that the shell works on, and the lines of the children, are in ran.
LinesKnown ==
  /\ pc \in {"line", "wait"} => Len(ran) > 0
  /\ \A kid \in kids : kid.at <= Len(ran)

\* The buffer is empty at next = last + 1.
BufferOK == next <= last + 1

\* While no child has given anything back, the offset is not before the end of
\* the buffer, and the lines executed are before it.
Forward ==
  \/ seekable /\ RanOneOf(Missing)
  \/ last <= off /\ \A k \in DOMAIN ran : ran[k] < next

\* While no program has read the input, the offset is not after the end of the
\* buffer, and every line before the buffer was executed.
Complete ==
  \/ RanOneOf(Readers)
  \/ off <= last /\ \A n \in 1..next - 1 : Ran(n)

\* In ShellP3 nothing is in the output buffer between fgets() and fork().
Flushed ==
  shell # "P2" =>
    /\ pc = "line" => ~unsaid
    /\ \A kid \in kids : ~kid.unsaid

IInv ==
  /\ TypeOK /\ LinesKnown /\ BufferOK /\ Forward /\ Complete /\ Flushed
  /\ InOrderOnPipe /\ NoLineSkipped /\ ReplayNeedsMissing /\ SaidOnce

-----------------------------------------------------------------------------

LEMMA InitOK == Init => IInv
<1> SUFFICES ASSUME Init PROVE IInv
  OBVIOUS
<1>1. TypeOK
  <2>1. script \in Seq(LineKinds) /\ Len(script) <= MaxLines /\ Len(script) \in Nat
    BY BoundsAssumption DEF Init
  <2>2. ran \in Seq(1..Len(script)) /\ Len(ran) = 0
    BY DEF Init
  <2>3. seekable \in BOOLEAN /\ unsaid \in BOOLEAN /\ repeated \in BOOLEAN
    BY Zenon DEF Init
  <2>4. shell \in Shells /\ pc = "prompt" /\ kids = {} /\ off = 0 /\ next = 1 /\ last = 0
    BY DEF Init
  <2> QED BY <2>1, <2>2, <2>3, <2>4, BoundsAssumption DEF TypeOK
<1>2. DOMAIN ran = {} /\ ~repeated /\ ~unsaid /\ kids = {} /\ last = 0 /\ off = 0
  BY DEF Init
<1> QED
  BY <1>1, <1>2
  DEF Init, IInv, LinesKnown, BufferOK, Forward, Complete, Flushed,
      InOrderOnPipe, NoLineSkipped, ReplayNeedsMissing, SaidOnce

\* What a line taken earlier means stays what it was.
LEMMA LineKept ==
  ASSUME UNCHANGED fixed,
         NEW k, ran'[k] = ran[k]
  PROVE  Line(k)' = Line(k)
  BY DEF fixed, Line, Means

\* What was said of the lines taken holds as long as they stay.
LEMMA LinesKept ==
  ASSUME UNCHANGED <<fixed, ran>>
  PROVE  /\ \A n : Ran(n)' <=> Ran(n)
         /\ \A K : RanOneOf(K)' <=> RanOneOf(K)
         /\ UNCHANGED <<InOrderOnPipe, NoLineSkipped, ReplayNeedsMissing>>
<1>1. \A k : Line(k)' = Line(k)
  BY LineKept
<1> QED
  BY <1>1 DEF fixed, Ran, RanOneOf, InOrderOnPipe, NoLineSkipped, ReplayNeedsMissing

\* A step that leaves the input, the buffer and the lines taken from it alone.
LEMMA BranchOK ==
  ASSUME IInv, UNCHANGED <<input, ran, repeated>>,
         pc' \in {"prompt", "wait", "ended", "crashed"}, unsaid' \in BOOLEAN,
         pc' = "wait" => pc = "line",
         kids' = kids \/ (pc = "line" /\ kids' = kids \cup {TheKid})
  PROVE  IInv'
<1> USE DEF input, fixed
<1>1. TypeOK' /\ LinesKnown' /\ Flushed'
  <2>1. CASE kids' = kids
    BY <2>1 DEF IInv, TypeOK, LinesKnown, Kid, Flushed
  <2>2. CASE pc = "line" /\ kids' = kids \cup {TheKid}
    <3>1. TheKid \in Kid /\ TheKid.at = Len(ran) /\ TheKid.unsaid = unsaid
      BY <2>2, BoundsAssumption DEF IInv, TypeOK, LinesKnown, BufferOK, TheKid, Held, Kid
    <3> QED
      BY <2>2, <3>1 DEF IInv, TypeOK, LinesKnown, Kid, Flushed
  <2> QED BY <2>1, <2>2
<1>2. BufferOK' /\ Forward' /\ Complete' /\ SaidOnce'
  BY LinesKept DEF IInv, BufferOK, Forward, Complete, SaidOnce, RanOneOf
<1> QED
  BY <1>1, <1>2, LinesKept DEF IInv

LEMMA FillOK ==
  ASSUME IInv, Fill
  PROVE  IInv'
<1> PICK n \in 1..BufLines :
      /\ off + n <= Len(script)
      /\ next' = off + 1 /\ last' = off + n /\ off' = off + n
  BY DEF Fill
<1>1. /\ Held = 0 /\ next = last + 1
      /\ UNCHANGED <<shell, script, seekable, pc, ran, kids, unsaid, repeated>>
  BY DEF Fill, fixed, Held, IInv, TypeOK, BufferOK
<1>2. TypeOK' /\ BufferOK' /\ LinesKnown' /\ Flushed'
  BY <1>1, BoundsAssumption DEF IInv, TypeOK, LinesKnown, BufferOK, Flushed
<1>3. UNCHANGED <<fixed, ran>>
  BY <1>1 DEF fixed
<1>4. Forward'
  <2>1. CASE seekable /\ RanOneOf(Missing)
    BY <2>1, <1>1, <1>3, LinesKept DEF Forward
  <2>2. CASE last <= off /\ \A k \in DOMAIN ran : ran[k] < next
    BY <2>2, <1>1 DEF IInv, TypeOK, Forward
  <2> QED BY <2>1, <2>2 DEF IInv, Forward
<1>5. Complete'
  <2>1. CASE RanOneOf(Readers)
    BY <2>1, <1>3, LinesKept DEF Complete
  <2>2. CASE off <= last /\ \A j \in 1..next - 1 : Ran(j)
    BY <2>2, <1>1, <1>3, LinesKept DEF IInv, TypeOK, Complete
  <2> QED BY <2>1, <2>2 DEF IInv, Complete
<1> QED
  BY <1>1, <1>2, <1>3, <1>4, <1>5, LinesKept DEF IInv, SaidOnce, RanOneOf

LEMMA ReadLineOK ==
  ASSUME IInv, ReadLine
  PROVE  IInv'
<1>1. /\ next <= last /\ next \in 1..Len(script)
      /\ ran' = Append(ran, next) /\ next' = next + 1 /\ pc' = "line"
      /\ Len(ran) < MaxRan
      /\ unsaid' = ~FlushesPrompt
      /\ UNCHANGED <<shell, script, seekable, off, last, kids, repeated>>
  BY DEF ReadLine, TakeLine, fixed, Held, IInv, TypeOK
<1> DEFINE m == Len(ran) + 1
<1>2. /\ DOMAIN ran = 1..Len(ran) /\ DOMAIN ran' = 1..m /\ Len(ran') = m
      /\ m \in DOMAIN ran' /\ ran'[m] = next
      /\ \A k \in DOMAIN ran : /\ ran'[k] = ran[k] /\ Line(k)' = Line(k)
                              /\ k \in DOMAIN ran'
      /\ \A k \in DOMAIN ran' : k \in DOMAIN ran \/ k = m
  BY <1>1, LineKept DEF IInv, TypeOK, fixed
<1>3. TypeOK' /\ BufferOK' /\ LinesKnown' /\ Flushed'
  <2>1. ran' \in Seq(1..Len(script')) /\ Len(ran') <= MaxRan
    BY <1>1, <1>2, BoundsAssumption DEF IInv, TypeOK
  <2>2. TypeOK'
    BY <2>1, <1>1, BoundsAssumption DEF IInv, TypeOK, FlushesPrompt
  <2>3. BufferOK' /\ LinesKnown'
    <3>1. Len(ran) \in Nat /\ \A kid \in kids : kid.at \in Int
      BY DEF IInv, TypeOK, Kid
    <3> QED BY <3>1, <1>1, <1>2 DEF IInv, TypeOK, LinesKnown, BufferOK
  <2>4. Flushed'
    BY <1>1, LineKindsAssumption DEF IInv, TypeOK, Flushed, FlushesPrompt
  <2> QED BY <2>2, <2>3, <2>4
<1>4. /\ RanOneOf(Missing) => RanOneOf(Missing)'
      /\ RanOneOf(Readers) => RanOneOf(Readers)'
  BY <1>1, <1>2 DEF RanOneOf
<1>5. Forward'
  <2>1. CASE seekable /\ RanOneOf(Missing)
    BY <2>1, <1>1, <1>4 DEF Forward
  <2>2. CASE last <= off /\ \A k \in DOMAIN ran : ran[k] < next
    <3>1. \A k \in DOMAIN ran' : ran'[k] < next'
      BY <2>2, <1>1, <1>2 DEF IInv, TypeOK
    <3> QED BY <2>2, <3>1, <1>1 DEF Forward
  <2> QED BY <2>1, <2>2 DEF IInv, Forward
<1>6. Complete'
  <2>1. CASE RanOneOf(Readers)
    BY <2>1, <1>4 DEF Complete
  <2>2. CASE off <= last /\ \A n \in 1..next - 1 : Ran(n)
    <3>1. ASSUME NEW n \in 1..next
          PROVE  Ran(n)'
      <4>1. CASE n = next
        BY <4>1, <1>2 DEF Ran
      <4>2. CASE n # next
        <5>1. PICK j \in DOMAIN ran : ran[j] = n
          BY <4>2, <2>2, <1>1 DEF Ran
        <5> QED BY <5>1, <1>2 DEF Ran
      <4> QED BY <4>1, <4>2
    <3> QED BY <2>2, <3>1, <1>1 DEF Complete, IInv, TypeOK
  <2> QED BY <2>1, <2>2 DEF IInv, Complete
<1>7. InOrderOnPipe'
  BY <1>1, <1>2 DEF IInv, TypeOK, InOrderOnPipe, Forward
<1>8. NoLineSkipped'
  <2> SUFFICES ASSUME NEW k \in DOMAIN ran', ran'[k] # 1
               PROVE  \E j \in 1..k - 1 : ran'[j] = ran'[k] - 1
                                            \/ Line(j)' \in Readers
    BY <1>1 DEF NoLineSkipped
  <2>1. CASE k \in DOMAIN ran
    <3>1. PICK j \in 1..k - 1 : ran[j] = ran[k] - 1 \/ Line(j) \in Readers
      BY <2>1, <1>2 DEF IInv, NoLineSkipped
    <3> QED BY <2>1, <3>1, <1>2
  <2>2. CASE k = m
    BY <2>2, <1>1, <1>2 DEF IInv, TypeOK, Complete, Ran, RanOneOf
  <2> QED BY <2>1, <2>2, <1>2
<1>9. ReplayNeedsMissing'
  <2> SUFFICES ASSUME NEW k \in DOMAIN ran', NEW i \in 1..k - 1, ran'[i] >= ran'[k]
               PROVE  \E j \in 1..k - 1 : Line(j)' \in Missing
    BY <1>1 DEF ReplayNeedsMissing
  <2>1. CASE k \in DOMAIN ran
    <3>1. PICK j \in 1..k - 1 : Line(j) \in Missing
      BY <2>1, <1>2 DEF IInv, ReplayNeedsMissing
    <3> QED BY <2>1, <3>1, <1>2
  <2>2. CASE k = m
    <3>1. i \in DOMAIN ran /\ ~(ran[i] < next)
      BY <2>2, <1>1, <1>2 DEF IInv, TypeOK
    <3>2. PICK j \in DOMAIN ran : Line(j) \in Missing
      BY <3>1 DEF IInv, Forward, RanOneOf
    <3> QED BY <2>2, <3>2, <1>2 DEF IInv, TypeOK
  <2> QED BY <2>1, <2>2, <1>2
<1>10. SaidOnce'
  BY <1>1, <1>2 DEF IInv, SaidOnce
<1> QED
  BY <1>3, <1>5, <1>6, <1>7, <1>8, <1>9, <1>10 DEF IInv

\* A step of a child moves the offset, and may repeat what the shell has said.
LEMMA KidStepOK ==
  ASSUME IInv, KidStep
  PROVE  IInv'
<1> PICK kid \in kids : KidEnds(kid) \/ KidReads(kid)
  BY DEF KidStep
<1>1. kid.at \in DOMAIN ran /\ kid.held \in Nat
  BY DEF IInv, TypeOK, LinesKnown, Kid
<1>2. /\ UNCHANGED <<shell, script, seekable, next, last, pc, ran, unsaid>>
      /\ UNCHANGED <<fixed, ran>>
      /\ kids' \subseteq kids
  BY DEF KidEnds, KidReads, fixed
<1>3. /\ CallsExit(kid) => RanOneOf(Missing)
      /\ Line(kid.at) \in Readers => RanOneOf(Readers)
  BY <1>1 DEF CallsExit, RanOneOf
<1>4. off' = off
        \/ (off' \in 0..off /\ seekable /\ RanOneOf(Missing))
        \/ (off' \in off..Len(script) /\ RanOneOf(Readers))
  <2>1. GiveBack(kid) = off \/ (GiveBack(kid) \in 0..off /\ seekable)
    BY <1>1 DEF GiveBack, IInv, TypeOK
  <2>2. off \in 0..Len(script)
    BY DEF IInv, TypeOK
  <2> QED BY <1>3, <2>1, <2>2 DEF KidEnds, KidReads
<1>5. repeated' = repeated \/ (repeated' \in BOOLEAN /\ shell = "P2" /\ RanOneOf(Missing))
  <2>1. kid.unsaid \in BOOLEAN /\ repeated \in BOOLEAN /\ (kid.unsaid => shell = "P2")
    BY DEF IInv, TypeOK, Kid, Flushed
  <2> QED BY <1>3, <2>1 DEF KidEnds, KidReads
<1>6. TypeOK' /\ LinesKnown' /\ BufferOK' /\ Flushed'
  BY <1>2, <1>4, <1>5 DEF IInv, TypeOK, LinesKnown, BufferOK, Flushed
<1>7. Forward' /\ Complete'
  BY <1>2, <1>4, LinesKept DEF IInv, TypeOK, Forward, Complete
<1>8. SaidOnce'
  <2>1. SaidOnce <=> (repeated => shell = "P2" /\ RanOneOf(Missing))
    BY DEF SaidOnce, RanOneOf
  <2>2. SaidOnce' <=> (repeated' => shell' = "P2" /\ RanOneOf(Missing)')
    BY DEF SaidOnce, RanOneOf
  <2> QED BY <1>2, <1>5, <2>1, <2>2, LinesKept DEF IInv
<1> QED
  BY <1>2, <1>6, <1>7, <1>8, LinesKept DEF IInv

LEMMA NextOK ==
  ASSUME IInv, [Next]_vars
  PROVE  IInv'
<1>1. CASE Fill BY <1>1, FillOK
<1>2. CASE ReadLine BY <1>2, ReadLineOK
<1>3. CASE KidStep BY <1>3, KidStepOK
<1> USE DEF IInv, TypeOK
<1>4. CASE EndOfInput BY <1>4, BranchOK DEF EndOfInput
<1>5. CASE Wait BY <1>5, BranchOK DEF Wait
<1>6. CASE \/ EmptyLine \/ ExitLine \/ BuildFails \/ MallocFails
           \/ ChangeDir \/ BuiltInExit \/ NoWords
  BY <1>6, BranchOK
  DEF EmptyLine, ExitLine, BuildFails, MallocFails, ChangeDir, BuiltInExit,
      NoWords, Take
<1>7. CASE Run \/ RunFails \/ LaterForkFails
  BY <1>7, BranchOK DEF Run, RunFails, LaterForkFails, Take
<1>8. CASE UNCHANGED vars
  <2>1. UNCHANGED <<fixed, ran>> BY <1>8 DEF vars, fixed
  <2> QED
    BY <1>8, <2>1, LinesKept
    DEF vars, IInv, TypeOK, LinesKnown, BufferOK, Forward, Complete, Flushed,
        SaidOnce, RanOneOf
<1> QED
  BY <1>1, <1>2, <1>3, <1>4, <1>5, <1>6, <1>7, <1>8 DEF Next, ShellStep

LEMMA Invariance == Spec => []IInv
  BY InitOK, NextOK, PTL DEF Spec

-----------------------------------------------------------------------------
\* The variables of the loop of exec_local_cmd_loop() stay in their ranges: the
\* offset never leaves the input, the shell never takes a line past its end.
THEOREM TypeCorrect == Spec => []TypeOK
<1>1. IInv => TypeOK BY DEF IInv
<1> QED BY <1>1, Invariance, PTL

\* The lines that fgets() returns from a pipe come once, in their order.
THEOREM PipedLinesInOrder == Spec => []InOrderOnPipe
<1>1. IInv => InOrderOnPipe BY DEF IInv
<1> QED BY <1>1, Invariance, PTL

\* No line is left out unless a child read the shell's input.
THEOREM NothingSkipped == Spec => []NoLineSkipped
<1>1. IInv => NoLineSkipped BY DEF IInv
<1> QED BY <1>1, Invariance, PTL

\* Only the exit() of a child that found no program makes a line come again.
THEOREM OnlyMissingReplays == Spec => []ReplayNeedsMissing
<1>1. IInv => ReplayNeedsMissing BY DEF IInv
<1> QED BY <1>1, Invariance, PTL

\* What the shell prints comes twice only from ShellP2, and only after a program
\* was not found.
THEOREM PrintedOnce == Spec => []SaidOnce
<1>1. IInv => SaidOnce BY DEF IInv
<1> QED BY <1>1, Invariance, PTL
=============================================================================
