-------------------------- MODULE StudentDB_proofs --------------------------
(***************************************************************************)
(* Proofs about StudentDB, for every number of invocations, every largest  *)
(* id and gpa, every set of options and every kind of fault.               *)
(***************************************************************************)
EXTENDS StudentDB, TLAPS

\* What an invocation knows of its request at each of its steps: the range is
\* checked before the scan of -a, and only the options with a scan have one.
RequestOK ==
  \A p \in Procs :
    /\ count[p] <= pos[p]
    /\ pc[p] # "idle" => req[p] \in Request
    /\ pc[p] = "scan" => req[p].opt \in {"a", "c", "d", "f", "p"}
    /\ pc[p] = "write" => req[p].opt \in {"a", "d"}
    /\ pc[p] \in {"scan", "write"} /\ req[p].opt = "a"
         => validate_range(req[p].id, req[p].gpa)

\* The inductive invariant: TypeOK alone is not inductive, since the slot that
\* -a writes exists only because the id was validated several steps earlier.
IInv == TypeOK /\ RecordsInPlace /\ RequestOK

Answer == [msg : Messages, n : 0..MaxId + 1, rows : Seq(Record)]

USE MaxIdAssumption, MaxGpaAssumption, OptionsAssumption, AskIdsAssumption

-----------------------------------------------------------------------------

LEMMA RecordFacts ==
  /\ EMPTY_STUDENT_RECORD \in Record
  /\ 0 \in Slots
  /\ \A r \in Request : /\ r.opt \in Options /\ r.id \in 0..MaxId + 1
                        /\ r.gpa \in -1..MaxGpa + 1 /\ r.id \in Int
<1>1. EMPTY_STUDENT_RECORD \in Record
  BY DEF EMPTY_STUDENT_RECORD, Record
<1>2. 0 \in Slots
  BY DEF Slots
<1>3. ASSUME NEW r \in Request
      PROVE  /\ r.opt \in Options /\ r.id \in 0..MaxId + 1
             /\ r.gpa \in -1..MaxGpa + 1 /\ r.id \in Int
  <2>1. r \in [opt : Options, id : AskIds \cup {0}, gpa : -1..MaxGpa + 1]
    BY DEF Request
  <2>2. r.id \in AskIds \cup {0} /\ AskIds \cup {0} \subseteq 0..MaxId + 1
    BY <2>1
  <2>3. r.opt \in Options /\ r.gpa \in -1..MaxGpa + 1
    BY <2>1
  <2>4. r.id \in 0..MaxId + 1
    BY <2>2
  <2>5. r.id \in Int
    BY <2>4
  <2> QED
    BY <2>3, <2>4, <2>5
<1> QED
  BY <1>1, <1>2, <1>3

\* No file is touched by an exit or by a change of control.
LEMMA ExitKeeps ==
  ASSUME IInv, NEW p \in Procs, NEW a \in Answer, Exit(p, a),
         UNCHANGED <<file, size>>
  PROVE  IInv'
<1> USE DEF IInv, Exit
<1>1. TypeOK'
  BY DEF TypeOK, Answer
<1>2. RecordsInPlace'
  BY DEF RecordsInPlace
<1>3. RequestOK'
  BY DEF RequestOK, TypeOK
<1> QED
  BY <1>1, <1>2, <1>3

LEMMA GotoKeeps ==
  ASSUME IInv, NEW p \in Procs, NEW l \in {"truncate", "scan", "write"}, Goto(p, l),
         UNCHANGED <<file, size>>,
         pc[p] # "idle",
         l = "scan" => req[p].opt \in {"a", "c", "d", "f", "p"},
         l = "write" => req[p].opt \in {"a", "d"},
         l \in {"scan", "write"} /\ req[p].opt = "a"
           => validate_range(req[p].id, req[p].gpa)
  PROVE  IInv'
<1> USE DEF IInv, Goto
<1>1. TypeOK'
  BY DEF TypeOK
<1>2. RecordsInPlace'
  BY DEF RecordsInPlace
<1>3. RequestOK'
  BY DEF RequestOK, TypeOK, validate_range
<1> QED
  BY <1>1, <1>2, <1>3

\* A write of an empty record anywhere, or of student i to slot i, keeps every
\* record in its place.
LEMMA WriteKeeps ==
  ASSUME IInv, NEW p \in Procs, NEW a \in Answer, Exit(p, a),
         NEW s \in Slots, NEW r \in Record, WriteRecord(s, r),
         r = EMPTY_STUDENT_RECORD \/ (s \in Ids /\ r.id = s)
  PROVE  IInv'
<1> USE DEF IInv, Exit, WriteRecord
<1>1. TypeOK'
  BY DEF TypeOK, Answer, Slots
<1>2. RecordsInPlace'
  BY DEF RecordsInPlace, TypeOK, Slots, Ids
<1>3. RequestOK'
  BY DEF RequestOK, TypeOK
<1> QED
  BY <1>1, <1>2, <1>3

LEMMA AnswerType ==
  /\ \A m \in Messages : Says(m) \in Answer
  /\ \A k \in 0..MaxId + 1 : Counts(k) \in Answer
  /\ \A m \in Messages, t \in Seq(Record) : Shows(m, t) \in Answer
BY DEF Says, Counts, Shows, Answer, Messages

-----------------------------------------------------------------------------

LEMMA InitIInv == Init => IInv
BY DEF Init, IInv, TypeOK, RecordsInPlace, RequestOK, EMPTY_STUDENT_RECORD,
       Record, Slots, NoRequest, Says, Messages

LEMMA InvokeIInv ==
  ASSUME IInv, NEW p \in Procs, NEW r \in Request, Invoke(p, r)
  PROVE  IInv'
<1> USE DEF IInv, Invoke
<1>1. TypeOK'
  BY DEF TypeOK, Says, Messages
<1>2. RecordsInPlace'
  BY DEF RecordsInPlace
<1>3. RequestOK'
  BY DEF RequestOK, TypeOK
<1> QED
  BY <1>1, <1>2, <1>3

LEMMA OpenDbIInv ==
  ASSUME IInv, NEW p \in Procs, OpenDb(p)
  PROVE  IInv'
<1>1. req[p] \in Request /\ req[p].opt \in OptionLetters
  BY RecordFacts DEF OpenDb, IInv, RequestOK
<1>2. CASE \E m \in Messages : Exit(p, Says(m))
  BY <1>2, ExitKeeps, AnswerType DEF OpenDb
<1>3. CASE Goto(p, "truncate")
  BY <1>3, GotoKeeps DEF OpenDb
<1>4. CASE Goto(p, "scan") /\ req[p].opt \in {"a", "c", "d", "f", "p"}
           /\ (req[p].opt = "a" => validate_range(req[p].id, req[p].gpa))
  BY <1>4, GotoKeeps DEF OpenDb
<1>5. \/ \E m \in Messages : Exit(p, Says(m))
      \/ Goto(p, "truncate")
      \/ Goto(p, "scan") /\ req[p].opt \in {"a", "c", "d", "f", "p"}
         /\ (req[p].opt = "a" => validate_range(req[p].id, req[p].gpa))
  BY <1>1 DEF OpenDb, OptionLetters, Messages
<1> QED
  BY <1>2, <1>3, <1>4, <1>5

LEMMA TruncateIInv ==
  ASSUME IInv, NEW p \in Procs, Truncate(p)
  PROVE  IInv'
<1> USE DEF IInv, Truncate, Exit
<1>1. TypeOK'
  <2>1. Says("zeroed") \in Answer /\ <<>> \in Seq(Record)
    BY AnswerType DEF Messages
  <2>2. file' \in [Slots -> Record] /\ size' \in 0..MaxId + 1
    BY RecordFacts
  <2> QED
    BY <2>1, <2>2 DEF TypeOK, Answer
<1>2. RecordsInPlace'
  BY DEF RecordsInPlace
<1>3. RequestOK'
  BY DEF RequestOK, TypeOK
<1> QED
  BY <1>1, <1>2, <1>3

LEMMA ReadNextIInv ==
  ASSUME IInv, NEW p \in Procs, ReadNext(p)
  PROVE  IInv'
<1> USE DEF IInv, ReadNext, AtEof, NextPos, Tallied, Printed
<1>1. pos[p] \in Slots /\ file[pos[p]] \in Record
  BY DEF TypeOK, Slots
<1>2. TypeOK'
  BY <1>1 DEF TypeOK, RequestOK
<1>3. RecordsInPlace'
  BY DEF RecordsInPlace
<1>4. RequestOK'
  BY DEF RequestOK, TypeOK
<1> QED
  BY <1>2, <1>3, <1>4

LEMMA ReadFoundIInv ==
  ASSUME IInv, NEW p \in Procs, ReadFound(p)
  PROVE  IInv'
<1> USE DEF ReadFound
<1>1. pos[p] \in Slots /\ file[pos[p]] \in Record
  BY DEF IInv, TypeOK, Slots, AtEof
<1>2. PrintStudent(file[pos[p]]) \in Answer
  <2>1. <<file[pos[p]]>> \in Seq(Record)
    BY <1>1
  <2> QED
    BY <2>1, AnswerType DEF PrintStudent, Messages
<1>3. CASE req[p].opt = "a"
  BY <1>3, ExitKeeps, AnswerType DEF Messages
<1>4. CASE req[p].opt = "d"
  BY <1>4, GotoKeeps
<1>5. CASE req[p].opt = "f"
  BY <1>5, <1>2, ExitKeeps
<1> QED
  BY <1>3, <1>4, <1>5 DEF Looking

LEMMA ScanOverIInv ==
  ASSUME IInv, NEW p \in Procs, pc[p] = "scan", ScanOver(p),
         UNCHANGED <<file, size>>
  PROVE  IInv'
<1> USE DEF ScanOver
<1>1. req[p].opt \in {"a", "c", "d", "f", "p"}
  BY DEF IInv, RequestOK
<1>2. CASE req[p].opt = "a"
  BY <1>2, GotoKeeps DEF IInv, RequestOK
<1>3. CASE req[p].opt \in {"d", "f"}
  BY <1>3, ExitKeeps, AnswerType DEF Messages
<1>4. CASE req[p].opt = "c"
  <2>1. count[p] \in 0..MaxId + 1
    BY DEF IInv, TypeOK
  <2> QED
    BY <1>4, <2>1, ExitKeeps, AnswerType DEF Messages
<1>5. CASE req[p].opt = "p"
  <2>1. rows[p] \in Seq(Record)
    BY DEF IInv, TypeOK
  <2> QED
    BY <1>5, <2>1, ExitKeeps, AnswerType DEF Messages
<1> QED
  BY <1>1, <1>2, <1>3, <1>4, <1>5

LEMMA ReadFailsIInv ==
  ASSUME IInv, NEW p \in Procs, ReadFails(p)
  PROVE  IInv'
<1>1. CASE req[p].opt = "c"
  BY <1>1, ExitKeeps, AnswerType DEF ReadFails, Messages
<1>2. CASE req[p].opt # "c"
  BY <1>2, ScanOverIInv DEF ReadFails
<1> QED
  BY <1>1, <1>2

LEMMA AddStudentIInv ==
  ASSUME IInv, NEW p \in Procs, AddStudent(p)
  PROVE  IInv'
<1> DEFINE i == req[p].id
           r == [id |-> i, gpa |-> req[p].gpa]
<1>1. i \in Ids /\ req[p].gpa \in 0..MaxGpa
  BY DEF AddStudent, IInv, RequestOK, validate_range
<1>2. r \in Record /\ i \in Slots
  BY <1>1 DEF Record, Slots, Ids
<1>3. WriteRecord(i, r) /\ Exit(p, Says("added"))
  BY DEF AddStudent, AddSlot
<1> QED
  BY <1>1, <1>2, <1>3, WriteKeeps, AnswerType DEF Messages

LEMMA DelStudentIInv ==
  ASSUME IInv, NEW p \in Procs, DelStudent(p)
  PROVE  IInv'
<1>1. req[p] \in Request
  BY DEF DelStudent, IInv, RequestOK
<1>2. DelSlot(req[p].id) \in Slots
  BY <1>1, RecordFacts DEF DelStudent, DelSlot, Slots
<1> QED
  BY <1>2, RecordFacts, WriteKeeps, AnswerType DEF DelStudent, Messages

LEMMA NextIInv == IInv /\ [Next]_vars => IInv'
<1> SUFFICES ASSUME IInv, [Next]_vars PROVE IInv'
  OBVIOUS
<1>1. CASE UNCHANGED vars
  BY <1>1 DEF vars, IInv, TypeOK, RecordsInPlace, RequestOK, validate_range
<1>2. ASSUME NEW p \in Procs, NEW r \in Request, Invoke(p, r) PROVE IInv'
  BY <1>2, InvokeIInv
<1>3. ASSUME NEW p \in Procs,
             OpenFails(p) \/ DelSeekFails(p) \/ WriteFails(p) \/ Kill(p)
      PROVE  IInv'
  BY <1>3, ExitKeeps, AnswerType
     DEF OpenFails, DelSeekFails, WriteFails, Kill, Messages
<1>4. ASSUME NEW p \in Procs, ReadEof(p) PROVE IInv'
  BY <1>4, ScanOverIInv DEF ReadEof
<1>5. ASSUME NEW p \in Procs, Step(p) PROVE IInv'
  BY <1>3, <1>4, <1>5, OpenDbIInv, TruncateIInv, ReadNextIInv, ReadFoundIInv,
     ReadFailsIInv, AddStudentIInv, DelStudentIInv DEF Step, StoreStep
<1> QED
  BY <1>1, <1>2, <1>3, <1>5 DEF Next

-----------------------------------------------------------------------------

\* The type invariant, for any number of invocations and any fault: no step
\* writes outside the slots of valid ids (sdbsc.c:121-128, 169-170).
THEOREM TypeCorrect == Spec => []TypeOK
<1>1. IInv => TypeOK
  BY DEF IInv
<1> QED
  BY <1>1, InitIInv, NextIInv, PTL DEF Spec

\* Record i is in slot i and nowhere else, whatever invocations do to the file
\* between the system calls of another (sdbsc.c:121, 169).
THEOREM RecordsStayInPlace == Spec => []RecordsInPlace
<1>1. IInv => RecordsInPlace
  BY DEF IInv
<1> QED
  BY <1>1, InitIInv, NextIInv, PTL DEF Spec

\* What -d does: the student below the one it names is removed, and no other
\* (sdbsc.c:169 seeks to the slot before the one that sdbsc.c:121 fills).
THEOREM DeleteRemovesOneBelow ==
  Spec => [][\A p \in Procs : DelStudent(p) => LiveIds' = LiveIds \ {req[p].id - 1}]_vars
<1>1. ASSUME IInv, NEW p \in Procs, DelStudent(p)
      PROVE  LiveIds' = LiveIds \ {req[p].id - 1}
  <2> DEFINE d == req[p].id - 1
             live(f) == {t \in Slots : f[t] # EMPTY_STUDENT_RECORD}
  <2>1. /\ file' = [file EXCEPT ![d] = EMPTY_STUDENT_RECORD] /\ d \in Slots
        /\ file \in [Slots -> Record]
    <3>1. req[p] \in Request /\ req[p].id - 1 >= 0
      BY <1>1 DEF DelStudent, DelSlot, IInv, RequestOK
    <3> QED
      BY <1>1, <3>1, RecordFacts DEF DelStudent, WriteRecord, DelSlot, Slots, IInv, TypeOK
  <2>2. /\ file'[d] = EMPTY_STUDENT_RECORD
        /\ \A s \in Slots : s # d => file'[s] = file[s]
    BY <2>1
  <2> HIDE DEF d
  <2>3. \A s \in live(file) : file[s].id = s
    BY <1>1 DEF IInv, RecordsInPlace
  <2>4. live(file') = live(file) \ {d}
    BY <2>1, <2>2
  <2>5. LiveIds = live(file)
    BY <2>3 DEF LiveIds
  <2>6. LiveIds' = {file'[s].id : s \in live(file')}
    BY DEF LiveIds
  <2>7. LiveIds' = live(file')
    BY <2>2, <2>3, <2>4, <2>6
  <2> QED
    BY <2>4, <2>5, <2>7 DEF d
<1>2. ASSUME IInv, [Next]_vars
      PROVE  [\A p \in Procs : DelStudent(p) => LiveIds' = LiveIds \ {req[p].id - 1}]_vars
  BY <1>1, <1>2
<1> QED
  BY <1>2, InitIInv, NextIInv, PTL DEF Spec
=============================================================================
