------------------------ MODULE StudentStore_proofs ------------------------
(***************************************************************************)
(* The proof that the file of StudentDB implements the set of students of  *)
(* StudentStore while one invocation runs at a time, nothing is deleted    *)
(* and no read() fails: for every largest id and gpa, every set of options *)
(* and ids, and every other kind of fault.                                 *)
(***************************************************************************)
EXTENDS StudentDB_proofs, FiniteSetTheorems

\* The students in the part of the file that the scan has passed.
Passed(p) == {file[s] : s \in {t \in Slots : t < pos[p]}} \ {EMPTY_STUDENT_RECORD}

\* A scan has not met the student it looks for, and has what it met otherwise.
ScanSoFar(p) ==
  /\ Looking(p) => \A r \in Passed(p) : r.id # req[p].id
  /\ req[p].opt = "c" => IsFiniteSet(Passed(p)) /\ count[p] = Cardinality(Passed(p))
  /\ req[p].opt = "p" => RecordsOf(rows[p]) = Passed(p)

\* What the invocation under way knows of the file, which nobody else changes.
Alone(p) ==
  /\ pc[p] = "idle" <=> req[p] = NoRequest
  /\ pc[p] \in {"idle", "open"} => pos[p] = 0 /\ count[p] = 0 /\ rows[p] = <<>>
  /\ pc[p] = "truncate" => req[p].opt = "z"
  /\ pc[p] = "scan" => ScanSoFar(p)
  /\ pc[p] = "write" /\ req[p].opt = "a" => \A r \in Students : r.id # req[p].id

StoreInv == IInv /\ \A p \in Procs : Alone(p)
USE MaxIdAssumption, MaxGpaAssumption, OptionsAssumption, AskIdsAssumption

-----------------------------------------------------------------------------
(***************************************************************************)
(* The file as a set of students.                                          *)
(***************************************************************************)
\* A student is in the slot of the same number, inside the file.
LEMMA StudentAt ==
  ASSUME IInv
  PROVE  /\ \A r \in Students : /\ r.id \in Ids /\ r.id \in Slots /\ r.id < size
                                /\ file[r.id] = r /\ r # EMPTY_STUDENT_RECORD
         /\ \A s \in Slots : file[s] # EMPTY_STUDENT_RECORD => file[s] \in Students
<1>1. ASSUME NEW r \in Students
      PROVE  /\ r.id \in Ids /\ r.id \in Slots /\ r.id < size
             /\ file[r.id] = r /\ r # EMPTY_STUDENT_RECORD
  <2>1. PICK s \in Slots : file[s] = r /\ r # EMPTY_STUDENT_RECORD
    BY DEF Students
  <2> QED
    BY <2>1 DEF IInv, RecordsInPlace
<1> QED
  BY <1>1 DEF Students

\* A scan that has come to the end of the file has passed every student.
LEMMA PassedAll ==
  ASSUME IInv, NEW p \in Procs, AtEof(pos[p])
  PROVE  Passed(p) = Students
<1>1. \A s \in Slots : file[s] = EMPTY_STUDENT_RECORD \/ s < pos[p]
  BY DEF IInv, RecordsInPlace, AtEof, TypeOK, Slots
<1> QED
  BY <1>1 DEF Passed, Students

\* One more record is passed; a student among them has not been met before.
LEMMA PassedNext ==
  ASSUME IInv, NEW p \in Procs, ReadNext(p)
  PROVE  /\ Passed(p)' = Passed(p) \cup ({file[pos[p]]} \ {EMPTY_STUDENT_RECORD})
         /\ file[pos[p]] # EMPTY_STUDENT_RECORD => file[pos[p]] \notin Passed(p)
         /\ UNCHANGED Students
<1>1. pos'[p] = pos[p] + 1 /\ file' = file /\ pos[p] \in Slots
  BY DEF ReadNext, NextPos, AtEof, IInv, TypeOK, Slots
<1>2. \A t \in Slots : t < pos'[p] <=> t < pos[p] \/ t = pos[p]
  BY <1>1 DEF Slots
<1>3. Passed(p)' = Passed(p) \cup ({file[pos[p]]} \ {EMPTY_STUDENT_RECORD})
  BY <1>1, <1>2 DEF Passed
<1>4. ASSUME file[pos[p]] # EMPTY_STUDENT_RECORD PROVE file[pos[p]] \notin Passed(p)
  <2>1. SUFFICES ASSUME NEW t \in Slots, t < pos[p], file[t] = file[pos[p]] PROVE FALSE
    BY DEF Passed
  <2>2. file[t].id = t /\ file[pos[p]].id = pos[p]
    BY <1>1, <1>4, <2>1 DEF IInv, RecordsInPlace
  <2> QED
    BY <1>1, <2>1, <2>2 DEF Slots
<1> QED
  BY <1>1, <1>3, <1>4 DEF Students

LEMMA RecordsAdded ==
  ASSUME NEW t \in Seq(Record), NEW s \in Record
  PROVE  RecordsOf(Append(t, s)) = RecordsOf(t) \cup {s}
<1> DEFINE u == Append(t, s)
<1>1. /\ Len(t) \in Nat /\ DOMAIN t = 1..Len(t) /\ DOMAIN u = 1..Len(t) + 1
      /\ u[Len(t) + 1] = s /\ \A i \in 1..Len(t) : u[i] = t[i]
  OBVIOUS
<1> HIDE DEF u
<1>2. DOMAIN u = DOMAIN t \cup {Len(t) + 1}
  BY <1>1
<1>3. RecordsOf(u) = RecordsOf(t) \cup {s}
  BY <1>1, <1>2 DEF RecordsOf
<1> QED
  BY <1>3 DEF u

LEMMA NoRecords ==
  ASSUME NEW t \in Seq(Record)
  PROVE  RecordsOf(t) = {} <=> t = <<>>
<1>1. DOMAIN t = 1..Len(t) /\ Len(t) \in Nat
  OBVIOUS
<1>2. CASE t = <<>>
  BY <1>2 DEF RecordsOf
<1>3. CASE t # <<>>
  <2>1. 1 \in DOMAIN t
    BY <1>1, <1>3
  <2>2. t[1] \in RecordsOf(t)
    BY <2>1 DEF RecordsOf
  <2> QED
    BY <1>3, <2>2
<1> QED
  BY <1>2, <1>3

-----------------------------------------------------------------------------
(***************************************************************************)
(* StoreInv is inductive.                                                  *)
(***************************************************************************)
OneAtATime == \A p, q \in Procs : p = q

LEMMA RequestIsSome == NoRequest \notin Request
BY DEF NoRequest, Request, OptionLetters

LEMMA ExitAlone ==
  ASSUME IInv, NEW p \in Procs, NEW a, Exit(p, a)
  PROVE  Alone(p)'
<1>1. pc'[p] = "idle" /\ req'[p] = NoRequest /\ pos'[p] = 0 /\ count'[p] = 0 /\ rows'[p] = <<>>
  BY DEF Exit, IInv, TypeOK
<1> QED
  BY <1>1 DEF Alone

LEMMA InvokeAlone ==
  ASSUME IInv, NEW p \in Procs, Alone(p), NEW r \in Request, Invoke(p, r)
  PROVE  Alone(p)'
<1>1. /\ pc'[p] = "open" /\ req'[p] = r /\ pos' = pos /\ count' = count /\ rows' = rows
      /\ pc[p] = "idle"
  BY DEF Invoke, IInv, TypeOK
<1> QED
  BY <1>1, RequestIsSome DEF Alone

LEMMA GotoAlone ==
  ASSUME IInv, NEW p \in Procs, Alone(p), pc[p] # "idle",
         NEW l \in {"truncate", "scan", "write"}, Goto(p, l),
         UNCHANGED <<file, size>>,
         l = "truncate" => req[p].opt = "z",
         l = "scan" => ScanSoFar(p),
         l = "write" /\ req[p].opt = "a" => \A r \in Students : r.id # req[p].id
  PROVE  Alone(p)'
<1>1. /\ pc'[p] = l /\ UNCHANGED <<file, size, req, pos, count, rows>>
  BY DEF Goto, IInv, TypeOK
<1>2. req[p] # NoRequest
  BY DEF Alone
<1>3. Students' = Students /\ Passed(p)' = Passed(p) /\ (Looking(p)' <=> Looking(p))
  BY <1>1 DEF Students, Passed, Looking
<1>4. ScanSoFar(p)' <=> ScanSoFar(p)
  BY <1>1, <1>3 DEF ScanSoFar
<1> QED
  BY <1>1, <1>2, <1>3, <1>4 DEF Alone

LEMMA OpenDbAlone ==
  ASSUME IInv, NEW p \in Procs, Alone(p), OpenDb(p)
  PROVE  Alone(p)'
<1>1. \/ \E a : Exit(p, a)
      \/ Goto(p, "scan")
      \/ Goto(p, "truncate") /\ req[p].opt = "z"
  BY DEF OpenDb
<1>2. pc[p] = "open" /\ UNCHANGED <<file, size>>
  BY DEF OpenDb
<1>3. ScanSoFar(p)
  <2>1. pos[p] = 0 /\ count[p] = 0 /\ rows[p] = <<>>
    BY <1>2 DEF Alone
  <2>2. Passed(p) = {} /\ RecordsOf(<<>>) = {}
    BY <2>1 DEF Passed, Slots, RecordsOf
  <2> QED
    BY <2>1, <2>2, FS_EmptySet DEF ScanSoFar
<1> QED
  BY <1>1, <1>2, <1>3, ExitAlone, GotoAlone

LEMMA ReadNextAlone ==
  ASSUME IInv, NEW p \in Procs, Alone(p), ReadNext(p)
  PROVE  Alone(p)'
<1> DEFINE s == file[pos[p]]
<1>1. /\ pc[p] = "scan" /\ UNCHANGED <<file, pc, req>>
      /\ Looking(p) => ~Matches(s, req[p].id)
      /\ count'[p] = Tallied(p, s) /\ rows'[p] = Printed(p, s)
  BY DEF ReadNext, IInv, TypeOK
<1>2. ScanSoFar(p)
  BY <1>1 DEF Alone
<1>3. /\ Passed(p)' = Passed(p) \cup ({s} \ {EMPTY_STUDENT_RECORD})
      /\ s # EMPTY_STUDENT_RECORD => s \notin Passed(p)
  BY PassedNext
<1>4. Looking(p)' <=> Looking(p)
  BY <1>1 DEF Looking
<1> HIDE DEF s
<1>5. Looking(p) => \A r \in Passed(p)' : r.id # req[p].id
  BY <1>1, <1>2, <1>3 DEF ScanSoFar, Matches
<1>6. ASSUME req[p].opt = "c"
      PROVE  IsFiniteSet(Passed(p)') /\ count'[p] = Cardinality(Passed(p)')
  <2>1. IsFiniteSet(Passed(p)) /\ count[p] = Cardinality(Passed(p))
    BY <1>2, <1>6 DEF ScanSoFar
  <2>2. CASE s = EMPTY_STUDENT_RECORD
    BY <1>1, <1>3, <2>1, <2>2 DEF Tallied, IsEmpty
  <2>3. CASE s # EMPTY_STUDENT_RECORD
    <3>1. Passed(p)' = Passed(p) \cup {s}
      BY <1>3, <2>3
    <3>2. IsFiniteSet(Passed(p) \cup {s})
          /\ Cardinality(Passed(p) \cup {s}) = Cardinality(Passed(p)) + 1
      BY <1>3, <2>1, <2>3, FS_AddElement
    <3>3. count'[p] = count[p] + 1
      BY <1>1, <1>6, <2>3 DEF Tallied, IsEmpty
    <3> QED
      BY <2>1, <3>1, <3>2, <3>3
  <2> QED
    BY <2>2, <2>3
<1>7. ASSUME req[p].opt = "p"
      PROVE  RecordsOf(rows'[p]) = Passed(p)'
  <2>1. RecordsOf(rows[p]) = Passed(p)
    BY <1>2, <1>7 DEF ScanSoFar
  <2>2. CASE s = EMPTY_STUDENT_RECORD
    BY <1>1, <1>3, <2>1, <2>2 DEF Printed, IsEmpty
  <2>3. CASE s # EMPTY_STUDENT_RECORD
    <3>1. rows[p] \in Seq(Record) /\ s \in Record
      BY DEF s, ReadNext, AtEof, IInv, TypeOK, Slots
    <3>2. RecordsOf(Append(rows[p], s)) = RecordsOf(rows[p]) \cup {s}
      BY <3>1, RecordsAdded
    <3>3. rows'[p] = Append(rows[p], s)
      BY <1>1, <1>7, <2>3 DEF Printed, IsEmpty
    <3> QED
      BY <1>3, <2>1, <2>3, <3>2, <3>3
  <2> QED
    BY <2>2, <2>3
<1>8. ScanSoFar(p)'
  BY <1>1, <1>4, <1>5, <1>6, <1>7 DEF ScanSoFar
<1> QED
  BY <1>1, <1>8 DEF Alone

LEMMA ReadFoundAlone ==
  ASSUME IInv, NEW p \in Procs, Alone(p), ReadFound(p)
  PROVE  Alone(p)'
<1>1. \/ \E a : Exit(p, a)
      \/ Goto(p, "write") /\ req[p].opt = "d"
  BY DEF ReadFound
<1>2. pc[p] = "scan" /\ UNCHANGED <<file, size>>
  BY DEF ReadFound
<1> QED
  BY <1>1, <1>2, ExitAlone, GotoAlone

LEMMA ReadEofAlone ==
  ASSUME IInv, NEW p \in Procs, Alone(p), ReadEof(p)
  PROVE  Alone(p)'
<1>1. \/ \E a : Exit(p, a)
      \/ Goto(p, "write") /\ req[p].opt = "a"
  BY DEF ReadEof, ScanOver
<1>2. pc[p] = "scan" /\ UNCHANGED <<file, size>> /\ Passed(p) = Students
  BY PassedAll DEF ReadEof
<1>3. ASSUME req[p].opt = "a" PROVE \A r \in Students : r.id # req[p].id
  BY <1>2, <1>3 DEF Alone, ScanSoFar, Looking
<1> QED
  BY <1>1, <1>2, <1>3, ExitAlone, GotoAlone

LEMMA StoreInvStep ==
  ASSUME OneAtATime, StoreInv, [StoreNext]_vars
  PROVE  StoreInv'
<1>1. IInv'
  <2>1. [Next]_vars
    BY DEF StoreNext, Next, Step
  <2> QED
    BY <2>1, NextIInv DEF StoreInv
<1>2. CASE UNCHANGED vars
  <2>1. UNCHANGED <<file, pc, req, pos, count, rows>>
    BY <1>2 DEF vars
  <2>2. \A p : Alone(p)' <=> Alone(p)
    BY <2>1 DEF Alone, ScanSoFar, Passed, Looking, Students
  <2> QED
    BY <1>1, <2>2 DEF StoreInv
<1>3. ASSUME NEW p \in Procs,
             (\E r \in Request : Invoke(p, r)) \/ StoreStep(p) \/ Kill(p)
      PROVE  StoreInv'
  <2>1. IInv /\ Alone(p)
    BY DEF StoreInv
  <2>2. Alone(p)'
    <3>1. CASE \E r \in Request : Invoke(p, r)
      BY <2>1, <3>1, InvokeAlone
    <3>2. CASE Truncate(p) \/ OpenFails(p) \/ AddStudent(p) \/ WriteFails(p) \/ Kill(p)
      <4>1. \E a : Exit(p, a)
        BY <3>2 DEF Truncate, OpenFails, AddStudent, WriteFails, Kill
      <4> QED
        BY <2>1, <4>1, ExitAlone
    <3> QED
      BY <1>3, <2>1, <3>1, <3>2, OpenDbAlone, ReadNextAlone, ReadFoundAlone, ReadEofAlone
         DEF StoreStep
  <2> QED
    BY <1>1, <2>2 DEF StoreInv, OneAtATime
<1> QED
  BY <1>2, <1>3 DEF StoreNext

LEMMA StoreInvInit == Init => StoreInv
<1> SUFFICES ASSUME Init PROVE StoreInv
  OBVIOUS
<1>1. ASSUME NEW p \in Procs PROVE Alone(p)
  BY DEF Init, Alone
<1> QED
  BY <1>1, InitIInv DEF StoreInv
-----------------------------------------------------------------------------
(***************************************************************************)
(* Every step is one of the store, or none.                                *)
(***************************************************************************)
\* The two modules speak of the same requests and answers.
LEMMA SameWords ==
  /\ Store!NoRequest = NoRequest /\ Store!Request = Request
  /\ \A m : Meaning(Says(m)) = Store!Says(m)
  /\ \A m, t : Meaning(Shows(m, t)) = Store!Shows(m, RecordsOf(t))
  /\ \A k : Meaning(Counts(k)) = Store!Counts(k)
  /\ \A S : Store!Cardinality(S) = Cardinality(S)
<1>1. \A S : Store!Cardinality(S) = Cardinality(S)
  BY DEF Store!Cardinality, Cardinality
<1>2. RecordsOf(<<>>) = {}
  BY DEF RecordsOf
<1>3. /\ \A m : Meaning(Says(m)) = Store!Says(m)
      /\ \A m, t : Meaning(Shows(m, t)) = Store!Shows(m, RecordsOf(t))
      /\ \A k : Meaning(Counts(k)) = Store!Counts(k)
  BY <1>2 DEF Meaning, Store!Says, Says, Store!Shows, Shows, Store!Counts, Counts
<1> QED
  BY <1>1, <1>3 DEF Store!NoRequest, NoRequest, Store!Request, Request

\* What the user of p is told, and nobody else.
LEMMA ToldOne ==
  ASSUME IInv, NEW p \in Procs, NEW a, out' = [out EXCEPT ![p] = a]
  PROVE  Told' = [Told EXCEPT ![p] = Meaning(a)]
<1>1. \A q \in Procs : out'[q] = IF q = p THEN a ELSE out[q]
  BY DEF IInv, TypeOK
<1>2. Told' = [q \in Procs |-> Meaning(out'[q])]
  BY DEF Told
<1>3. Told' = [q \in Procs |-> IF q = p THEN Meaning(a) ELSE Meaning(out[q])]
  BY <1>1, <1>2
<1> QED
  BY <1>3 DEF Told

LEMMA AnswerStep ==
  ASSUME IInv, NEW p \in Procs, NEW a, Exit(p, a), req[p] # NoRequest,
         Meaning(a) = Store!Answers(req[p]), Students' = Store!StudentsAfter(req[p])
  PROVE  Store!Next
<1>1. Told' = [Told EXCEPT ![p] = Meaning(a)]
  BY ToldOne DEF Exit
<1>2. Store!Answer(p)
  BY <1>1, SameWords DEF Store!Answer, Exit
<1> QED
  BY <1>2 DEF Store!Next

LEMMA FailStep ==
  ASSUME IInv, NEW p \in Procs, NEW m \in {"failed", "killed"}, Exit(p, Says(m)),
         req[p] # NoRequest, Faults # {}, UNCHANGED <<file, size>>
  PROVE  Store!Next
<1>1. UNCHANGED Students
  BY DEF Students
<1>2. Told' = [Told EXCEPT ![p] = Meaning(Says(m))]
  BY ToldOne DEF Exit
<1>3. Store!Fail(p)
  BY <1>1, <1>2, SameWords DEF Store!Fail, Exit
<1> QED
  BY <1>3 DEF Store!Next

LEMMA GotoStep ==
  ASSUME NEW p \in Procs, NEW l, Goto(p, l), UNCHANGED <<file, size>>
  PROVE  UNCHANGED Store!storeVars
BY DEF Goto, Store!storeVars, Students, Told

\* The answer to each option, and what it leaves of the students.
LEMMA StoreAnswers ==
  ASSUME NEW r, r.opt \in OptionLetters
  PROVE  /\ r.opt = "a" /\ ~validate_range(r.id, r.gpa)
              => Store!Answers(r) = Store!Says("range") /\ Store!StudentsAfter(r) = Students
         /\ r.opt = "a" /\ validate_range(r.id, r.gpa) /\ Store!WithId(r.id) # {}
              => Store!Answers(r) = Store!Says("duplicate") /\ Store!StudentsAfter(r) = Students
         /\ r.opt = "a" /\ validate_range(r.id, r.gpa) /\ Store!WithId(r.id) = {}
              => /\ Store!Answers(r) = Store!Says("added")
                 /\ Store!StudentsAfter(r) = Students \cup {[id |-> r.id, gpa |-> r.gpa]}
         /\ r.opt \in {"d", "f"} /\ Store!WithId(r.id) = {}
              => Store!Answers(r) = Store!Says("notfound") /\ Store!StudentsAfter(r) = Students
         /\ r.opt = "f" /\ Store!WithId(r.id) # {}
              => /\ Store!Answers(r) = Store!Shows("found", Store!WithId(r.id))
                 /\ Store!StudentsAfter(r) = Students
         /\ r.opt = "c"
              => /\ Store!Answers(r) = IF Students = {} THEN Store!Says("empty")
                                       ELSE Store!Counts(Cardinality(Students))
                 /\ Store!StudentsAfter(r) = Students
         /\ r.opt = "p"
              => /\ Store!Answers(r) = IF Students = {} THEN Store!Says("empty")
                                       ELSE Store!Shows("printed", Students)
                 /\ Store!StudentsAfter(r) = Students
         /\ r.opt = "z" => Store!Answers(r) = Store!Says("zeroed") /\ Store!StudentsAfter(r) = {}
         /\ r.opt = "x" => Store!Answers(r) = Store!Says("notimpl") /\ Store!StudentsAfter(r) = Students
         /\ r.opt = "?" => Store!Answers(r) = Store!Says("usage") /\ Store!StudentsAfter(r) = Students
<1>1. Store!InRange(r) <=> validate_range(r.id, r.gpa)
  BY DEF Store!InRange, validate_range, Ids
<1>2. /\ Store!Says("range").msg # "added" /\ Store!Says("duplicate").msg # "added"
      /\ Store!Says("added").msg = "added"
  BY DEF Store!Says
<1> USE SameWords DEF Store!Answers, Store!StudentsAfter
<1>3. CASE r.opt = "a"
  <2>1. CASE ~validate_range(r.id, r.gpa)
    <3>1. Store!Answers(r) = Store!Says("range")
      BY <1>1, <1>3, <2>1
    <3> HIDE DEF Store!Answers
    <3> QED
      BY <1>2, <1>3, <2>1, <3>1
  <2>2. CASE validate_range(r.id, r.gpa) /\ Store!WithId(r.id) # {}
    <3>1. Store!Answers(r) = Store!Says("duplicate")
      BY <1>1, <1>3, <2>2
    <3> HIDE DEF Store!Answers
    <3> QED
      BY <1>2, <1>3, <2>2, <3>1
  <2>3. CASE validate_range(r.id, r.gpa) /\ Store!WithId(r.id) = {}
    <3>1. Store!Answers(r) = Store!Says("added")
      BY <1>1, <1>3, <2>3
    <3> HIDE DEF Store!Answers
    <3> QED
      BY <1>2, <1>3, <2>3, <3>1
  <2> HIDE DEF Store!Answers, Store!StudentsAfter
  <2> QED
    BY <2>1, <2>2, <2>3
<1>4. CASE r.opt \in {"d", "f"}
  BY <1>4 DEF Store!WithId
<1>5. CASE r.opt \in {"c", "p", "z", "x", "?"}
  <2>1. CASE r.opt = "c"
    <3>1. Store!Answers(r) = IF Students = {} THEN Store!Says("empty") ELSE Store!Counts(Cardinality(Students))
      BY <2>1
    <3>2. Store!StudentsAfter(r) = Students
      BY <2>1
    <3> HIDE DEF Store!Answers, Store!StudentsAfter
    <3> QED
      BY <2>1, <3>1, <3>2
  <2>2. CASE r.opt = "p"
    BY <2>2
  <2>3. CASE r.opt = "z"
    BY <2>3
  <2>4. CASE r.opt = "x"
    BY <2>4
  <2>5. CASE r.opt = "?"
    BY <2>5
  <2> QED
    BY <1>5, <2>1, <2>2, <2>3, <2>4, <2>5
<1>6. r.opt = "a" \/ r.opt \in {"d", "f"} \/ r.opt \in {"c", "p", "z", "x", "?"}
  BY DEF OptionLetters
<1> HIDE DEF Store!Answers, Store!StudentsAfter
<1> QED
  BY <1>3, <1>4, <1>5, <1>6, Zenon

LEMMA OpenDbStore ==
  ASSUME IInv, NEW p \in Procs, Alone(p), OpenDb(p)
  PROVE  [Store!Next]_(Store!storeVars)
<1> DEFINE r == req[p]
<1>1. r # NoRequest /\ UNCHANGED <<file, size>> /\ Students' = Students /\ r.opt \in OptionLetters
  <2>1. pc[p] = "open" /\ UNCHANGED <<file, size>>
    BY DEF OpenDb
  <2>2. r \in Request
    BY <2>1 DEF IInv, RequestOK
  <2> QED
    BY <2>1, <2>2, RequestIsSome, RecordFacts DEF Students
<1>2. CASE Goto(p, "scan") \/ Goto(p, "truncate")
  BY <1>1, <1>2, GotoStep
<1>3. CASE \/ r.opt = "a" /\ ~validate_range(r.id, r.gpa) /\ Exit(p, Says("range"))
           \/ r.opt = "x" /\ Exit(p, Says("notimpl"))
           \/ r.opt = "?" /\ Exit(p, Says("usage"))
  BY <1>1, <1>3, StoreAnswers, SameWords, AnswerStep
<1> QED
  BY <1>2, <1>3 DEF OpenDb

LEMMA TruncateStore ==
  ASSUME IInv, NEW p \in Procs, Alone(p), Truncate(p)
  PROVE  Store!Next
<1>1. pc[p] = "truncate" /\ Exit(p, Says("zeroed"))
      /\ file' = [s \in Slots |-> EMPTY_STUDENT_RECORD]
  BY DEF Truncate
<1>2. req[p] # NoRequest /\ req[p].opt = "z"
  BY <1>1 DEF Alone
<1>3. Students' = {}
  BY <1>1 DEF Students
<1>4. Store!Answers(req[p]) = Store!Says("zeroed") /\ Store!StudentsAfter(req[p]) = {}
  BY <1>2, StoreAnswers DEF OptionLetters
<1> QED
  BY <1>1, <1>2, <1>3, <1>4, SameWords, AnswerStep

\* The scan has met the student: nobody else has its id.
LEMMA ReadFoundStore ==
  ASSUME IInv, NEW p \in Procs, Alone(p), ReadFound(p), 0 \notin AskIds
  PROVE  [Store!Next]_(Store!storeVars)
<1> DEFINE r == req[p]
           s == file[pos[p]]
<1>1. /\ pc[p] = "scan" /\ pos[p] \in Slots /\ s.id = r.id /\ UNCHANGED <<file, size>>
      /\ \/ r.opt = "a" /\ Exit(p, Says("duplicate"))
         \/ r.opt = "d" /\ Goto(p, "write")
         \/ r.opt = "f" /\ Exit(p, PrintStudent(s))
  BY DEF ReadFound, Matches, AtEof, IInv, TypeOK, Slots
<1>2. r # NoRequest /\ r \in Request /\ Students' = Students
      /\ (r.opt = "a" => validate_range(r.id, r.gpa))
  BY <1>1 DEF Alone, IInv, RequestOK, Students
<1>3. r.id # 0
  BY <1>1, <1>2 DEF Request
<1>4. s \in Students
  <2>1. s # EMPTY_STUDENT_RECORD
    BY <1>1, <1>3 DEF EMPTY_STUDENT_RECORD
  <2> QED
    BY <1>1, <2>1, StudentAt
<1>5. Store!WithId(r.id) = {s}
  BY <1>1, <1>4, StudentAt DEF Store!WithId
<1> HIDE DEF r, s
<1>6. CASE r.opt = "a" /\ Exit(p, Says("duplicate"))
  <2>1. Store!Answers(r) = Store!Says("duplicate") /\ Store!StudentsAfter(r) = Students
    BY <1>2, <1>5, <1>6, StoreAnswers DEF OptionLetters
  <2> QED
    BY <1>2, <1>6, <2>1, SameWords, AnswerStep DEF r
<1>7. CASE r.opt = "f" /\ Exit(p, PrintStudent(s))
  <2>1. Meaning(PrintStudent(s)) = Store!Shows("found", {s})
    <3>1. PrintStudent(s) = Shows("found", <<s>>)
      BY <1>1, <1>3 DEF PrintStudent
    <3>2. RecordsOf(<<s>>) = {s}
      BY DEF RecordsOf
    <3> QED
      BY <3>1, <3>2, SameWords
  <2>2. Store!Answers(r) = Store!Shows("found", {s}) /\ Store!StudentsAfter(r) = Students
    <3>1. Store!WithId(r.id) # {}
      BY <1>5
    <3>2. /\ Store!Answers(r) = Store!Shows("found", Store!WithId(r.id))
          /\ Store!StudentsAfter(r) = Students
      BY <1>7, <3>1, StoreAnswers DEF OptionLetters
    <3> QED
      BY <1>5, <3>2
  <2> QED
    BY <1>2, <1>7, <2>1, <2>2, AnswerStep DEF r
<1>8. CASE Goto(p, "write")
  BY <1>1, <1>8, GotoStep
<1> QED
  BY <1>1, <1>6, <1>7, <1>8

\* The scan has met every student.
LEMMA ReadEofStore ==
  ASSUME IInv, NEW p \in Procs, Alone(p), ReadEof(p)
  PROVE  [Store!Next]_(Store!storeVars)
<1> DEFINE r == req[p]
<1>1. pc[p] = "scan" /\ ScanOver(p) /\ UNCHANGED <<file, size>> /\ AtEof(pos[p])
  BY DEF ReadEof
<1>2. r # NoRequest /\ Students' = Students /\ ScanSoFar(p) /\ Passed(p) = Students
  BY <1>1, PassedAll DEF Alone, Students
<1>3. \/ r.opt = "a" /\ Goto(p, "write")
      \/ r.opt \in {"d", "f"} /\ Exit(p, Says("notfound"))
      \/ r.opt = "c" /\ Exit(p, IF count[p] = 0 THEN Says("empty") ELSE Counts(count[p]))
      \/ r.opt = "p" /\ Exit(p, IF rows[p] = <<>> THEN Says("empty")
                                ELSE Shows("printed", rows[p]))
  BY <1>1 DEF ScanOver
<1>4. CASE r.opt = "a" /\ Goto(p, "write")
  BY <1>1, <1>4, GotoStep
<1>5. CASE r.opt \in {"d", "f"} /\ Exit(p, Says("notfound"))
  <2>1. Store!WithId(r.id) = {}
    BY <1>2, <1>5 DEF ScanSoFar, Looking, Store!WithId
  <2>2. Store!Answers(r) = Store!Says("notfound") /\ Store!StudentsAfter(r) = Students
    BY <1>5, <2>1, StoreAnswers DEF OptionLetters
  <2> QED
    BY <1>2, <1>5, <2>2, SameWords, AnswerStep
<1>6. CASE r.opt = "c" /\ Exit(p, IF count[p] = 0 THEN Says("empty") ELSE Counts(count[p]))
  <2>1. IsFiniteSet(Students) /\ count[p] = Cardinality(Students)
    BY <1>2, <1>6 DEF ScanSoFar
  <2>2. count[p] = 0 <=> Students = {}
    BY <2>1, FS_EmptySet
  <2>3. Store!Answers(r) = (IF Students = {} THEN Store!Says("empty")
                            ELSE Store!Counts(Cardinality(Students)))
        /\ Store!StudentsAfter(r) = Students
    BY <1>6, StoreAnswers DEF OptionLetters
  <2>4. Store!Answers(r) = Meaning(IF count[p] = 0 THEN Says("empty") ELSE Counts(count[p]))
    BY <2>1, <2>2, <2>3, SameWords
  <2> QED
    BY <1>2, <1>6, <2>3, <2>4, AnswerStep
<1>7. CASE r.opt = "p" /\ Exit(p, IF rows[p] = <<>> THEN Says("empty")
                                  ELSE Shows("printed", rows[p]))
  <2>1. RecordsOf(rows[p]) = Students /\ rows[p] \in Seq(Record)
    BY <1>2, <1>7 DEF ScanSoFar, IInv, TypeOK
  <2>2. rows[p] = <<>> <=> Students = {}
    BY <2>1, NoRecords
  <2>3. Store!Answers(r) = (IF Students = {} THEN Store!Says("empty")
                            ELSE Store!Shows("printed", Students))
        /\ Store!StudentsAfter(r) = Students
    BY <1>7, StoreAnswers DEF OptionLetters
  <2>4. Store!Answers(r) =
          Meaning(IF rows[p] = <<>> THEN Says("empty") ELSE Shows("printed", rows[p]))
    BY <2>1, <2>2, <2>3, SameWords
  <2> QED
    BY <1>2, <1>7, <2>3, <2>4, AnswerStep
<1> QED
  BY <1>3, <1>4, <1>5, <1>6, <1>7

\* The student is written to a slot that was empty.
LEMMA AddStudentStore ==
  ASSUME IInv, NEW p \in Procs, Alone(p), AddStudent(p)
  PROVE  Store!Next
<1> DEFINE r == req[p]
           new == [id |-> r.id, gpa |-> r.gpa]
<1>1. /\ pc[p] = "write" /\ r.opt = "a" /\ Exit(p, Says("added"))
      /\ file' = [file EXCEPT ![r.id] = new]
  BY DEF AddStudent, WriteRecord, AddSlot
<1>2. r # NoRequest /\ validate_range(r.id, r.gpa) /\ \A t \in Students : t.id # r.id
  BY <1>1 DEF Alone, IInv, RequestOK
<1>3. r.id \in Slots /\ r.id # 0 /\ file \in [Slots -> Record]
  BY <1>2 DEF validate_range, Ids, Slots, IInv, TypeOK
<1>4. file[r.id] = EMPTY_STUDENT_RECORD
  <2>1. file[r.id] # EMPTY_STUDENT_RECORD => file[r.id].id = r.id
    BY <1>3 DEF IInv, RecordsInPlace
  <2> QED
    BY <1>2, <1>3, <2>1, StudentAt
<1>5. new # EMPTY_STUDENT_RECORD
  BY <1>3 DEF EMPTY_STUDENT_RECORD
<1>6. Students' = Students \cup {new}
  <2>1. file' \in [Slots -> Record \cup {new}] /\ file'[r.id] = new
        /\ \A s \in Slots : s # r.id => file'[s] = file[s]
    BY <1>1, <1>3
  <2> HIDE DEF r, new
  <2> QED
    BY <1>3, <1>4, <1>5, <2>1 DEF Students
<1>7. Store!WithId(r.id) = {}
  BY <1>2 DEF Store!WithId
<1>8. Store!Answers(r) = Store!Says("added") /\ Store!StudentsAfter(r) = Students \cup {new}
  BY <1>1, <1>2, <1>7, StoreAnswers DEF OptionLetters
<1> QED
  BY <1>1, <1>2, <1>6, <1>8, SameWords, AnswerStep

LEMMA StoreInit == Init => Store!Init
<1> SUFFICES ASSUME Init PROVE Store!Init
  OBVIOUS
<1>1. Students = {}
  BY DEF Init, Students
<1>2. Told = [p \in Procs |-> Store!Says("none")]
  BY SameWords DEF Init, Told
<1> QED
  BY <1>1, <1>2, SameWords DEF Init, Store!Init

LEMMA StoreNextStep ==
  ASSUME StoreInv, [StoreNext]_vars, 0 \notin AskIds
  PROVE  [Store!Next]_(Store!storeVars)
<1>1. CASE UNCHANGED vars
  BY <1>1 DEF vars, Store!storeVars, Students, Told
<1>2. ASSUME NEW p \in Procs,
             (\E r \in Request : Invoke(p, r)) \/ StoreStep(p) \/ Kill(p)
      PROVE  [Store!Next]_(Store!storeVars)
  <2>1. IInv /\ Alone(p)
    BY DEF StoreInv
  <2>2. ASSUME NEW r \in Request, Invoke(p, r) PROVE Store!Next
    <3>1. Told' = [Told EXCEPT ![p] = Store!Says("none")]
      BY <2>1, <2>2, ToldOne, SameWords DEF Invoke
    <3>2. Store!Ask(p, r)
      BY <2>1, <2>2, <3>1, SameWords DEF Invoke, Alone, Store!Ask, Students
    <3> QED
      BY <3>2, SameWords DEF Store!Next
  <2>3. CASE OpenFails(p) \/ WriteFails(p) \/ Kill(p)
    <3>1. /\ Exit(p, Says("failed")) \/ Exit(p, Says("killed"))
          /\ pc[p] # "idle" /\ Faults # {} /\ UNCHANGED <<file, size>>
      BY <2>3 DEF OpenFails, WriteFails, Kill
    <3>2. req[p] # NoRequest
      BY <2>1, <3>1 DEF Alone
    <3> QED
      BY <2>1, <3>1, <3>2, FailStep
  <2>4. CASE ReadNext(p)
    BY <2>1, <2>4, PassedNext DEF ReadNext, Store!storeVars, Told
  <2> QED
    BY <1>2, <2>1, <2>2, <2>3, <2>4, OpenDbStore, TruncateStore, ReadFoundStore, ReadEofStore,
       AddStudentStore DEF StoreStep
<1> QED
  BY <1>1, <1>2 DEF StoreNext

-----------------------------------------------------------------------------

\* While one invocation runs at a time, no read() fails and nothing is deleted, the
\* file is a set of students to its users: -a, -c, -f, -p and -z are answered, and
\* take effect, as one indivisible step (sdbsc.c:71-80, 103-131, 205-295).  An id
\* of 0 is not asked for: get_student() takes a hole of the file for it.
THEOREM ImplementsSequentially ==
  OneAtATime /\ 0 \notin AskIds => (StoreSpec => ImplementsStore)
<1> SUFFICES ASSUME OneAtATime, 0 \notin AskIds PROVE StoreSpec => Store!Spec
  BY DEF ImplementsStore
<1>1. Init => StoreInv /\ Store!Init
  BY StoreInvInit, StoreInit
<1>2. StoreInv /\ [StoreNext]_vars => StoreInv'
  BY StoreInvStep
<1>3. StoreInv /\ [StoreNext]_vars => [Store!Next]_(Store!storeVars)
  BY StoreNextStep
<1> QED
  BY <1>1, <1>2, <1>3, PTL DEF StoreSpec, Store!Spec
=============================================================================
