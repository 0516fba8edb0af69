----------------------------- MODULE StudentDB -----------------------------
(***************************************************************************)
(* The student database of StudentDB/sdbsc.c: a file of 64-byte records    *)
(* that any number of sdbsc invocations read and write without a lock, one *)
(* system call at a time.                                                  *)
(*                                                                         *)
(* A record is its id and its gpa (the two names are payload that no       *)
(* branch of the code reads).  The file is counted in records: `size' is   *)
(* its length, slot s is the record at offset s * 64, and a slot that was  *)
(* skipped by an lseek past the end reads as zeroes.  A 64-byte record at  *)
(* a multiple of 64 never straddles a page, so a read or a write of one is *)
(* a single step that happens or fails, never half of it.                  *)
(***************************************************************************)
EXTENDS Integers, Sequences, FiniteSets

CONSTANTS Procs,     \* the invocations of sdbsc that may be under way at once
          MaxId,     \* MAX_STD_ID
          MaxGpa,    \* MAX_STD_GPA
          Options,   \* the command line options that are used
          AskIds,    \* the ids that users type: atoi(argv[2])
          Faults     \* what may go wrong: see FaultKinds

OptionLetters == {"a", "c", "d", "f", "p", "x", "z", "?"}
FaultKinds    == {"open", "read", "write", "kill"}

ASSUME MaxIdAssumption   == MaxId \in Nat \ {0}
ASSUME MaxGpaAssumption  == MaxGpa \in Nat
ASSUME OptionsAssumption == Options \subseteq OptionLetters
ASSUME AskIdsAssumption  == AskIds \subseteq 0..MaxId + 1
ASSUME FaultsAssumption  == Faults \subseteq FaultKinds

VARIABLES file,  \* the record in each slot
          size,  \* length of the file, in records
          pc,    \* where each invocation is
          req,   \* its arguments: opt, id, gpa of main()
          pos,   \* its file offset, in records
          count, \* count of count_db_records()
          rows,  \* the records print_db() has printed, in that order
          out    \* what the invocation told its user when it exited

vars == <<file, size, pc, req, pos, count, rows, out>>

-----------------------------------------------------------------------------

Ids     == 1..MaxId
Slots   == 0..MaxId
Record  == [id : 0..MaxId, gpa : 0..MaxGpa]
Request ==  \* an argument that the option does not take is 0
  {r \in [opt : Options, id : AskIds \cup {0}, gpa : -1..MaxGpa + 1] :
     /\ r.opt \in {"a", "d", "f"} => r.id \in AskIds
     /\ r.opt \notin {"a", "d", "f"} => r.id = 0
     /\ r.opt # "a" => r.gpa = 0}

EMPTY_STUDENT_RECORD == [id |-> 0, gpa |-> 0]
NoRequest            == [opt |-> "none", id |-> 0, gpa |-> 0]

Says(msg)     == [msg |-> msg, n |-> 0, rows |-> <<>>]
Shows(msg, t) == [msg |-> msg, n |-> 0, rows |-> t]
Counts(k)     == [msg |-> "counted", n |-> k, rows |-> <<>>]

Messages == {"none", "added", "range", "duplicate", "deleted", "notfound",
             "found", "unprintable", "counted", "empty", "printed", "zeroed",
             "notimpl", "usage", "failed", "killed"}

\* Mutant: the upper bound of the ids is forgotten.
validate_range_NoMax(id, gpa) == id >= 1 /\ gpa \in 0..MaxGpa

validate_range(id, gpa) == id \in Ids /\ gpa \in 0..MaxGpa

\* Mutant: the first student goes to the start of the file.
AddSlot_FromOne(id) == id - 1

\* The slot add_student() seeks to.
AddSlot(id) == id

\* The slot del_student() seeks to.
DelSlot(id) == id - 1

\* Mutant: the memcmp() is left out.
IsEmpty_Never(r) == FALSE

IsEmpty(r) == r = EMPTY_STUDENT_RECORD

\* Mutant: the comparison of ids is not equality.
Matches_AtLeast(r, i) == r.id >= i

Matches(r, i) == r.id = i

\* Mutant: read() does not move the offset.
NextPos_Stuck(n) == n

NextPos(n) == n + 1

\* Mutant: the last record is taken for the end of the file.
AtEof_OneShort(n) == n >= size - 1

AtEof(n) == n >= size

\* write(): the record lands in its slot, the file grows to hold it.
WriteRecord(s, r) ==
  /\ file' = [file EXCEPT ![s] = r]
  /\ size' = IF s < size THEN size ELSE s + 1

TypeOK ==
  /\ file \in [Slots -> Record]
  /\ size \in 0..MaxId + 1
  /\ pc \in [Procs -> {"idle", "open", "truncate", "scan", "write"}]
  /\ req \in [Procs -> Request \cup {NoRequest}]
  /\ pos \in [Procs -> 0..MaxId + 1]
  /\ count \in [Procs -> 0..MaxId + 1]
  /\ rows \in [Procs -> Seq(Record)]
  /\ out \in [Procs -> [msg : Messages, n : 0..MaxId + 1, rows : Seq(Record)]]

Init ==
  /\ file = [s \in Slots |-> EMPTY_STUDENT_RECORD]
  /\ size = 0
  /\ pc = [p \in Procs |-> "idle"]
  /\ req = [p \in Procs |-> NoRequest]
  /\ pos = [p \in Procs |-> 0]
  /\ count = [p \in Procs |-> 0]
  /\ rows = [p \in Procs |-> <<>>]
  /\ out = [p \in Procs |-> Says("none")]

-----------------------------------------------------------------------------
(***************************************************************************)
(* Control of one invocation.                                              *)
(***************************************************************************)
Goto(p, label) ==
  /\ pc' = [pc EXCEPT ![p] = label]
  /\ UNCHANGED <<req, pos, count, rows, out>>

\* Print the answer, close(fd), exit(exit_code).
Exit(p, answer) ==
  /\ pc' = [pc EXCEPT ![p] = "idle"]
  /\ req' = [req EXCEPT ![p] = NoRequest]
  /\ pos' = [pos EXCEPT ![p] = 0]
  /\ count' = [count EXCEPT ![p] = 0]
  /\ rows' = [rows EXCEPT ![p] = <<>>]
  /\ out' = [out EXCEPT ![p] = answer]

\* The shell starts sdbsc; "?" is an unknown option or a wrong argc.
Invoke(p, r) ==
  /\ pc[p] = "idle"
  /\ pc' = [pc EXCEPT ![p] = "open"]
  /\ req' = [req EXCEPT ![p] = r]
  /\ out' = [out EXCEPT ![p] = Says("none")]
  /\ UNCHANGED <<file, size, pos, count, rows>>

\* open_db(DB_FILE, false), then the switch of main() up to its first I/O.
OpenDb(p) ==
  /\ pc[p] = "open"
  /\ LET r == req[p] IN
       \/ r.opt = "a" /\ ~validate_range(r.id, r.gpa) /\ Exit(p, Says("range"))
       \/ r.opt = "a" /\ validate_range(r.id, r.gpa)  /\ Goto(p, "scan")
       \/ r.opt \in {"c", "d", "f", "p"}              /\ Goto(p, "scan")
       \/ r.opt = "z"                                 /\ Goto(p, "truncate")
       \/ r.opt = "x"                                 /\ Exit(p, Says("notimpl"))
       \/ r.opt = "?"                                 /\ Exit(p, Says("usage"))
  /\ UNCHANGED <<file, size>>

\* open_db(DB_FILE, true): the second open of the z option empties the file.
Truncate(p) ==
  /\ pc[p] = "truncate"
  /\ file' = [s \in Slots |-> EMPTY_STUDENT_RECORD]
  /\ size' = 0
  /\ Exit(p, Says("zeroed"))

OpenFails(p) ==
  /\ "open" \in Faults
  /\ pc[p] \in {"open", "truncate"}
  /\ Exit(p, Says("failed"))
  /\ UNCHANGED <<file, size>>

-----------------------------------------------------------------------------
(***************************************************************************)
(* The scans.  a, d and f run get_student(), c count_db_records(), p       *)
(* print_db(): each reads the file record by record from its start.        *)
(***************************************************************************)
Looking(p) == req[p].opt \in {"a", "d", "f"}

\* print_student() refuses a record whose id is 0.
PrintStudent(s) == IF s.id = 0 THEN Says("unprintable") ELSE Shows("found", <<s>>)

\* What count_db_records() and print_db() make of a record they have read.
Tallied(p, s) == IF req[p].opt = "c" /\ ~IsEmpty(s) THEN count[p] + 1 ELSE count[p]
Printed(p, s) == IF req[p].opt = "p" /\ ~IsEmpty(s) THEN Append(rows[p], s) ELSE rows[p]

\* read() returned a record that is not the one looked for: take the next.
ReadNext(p) ==
  /\ pc[p] = "scan"
  /\ ~AtEof(pos[p])
  /\ LET s == file[pos[p]] IN
       /\ Looking(p) => ~Matches(s, req[p].id)
       /\ count' = [count EXCEPT ![p] = Tallied(p, s)]
       /\ rows' = [rows EXCEPT ![p] = Printed(p, s)]
  /\ pos' = [pos EXCEPT ![p] = NextPos(@)]
  /\ UNCHANGED <<file, size, pc, req, out>>

\* get_student() returned NO_ERROR.
ReadFound(p) ==
  /\ pc[p] = "scan"
  /\ ~AtEof(pos[p])
  /\ Looking(p)
  /\ LET s == file[pos[p]] IN
       /\ Matches(s, req[p].id)
       /\ \/ req[p].opt = "a" /\ Exit(p, Says("duplicate"))
          \/ req[p].opt = "d" /\ Goto(p, "write")
          \/ req[p].opt = "f" /\ Exit(p, PrintStudent(s))
  /\ UNCHANGED <<file, size>>

\* The scan is over: get_student() returned SRCH_NOT_FOUND, and the callers go on.
ScanOver(p) ==
  \/ req[p].opt = "a" /\ Goto(p, "write")
  \/ req[p].opt \in {"d", "f"} /\ Exit(p, Says("notfound"))
  \/ req[p].opt = "c" /\ Exit(p, IF count[p] = 0 THEN Says("empty")
                                 ELSE Counts(count[p]))
  \/ req[p].opt = "p" /\ Exit(p, IF rows[p] = <<>> THEN Says("empty")
                                 ELSE Shows("printed", rows[p]))

\* read() returned 0.
ReadEof(p) ==
  /\ pc[p] = "scan"
  /\ AtEof(pos[p])
  /\ ScanOver(p)
  /\ UNCHANGED <<file, size>>

\* read() returned -1: only count_db_records() tells it from the end of the file.
ReadFails(p) ==
  /\ "read" \in Faults
  /\ pc[p] = "scan"
  /\ IF req[p].opt = "c" THEN Exit(p, Says("failed")) ELSE ScanOver(p)
  /\ UNCHANGED <<file, size>>

-----------------------------------------------------------------------------
(***************************************************************************)
(* The writes.                                                             *)
(***************************************************************************)
\* add_student() after its duplicate check.
AddStudent(p) ==
  /\ pc[p] = "write"
  /\ req[p].opt = "a"
  /\ WriteRecord(AddSlot(req[p].id), [id |-> req[p].id, gpa |-> req[p].gpa])
  /\ Exit(p, Says("added"))

\* del_student() after get_student() found the student.
DelStudent(p) ==
  /\ pc[p] = "write"
  /\ req[p].opt = "d"
  /\ DelSlot(req[p].id) >= 0
  /\ WriteRecord(DelSlot(req[p].id), EMPTY_STUDENT_RECORD)
  /\ Exit(p, Says("deleted"))

\* lseek() to a negative offset fails.
DelSeekFails(p) ==
  /\ pc[p] = "write"
  /\ req[p].opt = "d"
  /\ DelSlot(req[p].id) < 0
  /\ Exit(p, Says("failed"))
  /\ UNCHANGED <<file, size>>

WriteFails(p) ==
  /\ "write" \in Faults
  /\ pc[p] = "write"
  /\ Exit(p, Says("failed"))
  /\ UNCHANGED <<file, size>>

\* A signal ends the invocation between two system calls.
Kill(p) ==
  /\ "kill" \in Faults
  /\ pc[p] # "idle"
  /\ Exit(p, Says("killed"))
  /\ UNCHANGED <<file, size>>

-----------------------------------------------------------------------------

\* The steps that keep the promise of module StudentStore.
StoreStep(p) ==
  \/ OpenDb(p) \/ Truncate(p) \/ OpenFails(p)
  \/ ReadNext(p) \/ ReadFound(p) \/ ReadEof(p)
  \/ AddStudent(p) \/ WriteFails(p)

Step(p) ==
  StoreStep(p) \/ ReadFails(p) \/ DelStudent(p) \/ DelSeekFails(p)

Next == \E p \in Procs : \/ \E r \in Request : Invoke(p, r)
                         \/ Step(p)
                         \/ Kill(p)

Spec == Init /\ [][Next]_vars

\* A system call that does not fail returns.
CallReturns(p) ==
  \/ OpenDb(p) \/ Truncate(p)
  \/ ReadNext(p) \/ ReadFound(p) \/ ReadEof(p)
  \/ AddStudent(p) \/ DelStudent(p) \/ DelSeekFails(p)

\* The kernel schedules every running invocation and its system calls return;
\* nobody is bound to start one, and no call is bound to fail.
Fairness == \A p \in Procs : WF_vars(CallReturns(p))

FairSpec == Spec /\ Fairness

\* No read() fails, and nothing is deleted.
StoreNext == \E p \in Procs : \/ \E r \in Request : Invoke(p, r)
                              \/ StoreStep(p)
                              \/ Kill(p)

StoreSpec == Init /\ [][StoreNext]_vars
-----------------------------------------------------------------------------
(***************************************************************************)
(* Properties.                                                             *)
(***************************************************************************)
\* The students in the file, by id.
LiveIds == {file[s].id : s \in {t \in Slots : file[t] # EMPTY_STUDENT_RECORD}}

\* Whatever the invocations do between each other's system calls, the record
\* of student i is in slot i and nowhere else, and beyond the end of the file
\* there is nothing: the index that add_student() computes (sdbsc.c:121) is
\* where every later lookup finds the student, and no id is stored twice.
RecordsInPlace ==
  \A s \in Slots : \/ file[s] = EMPTY_STUDENT_RECORD
                   \/ s \in Ids /\ s < size /\ file[s].id = s

\* Every command that was started ends: a scan reaches the end of the file
\* although other invocations may make the file longer under it.
CommandsFinish == \A p \in Procs : pc[p] # "idle" ~> pc[p] = "idle"

\* -d removes the student it names and no other: sdbsc.c:144-147.
DeleteRemovesThatStudent ==
  [][\A p \in Procs : DelStudent(p) => LiveIds' = LiveIds \ {req[p].id}]_vars

(***************************************************************************)
(* One invocation at a time, no -d and no read error: the file implements  *)
(* the abstract store.                                                     *)
(***************************************************************************)
Students == {file[s] : s \in Slots} \ {EMPTY_STUDENT_RECORD}

RecordsOf(t) == {t[i] : i \in DOMAIN t}

\* What an answer says of the students, whatever the order of its rows.
Meaning(answer) ==
  [msg |-> answer.msg, n |-> answer.n, rows |-> RecordsOf(answer.rows)]

Told == [p \in Procs |-> Meaning(out[p])]

Store == INSTANCE StudentStore WITH
           students <- Students,
           asked    <- req,
           out      <- Told,
           Failing  <- Faults # {}

\* The commands take effect and are answered as the store promises: a scan
\* followed by a write is, to the user, one step on a set of students.
ImplementsStore == Store!Spec
=============================================================================
