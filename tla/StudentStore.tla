---------------------------- MODULE StudentStore ----------------------------
(***************************************************************************)
(* What the student database promises its users: a set of students, no two *)
(* with the same id, and commands that take effect and are answered in one *)
(* indivisible step.  The promise is the one written in the headers of     *)
(* StudentDB/sdbsc.c (add a student, delete that student, count, print,    *)
(* zero); nothing is said here of files, slots, offsets or scans.          *)
(***************************************************************************)
EXTENDS Integers, FiniteSets

CONSTANTS Procs,     \* the invocations of sdbsc that may be under way at once
          MaxId,     \* MAX_STD_ID
          MaxGpa,    \* MAX_STD_GPA
          Options,   \* the command line options that are used
          AskIds,    \* the ids that users type
          Failing    \* whether an I/O error or a kill may end a command

VARIABLES students,  \* the students stored
          asked,     \* the command each invocation is executing
          out        \* the last answer printed by each invocation

storeVars == <<students, asked, out>>

Student   == [id : 1..MaxId, gpa : 0..MaxGpa]
Request   == {r \in [opt : Options, id : AskIds \cup {0}, gpa : -1..MaxGpa + 1] :
                /\ r.opt \in {"a", "d", "f"} => r.id \in AskIds
                /\ r.opt \notin {"a", "d", "f"} => r.id = 0
                /\ r.opt # "a" => r.gpa = 0}
NoRequest == [opt |-> "none", id |-> 0, gpa |-> 0]

Says(msg)     == [msg |-> msg, n |-> 0, rows |-> {}]
Shows(msg, S) == [msg |-> msg, n |-> 0, rows |-> S]
Counts(k)     == [msg |-> "counted", n |-> k, rows |-> {}]

WithId(i) == {s \in students : s.id = i}

InRange(r) == r.id \in 1..MaxId /\ r.gpa \in 0..MaxGpa

(***************************************************************************)
(* The answer to a request, and the students stored once it is answered.   *)
(***************************************************************************)
Answers(r) ==
  CASE r.opt = "a" -> IF ~InRange(r)            THEN Says("range")
                      ELSE IF WithId(r.id) # {} THEN Says("duplicate")
                      ELSE Says("added")
    [] r.opt = "d" -> Says(IF WithId(r.id) = {} THEN "notfound" ELSE "deleted")
    [] r.opt = "f" -> IF WithId(r.id) = {} THEN Says("notfound")
                      ELSE Shows("found", WithId(r.id))
    [] r.opt = "c" -> IF students = {} THEN Says("empty")
                      ELSE Counts(Cardinality(students))
    [] r.opt = "p" -> IF students = {} THEN Says("empty")
                      ELSE Shows("printed", students)
    [] r.opt = "z" -> Says("zeroed")
    [] r.opt = "x" -> Says("notimpl")
    [] OTHER       -> Says("usage")

StudentsAfter(r) ==
  CASE r.opt = "a" /\ Answers(r).msg = "added" ->
                      students \cup {[id |-> r.id, gpa |-> r.gpa]}
    [] r.opt = "d" -> students \ WithId(r.id)
    [] r.opt = "z" -> {}
    [] OTHER       -> students

-----------------------------------------------------------------------------

Init ==
  /\ students = {}
  /\ asked = [p \in Procs |-> NoRequest]
  /\ out = [p \in Procs |-> Says("none")]

Ask(p, r) ==
  /\ asked[p] = NoRequest
  /\ asked' = [asked EXCEPT ![p] = r]
  /\ out' = [out EXCEPT ![p] = Says("none")]
  /\ UNCHANGED students

Answer(p) ==
  /\ asked[p] # NoRequest
  /\ asked' = [asked EXCEPT ![p] = NoRequest]
  /\ out' = [out EXCEPT ![p] = Answers(asked[p])]
  /\ students' = StudentsAfter(asked[p])

\* An I/O error is reported, or the invocation is killed: nothing changes.
Fail(p) ==
  /\ Failing
  /\ asked[p] # NoRequest
  /\ asked' = [asked EXCEPT ![p] = NoRequest]
  /\ out' \in {[out EXCEPT ![p] = Says(m)] : m \in {"failed", "killed"}}
  /\ UNCHANGED students

Next == \E p \in Procs : \/ \E r \in Request : Ask(p, r)
                         \/ Answer(p)
                         \/ Fail(p)

Spec == Init /\ [][Next]_storeVars
=============================================================================
