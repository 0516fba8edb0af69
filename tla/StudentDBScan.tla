--------------------------- MODULE StudentDBScan ---------------------------
(***************************************************************************)
(* What a scan of StudentDB/sdbsc.c is worth while other invocations write *)
(* to the file under it.  No lock is taken, so get_student(),              *)
(* count_db_records() and print_db() return no snapshot: the answer may    *)
(* describe a database that never existed.  What remains is an interval:   *)
(* a student that was stored all along is seen, and one that was never     *)
(* stored is not.  Two history variables record both sets per invocation.  *)
(* A scan that a failed read() cut short promises nothing of the students  *)
(* it did not reach: a third one marks it.                                 *)
(***************************************************************************)
EXTENDS StudentDB

VARIABLES kept,  \* students stored at every moment since the scan began
          seen,  \* students stored at some moment since the scan began
          cut    \* whether read() failed in the current or last scan

scanVars == <<vars, kept, seen, cut>>

ScanInit ==
  /\ Init
  /\ kept = [p \in Procs |-> {}]
  /\ seen = [p \in Procs |-> {}]
  /\ cut = [p \in Procs |-> FALSE]

\* In this step the scans of the invocations in `failing' were cut short.
Observe(failing) ==
  /\ kept' = [p \in Procs |->
                IF pc'[p] \in {"idle", "open"} THEN {}
                ELSE IF pc[p] = "open" THEN LiveIds' ELSE kept[p] \cap LiveIds']
  /\ seen' = [p \in Procs |->
                IF pc'[p] \in {"idle", "open"} THEN {} ELSE seen[p] \cup LiveIds']
  /\ cut' = [p \in Procs |-> pc'[p] # "open" /\ (cut[p] \/ p \in failing)]

\* Next, observed.
ScanNext ==
  \E p \in Procs :
    \/ \E r \in Request : Invoke(p, r) /\ Observe({})
    \/ OpenDb(p) /\ Observe({})
    \/ Truncate(p) /\ Observe({})
    \/ OpenFails(p) /\ Observe({})
    \/ ReadNext(p) /\ Observe({})
    \/ ReadFound(p) /\ Observe({})
    \/ ReadEof(p) /\ Observe({})
    \/ ReadFails(p) /\ Observe({p})
    \/ AddStudent(p) /\ Observe({})
    \/ DelStudent(p) /\ Observe({})
    \/ DelSeekFails(p) /\ Observe({})
    \/ WriteFails(p) /\ Observe({})
    \/ Kill(p) /\ Observe({})

ScanSpec == ScanInit /\ [][ScanNext]_scanVars

FairScanSpec == ScanSpec /\ Fairness

-----------------------------------------------------------------------------

\* The command is answered, and no read() of its scan failed.
Answered(p) == pc[p] # "idle" /\ pc'[p] = "idle" /\ ~cut'[p]

\* `not found', and a -a that goes ahead, are only for a student that was not
\* stored all along: get_student() (sdbsc.c:72-79) never overlooks one, even
\* when the file is emptied and grows again between two of its reads.
AbsentMeansNotKept ==
  [][\A p \in Procs :
       Answered(p) /\ out'[p].msg \in {"notfound", "added"}
         => req[p].id \notin kept[p]]_scanVars

\* A student that -f shows, -a refuses to duplicate or -d claims to delete was
\* stored at some moment of the command.  A match that is no student, an empty
\* record, comes to print_student() only if the user asks for id 0: get_student()
\* (sdbsc.c:73) takes no hole for the student it looks for.
PresentMeansSeen ==
  [][\A p \in Procs :
       Answered(p) /\ out'[p].msg \in {"found", "duplicate", "deleted", "unprintable"}
         => \/ req[p].id \in seen[p]
            \/ req[p].id = 0 /\ out'[p].msg = "unprintable"]_scanVars

\* The number -c reports lies between the students stored all along and those
\* stored at some moment (sdbsc.c:213-231): none is counted twice or skipped.
CountWithinInterval ==
  [][\A p \in Procs :
       Answered(p) /\ req[p].opt = "c" /\ out'[p].msg \in {"counted", "empty"}
         => /\ Cardinality(kept[p]) <= out'[p].n
            /\ out'[p].n <= Cardinality(seen[p])]_scanVars

IdsOf(t)     == {t[i].id : i \in DOMAIN t}
Ascending(t) == \A i, j \in DOMAIN t : i < j => t[i].id < t[j].id

\* The table -p prints has every student stored all along and none that was not
\* stored at some moment, each once and in the order of the ids, even when the
\* file is emptied and filled again under the scan (sdbsc.c:276-289).
PrintWithinInterval ==
  [][\A p \in Procs :
       Answered(p) /\ req[p].opt = "p" /\ out'[p].msg \in {"printed", "empty"}
         => LET table == out'[p].rows IN
              /\ kept[p] \subseteq IdsOf(table)
              /\ IdsOf(table) \subseteq seen[p]
              /\ Ascending(table)]_scanVars
=============================================================================
