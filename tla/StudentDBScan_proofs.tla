------------------------ MODULE StudentDBScan_proofs ------------------------
(***************************************************************************)
(* Proofs about StudentDBScan, for every number of invocations: what a     *)
(* scan answers lies between the students that were stored all along and   *)
(* those that were stored at some moment of it.                            *)
(***************************************************************************)
EXTENDS StudentDBScan, StudentDB_proofs, FiniteSetTheorems

\* The members of S that a scan at offset n has passed.
Below(S, n) == {i \in S : i < n}

\* What a scan has found out so far: of the students stored all along it has
\* missed none of those it passed, and it has met none that was never stored,
\* nor any that it has still to come to.
Scanning(p) ==
  /\ Looking(p) => req[p].id \notin Below(kept[p], pos[p])
  /\ req[p].opt = "c" =>
       /\ Cardinality(Below(kept[p], pos[p])) <= count[p]
       /\ count[p] <= Cardinality(Below(seen[p], pos[p]))
  /\ req[p].opt = "p" =>
       /\ Below(kept[p], pos[p]) \subseteq IdsOf(rows[p])
       /\ IdsOf(rows[p]) \subseteq Below(seen[p], pos[p])
       /\ Ascending(rows[p])

\* What is left of the scan when the write is due.
Writing(p) ==
  /\ req[p].opt = "a" /\ ~cut[p] => req[p].id \notin kept[p]
  /\ req[p].opt = "d" => req[p].id \in seen[p] \cup {0}

Observed(p) ==
  /\ kept[p] \subseteq Ids /\ seen[p] \subseteq Ids
  /\ pc[p] \in {"idle", "open"} => pos[p] = 0 /\ count[p] = 0 /\ rows[p] = <<>>
  /\ pc[p] \notin {"idle", "open"} =>
       kept[p] \subseteq LiveIds /\ LiveIds \subseteq seen[p]
  /\ pc[p] = "scan" => Scanning(p)
  /\ pc[p] = "write" => Writing(p)

\* The inductive invariant: what StudentDB keeps in place, and where each scan is.
ScanInv == IInv /\ \A p \in Procs : Observed(p)

\* A step of invocation q other than a read() that fails.
Moves(q) ==
  \/ \E r \in Request : Invoke(q, r)
  \/ StoreStep(q) \/ DelStudent(q) \/ DelSeekFails(q) \/ Kill(q)

USE MaxIdAssumption

-----------------------------------------------------------------------------
(***************************************************************************)
(* The students in the file, and sets of them cut off at an offset.        *)
(***************************************************************************)

\* Student i is stored exactly if slot i is in use.
LEMMA Stored ==
  ASSUME IInv
  PROVE  /\ \A i \in LiveIds : /\ i \in Ids /\ i < size
                               /\ file[i] # EMPTY_STUDENT_RECORD /\ file[i].id = i
         /\ \A s \in Slots : file[s] # EMPTY_STUDENT_RECORD
                               => file[s].id = s /\ s \in LiveIds
<1>1. \A s \in Slots : file[s] # EMPTY_STUDENT_RECORD
                         => s \in Ids /\ s < size /\ file[s].id = s
  BY DEF IInv, RecordsInPlace
<1>2. ASSUME NEW i \in LiveIds
      PROVE  /\ i \in Ids /\ i < size
             /\ file[i] # EMPTY_STUDENT_RECORD /\ file[i].id = i
  <2>1. PICK s \in Slots : file[s] # EMPTY_STUDENT_RECORD /\ i = file[s].id
    BY DEF LiveIds
  <2>2. i = s
    BY <1>1, <2>1
  <2> QED
    BY <1>1, <2>1, <2>2
<1>3. ASSUME NEW s \in Slots, file[s] # EMPTY_STUDENT_RECORD
      PROVE  file[s].id = s /\ s \in LiveIds
  <2>1. file[s].id = s
    BY <1>1, <1>3
  <2>2. file[s].id \in LiveIds
    BY <1>3 DEF LiveIds
  <2> QED
    BY <2>1, <2>2
<1> QED
  BY <1>2, <1>3

LEMMA FiniteIds == IsFiniteSet(Ids)
BY FS_Interval DEF Ids

LEMMA BelowFacts ==
  ASSUME NEW S \in SUBSET Ids, NEW n \in Nat
  PROVE  /\ IsFiniteSet(Below(S, n))
         /\ Cardinality(Below(S, n)) \in Nat
         /\ Below(S, n + 1) = IF n \in S THEN Below(S, n) \cup {n} ELSE Below(S, n)
         /\ n \notin Below(S, n)
         /\ Cardinality(Below(S, n + 1)) =
              IF n \in S THEN Cardinality(Below(S, n)) + 1 ELSE Cardinality(Below(S, n))
<1>1. Below(S, n) \in SUBSET Ids
  BY DEF Below
<1>2. IsFiniteSet(Below(S, n))
  BY <1>1, FiniteIds, FS_Subset
<1>3. Cardinality(Below(S, n)) \in Nat
  BY <1>2, FS_CardinalityType
<1>4. n \notin Below(S, n)
  BY DEF Below
<1>5. Below(S, n + 1) = IF n \in S THEN Below(S, n) \cup {n} ELSE Below(S, n)
  <2>1. \A i \in S : i \in Int
    BY DEF Ids
  <2>2. \A i \in S : i < n + 1 <=> i < n \/ i = n
    BY <2>1
  <2>3. CASE n \in S
    BY <2>2, <2>3, n < n + 1 DEF Below
  <2>4. CASE n \notin S
    BY <2>2, <2>4 DEF Below
  <2> QED
    BY <2>3, <2>4
<1>6. Cardinality(Below(S, n) \cup {n}) = Cardinality(Below(S, n)) + 1
  BY <1>2, <1>4, FS_AddElement
<1> QED
  BY <1>2, <1>3, <1>4, <1>5, <1>6

LEMMA BelowMonotone ==
  ASSUME NEW S \in SUBSET Ids, NEW T \in SUBSET S, NEW n \in Nat
  PROVE  /\ Below(T, n) \subseteq Below(S, n)
         /\ Cardinality(Below(T, n)) <= Cardinality(Below(S, n))
<1>1. Below(T, n) \in SUBSET Below(S, n)
  BY DEF Below
<1>2. IsFiniteSet(Below(S, n))
  BY BelowFacts
<1> QED
  BY <1>1, <1>2, FS_Subset

LEMMA BelowZero ==
  ASSUME NEW S \in SUBSET Ids
  PROVE  Below(S, 0) = {} /\ Cardinality(Below(S, 0)) = 0
<1>1. Below(S, 0) = {}
  <2>1. \A i \in S : i \in Int /\ i >= 1
    BY DEF Ids
  <2>2. \A i \in S : ~(i < 0)
    BY <2>1
  <2> QED
    BY <2>2 DEF Below
<1> QED
  BY <1>1, FS_EmptySet

\* One more row, of a student behind all the others.
LEMMA RowAdded ==
  ASSUME NEW t \in Seq(Record), NEW s \in Record
  PROVE  /\ IdsOf(Append(t, s)) = IdsOf(t) \cup {s.id}
         /\ Ascending(t) /\ (\A i \in IdsOf(t) : i < s.id) => Ascending(Append(t, s))
<1> DEFINE u == Append(t, s)
<1>1. /\ u \in Seq(Record) /\ Len(t) \in Nat /\ Len(u) = Len(t) + 1
      /\ DOMAIN t = 1..Len(t) /\ DOMAIN u = 1..Len(t) + 1
      /\ u[Len(t) + 1] = s /\ \A i \in 1..Len(t) : u[i] = t[i]
  OBVIOUS
<1> HIDE DEF u
<1>2. DOMAIN u = DOMAIN t \cup {Len(t) + 1}
  BY <1>1
<1>3. IdsOf(u) = IdsOf(t) \cup {s.id}
  BY <1>1, <1>2 DEF IdsOf
<1>4. ASSUME Ascending(t), \A i \in IdsOf(t) : i < s.id,
             NEW i \in DOMAIN u, NEW j \in DOMAIN u, i < j
      PROVE  u[i].id < u[j].id
  <2>1. i \in DOMAIN t
    BY <1>1, <1>4
  <2>2. CASE j \in DOMAIN t
    BY <1>1, <1>4, <2>1, <2>2 DEF Ascending
  <2>3. CASE j = Len(t) + 1
    BY <1>1, <1>4, <2>1, <2>3 DEF IdsOf
  <2> QED
    BY <1>2, <2>2, <2>3
<1>5. Ascending(t) /\ (\A i \in IdsOf(t) : i < s.id) => Ascending(u)
  BY <1>4 DEF Ascending
<1> QED
  BY <1>3, <1>5 DEF u

-----------------------------------------------------------------------------
(***************************************************************************)
(* A step of one invocation, as seen by it and by another.                 *)
(***************************************************************************)

\* What the history variables of p record in a step.
LEMMA Recorded ==
  ASSUME NEW F, Observe(F), NEW p \in Procs
  PROVE  /\ pc'[p] \in {"idle", "open"} => kept'[p] = {} /\ seen'[p] = {}
         /\ pc'[p] \notin {"idle", "open"} =>
              /\ kept'[p] = IF pc[p] = "open" THEN LiveIds' ELSE kept[p] \cap LiveIds'
              /\ seen'[p] = seen[p] \cup LiveIds'
         /\ cut'[p] <=> (pc'[p] # "open" /\ (cut[p] \/ p \in F))
<1>1. pc'[p] \in {"idle", "open"} => kept'[p] = {} /\ seen'[p] = {}
  BY DEF Observe
<1>2. ASSUME pc'[p] \notin {"idle", "open"}
      PROVE  /\ kept'[p] = IF pc[p] = "open" THEN LiveIds' ELSE kept[p] \cap LiveIds'
             /\ seen'[p] = seen[p] \cup LiveIds'
  BY <1>2 DEF Observe
<1>3. cut'[p] <=> (pc'[p] # "open" /\ (cut[p] \/ p \in F))
  BY Zenon DEF Observe
<1> QED
  BY <1>1, <1>2, <1>3

LEMMA ExitAlone ==
  ASSUME IInv, NEW q \in Procs, NEW a, Exit(q, a)
  PROVE  /\ pc'[q] = "idle" /\ pos'[q] = 0 /\ count'[q] = 0 /\ rows'[q] = <<>> /\ out'[q] = a
         /\ \A p \in Procs \ {q} :
              /\ pc'[p] = pc[p] /\ req'[p] = req[p] /\ pos'[p] = pos[p]
              /\ count'[p] = count[p] /\ rows'[p] = rows[p]
BY DEF IInv, TypeOK, Exit

\* No invocation touches the state of another.
LEMMA OthersRest ==
  ASSUME IInv, NEW q \in Procs, Moves(q) \/ ReadFails(q), NEW p \in Procs \ {q}
  PROVE  /\ pc'[p] = pc[p] /\ req'[p] = req[p] /\ pos'[p] = pos[p]
         /\ count'[p] = count[p] /\ rows'[p] = rows[p]
<1> DEFINE Rest == /\ pc'[p] = pc[p] /\ req'[p] = req[p] /\ pos'[p] = pos[p]
                   /\ count'[p] = count[p] /\ rows'[p] = rows[p]
<1>1. ASSUME NEW a, Exit(q, a) PROVE Rest
  BY <1>1, ExitAlone
<1>2. ASSUME NEW l, Goto(q, l) PROVE Rest
  BY <1>2 DEF IInv, TypeOK, Goto
<1>3. ASSUME NEW r \in Request, Invoke(q, r) PROVE Rest
  BY <1>3 DEF IInv, TypeOK, Invoke
<1>4. ASSUME ReadNext(q) PROVE Rest
  BY <1>4 DEF IInv, TypeOK, ReadNext
<1>5. ASSUME ScanOver(q) PROVE Rest
  BY <1>1, <1>2, <1>5 DEF ScanOver
<1>6. ASSUME OpenDb(q) \/ ReadFound(q) \/ ReadEof(q) \/ ReadFails(q) PROVE Rest
  BY <1>1, <1>2, <1>5, <1>6 DEF OpenDb, ReadFound, ReadEof, ReadFails
<1>7. ASSUME \/ Truncate(q) \/ OpenFails(q) \/ AddStudent(q) \/ WriteFails(q)
             \/ DelStudent(q) \/ DelSeekFails(q) \/ Kill(q)
      PROVE  Rest
  BY <1>1, <1>7 DEF Truncate, OpenFails, AddStudent, WriteFails, DelStudent,
                    DelSeekFails, Kill
<1> QED
  BY <1>3, <1>4, <1>6, <1>7 DEF Moves, StoreStep

\* Every observed step is a step of one invocation, and only a read() of its
\* own that failed cuts its scan short.
LEMMA OneMoves ==
  ASSUME ScanNext
  PROVE  \E q \in Procs : \/ Moves(q) /\ Observe({})
                          \/ ReadFails(q) /\ Observe({q})
BY DEF ScanNext, Moves, Step, StoreStep

-----------------------------------------------------------------------------
(***************************************************************************)
(* The invariant is inductive.                                             *)
(***************************************************************************)
LEMMA InitScanInv == ScanInit => ScanInv
<1> SUFFICES ASSUME ScanInit PROVE ScanInv
  OBVIOUS
<1>1. IInv
  BY InitIInv DEF ScanInit
<1>2. ASSUME NEW p \in Procs PROVE Observed(p)
  BY <1>2 DEF ScanInit, Init, Observed
<1> QED
  BY <1>1, <1>2 DEF ScanInv

\* While another invocation moves, the students a scan must not miss become
\* fewer and those it may meet more.
LEMMA OthersKeep ==
  ASSUME ScanInv, IInv', NEW p \in Procs, NEW F, Observe(F), p \notin F,
         pc'[p] = pc[p] /\ req'[p] = req[p] /\ pos'[p] = pos[p]
         /\ count'[p] = count[p] /\ rows'[p] = rows[p]
  PROVE  Observed(p)'
<1>1. Observed(p) /\ pos[p] \in Nat /\ count[p] \in Nat
  BY DEF ScanInv, IInv, TypeOK
<1>2. LiveIds' \subseteq Ids
  BY DEF IInv, RecordsInPlace, LiveIds
<1>3. CASE pc[p] \in {"idle", "open"}
  <2>1. kept'[p] = {} /\ seen'[p] = {}
    BY <1>3, Recorded
  <2> QED
    BY <1>1, <1>3, <2>1 DEF Observed
<1>4. CASE pc[p] \notin {"idle", "open"}
  <2>0. cut'[p] <=> (pc'[p] # "open" /\ cut[p])
    BY Recorded, Zenon
  <2>1. kept'[p] = kept[p] \cap LiveIds' /\ seen'[p] = seen[p] \cup LiveIds'
    <3>1. pc'[p] \notin {"idle", "open"} /\ pc[p] # "open"
      BY <1>4
    <3> QED
      BY <3>1, Recorded
  <2>2. kept'[p] \subseteq kept[p] /\ seen[p] \subseteq seen'[p] /\ seen'[p] \subseteq Ids
        /\ kept'[p] \subseteq LiveIds' /\ LiveIds' \subseteq seen'[p] /\ kept'[p] \subseteq Ids
    <3>1. kept[p] \subseteq Ids /\ seen[p] \subseteq Ids
      BY <1>1 DEF Observed
    <3> QED
      BY <1>2, <2>1, <3>1
  <2>3. ASSUME pc[p] = "scan" PROVE Scanning(p)'
    <3>1. Scanning(p)
      BY <1>1, <2>3 DEF Observed
    <3>2. /\ Below(kept'[p], pos[p]) \subseteq Below(kept[p], pos[p])
          /\ Cardinality(Below(kept'[p], pos[p])) <= Cardinality(Below(kept[p], pos[p]))
      BY <1>1, <2>2, BelowMonotone DEF Observed
    <3>3. /\ Below(seen[p], pos[p]) \subseteq Below(seen'[p], pos[p])
          /\ Cardinality(Below(seen[p], pos[p])) <= Cardinality(Below(seen'[p], pos[p]))
      BY <1>1, <2>2, BelowMonotone DEF Observed
    <3>4. /\ Cardinality(Below(kept'[p], pos[p])) \in Nat
          /\ Cardinality(Below(kept[p], pos[p])) \in Nat
          /\ Cardinality(Below(seen[p], pos[p])) \in Nat
          /\ Cardinality(Below(seen'[p], pos[p])) \in Nat
      BY <1>1, <2>2, BelowFacts DEF Observed
    <3> QED
      BY <1>1, <2>2, <3>1, <3>2, <3>3, <3>4 DEF Scanning, Looking
  <2>4. ASSUME pc[p] = "write" PROVE Writing(p)'
    <3>1. Writing(p)
      BY <1>1, <2>4 DEF Observed
    <3>2. pc'[p] # "open"
      BY <2>4
    <3>3. cut'[p] <=> cut[p]
      BY <2>0, <3>2, Zenon
    <3> QED
      BY <2>2, <3>1, <3>3 DEF Writing
  <2> QED
    BY <1>4, <2>2, <2>3, <2>4 DEF Observed
<1> QED
  BY <1>3, <1>4

\* An invocation that exits, or starts, is watched no longer, or not yet.
LEMMA ExitObserved ==
  ASSUME ScanInv, NEW p \in Procs, NEW F, Observe(F), NEW a, Exit(p, a)
  PROVE  Observed(p)'
<1>1. pc'[p] = "idle" /\ pos'[p] = 0 /\ count'[p] = 0 /\ rows'[p] = <<>>
  BY ExitAlone DEF ScanInv
<1>2. kept'[p] = {} /\ seen'[p] = {}
  BY <1>1, Recorded
<1> QED
  BY <1>1, <1>2 DEF Observed

\* The shell has started p, and the student it will look for is asked for.
LEMMA InvokeObserved ==
  ASSUME ScanInv, NEW p \in Procs, NEW F, Observe(F), NEW r \in Request, Invoke(p, r)
  PROVE  Observed(p)'
<1>1. pc[p] = "idle" /\ pc'[p] = "open"
      /\ pos'[p] = pos[p] /\ count'[p] = count[p] /\ rows'[p] = rows[p]
  BY DEF Invoke, ScanInv, IInv, TypeOK
<1>2. Observed(p)
  BY DEF ScanInv
<1>3. kept'[p] = {} /\ seen'[p] = {}
  BY <1>1, Recorded
<1> QED
  BY <1>1, <1>2, <1>3 DEF Observed

\* The command begins: what is stored now is what it must not miss.
LEMMA BeginObserved ==
  ASSUME ScanInv, IInv', NEW p \in Procs, NEW F, Observe(F), pc[p] = "open",
         NEW l \in {"scan", "truncate"}, Goto(p, l)
  PROVE  Observed(p)'
<1>1. pc'[p] = l /\ req' = req /\ pos' = pos /\ count' = count /\ rows' = rows
  BY DEF Goto, ScanInv, IInv, TypeOK
<1>2. pos[p] = 0 /\ count[p] = 0 /\ rows[p] = <<>> /\ seen[p] \subseteq Ids
  BY DEF ScanInv, Observed
<1>3. pc'[p] \notin {"idle", "open"}
  BY <1>1
<1>4. kept'[p] = LiveIds' /\ seen'[p] = seen[p] \cup LiveIds'
  BY <1>3, Recorded
<1>5. LiveIds' \subseteq Ids
  BY DEF IInv, RecordsInPlace, LiveIds
<1>6. kept'[p] \in SUBSET Ids /\ seen'[p] \in SUBSET Ids
  BY <1>2, <1>4, <1>5
<1>7. /\ Below(kept'[p], 0) = {} /\ Cardinality(Below(kept'[p], 0)) = 0
      /\ Cardinality(Below(seen'[p], 0)) = 0
  BY <1>6, BelowZero
<1>8. Scanning(p)'
  BY <1>1, <1>2, <1>7 DEF Scanning, Looking, IdsOf, Ascending
<1> QED
  BY <1>1, <1>3, <1>4, <1>6, <1>8 DEF Observed

\* A step of p within its scan or out of it that leaves the file alone.
LEMMA FileStays ==
  ASSUME ScanInv, NEW p \in Procs, NEW F, Observe(F), UNCHANGED <<file, size>>,
         pc[p] = "scan", pc'[p] \in {"scan", "write"}
  PROVE  /\ kept'[p] = kept[p]
         /\ seen'[p] = seen[p]
         /\ LiveIds' = LiveIds
         /\ kept[p] \subseteq LiveIds /\ LiveIds \subseteq seen[p]
         /\ kept[p] \in SUBSET Ids /\ seen[p] \in SUBSET Ids
<1>1. LiveIds' = LiveIds
  BY DEF LiveIds
<1>2. pc[p] # "open" /\ pc'[p] \notin {"idle", "open"}
  OBVIOUS
<1>3. kept'[p] = kept[p] \cap LiveIds /\ seen'[p] = seen[p] \cup LiveIds
  BY <1>1, <1>2, Recorded
<1>4. kept[p] \subseteq LiveIds /\ LiveIds \subseteq seen[p]
      /\ kept[p] \subseteq Ids /\ seen[p] \subseteq Ids
  BY DEF ScanInv, Observed
<1> QED
  BY <1>1, <1>3, <1>4

\* read() returned record pos[p]: if it is a student it is counted once and
\* printed once, and if it is not the student looked for it is not that one.
LEMMA ReadNextObserved ==
  ASSUME ScanInv, NEW p \in Procs, NEW F, Observe(F), ReadNext(p)
  PROVE  Observed(p)'
<1> DEFINE n == pos[p]
           s == file[n]
           K == kept[p]
           S == seen[p]
<1>1. /\ pc[p] = "scan" /\ n < size
      /\ Looking(p) => s.id # req[p].id
      /\ count' = [count EXCEPT ![p] = Tallied(p, s)]
      /\ rows' = [rows EXCEPT ![p] = Printed(p, s)]
      /\ pos' = [pos EXCEPT ![p] = n + 1]
      /\ UNCHANGED <<file, size, pc, req, out>>
  BY DEF ReadNext, Matches, NextPos, AtEof, ScanInv, IInv, TypeOK
<1>2. pos'[p] = n + 1 /\ count'[p] = Tallied(p, s) /\ rows'[p] = Printed(p, s)
      /\ n \in Slots /\ n \in Nat /\ count[p] \in Nat
  BY <1>1 DEF ScanInv, IInv, TypeOK, Slots
<1>3. /\ kept'[p] = K /\ seen'[p] = S /\ LiveIds' = LiveIds
      /\ K \subseteq LiveIds /\ LiveIds \subseteq S
      /\ K \in SUBSET Ids /\ S \in SUBSET Ids
  BY <1>1, FileStays
<1>4. /\ IsEmpty(s) => n \notin K /\ n \notin LiveIds
      /\ ~IsEmpty(s) => n \in LiveIds /\ s.id = n
  BY <1>2, <1>3, Stored DEF ScanInv, IsEmpty
<1>a. n \in Nat /\ K \in SUBSET Ids /\ S \in SUBSET Ids
  BY <1>2, <1>3
<1>b. /\ Cardinality(Below(K, n)) \in Nat
      /\ Below(K, n + 1) = IF n \in K THEN Below(K, n) \cup {n} ELSE Below(K, n)
      /\ Cardinality(Below(K, n + 1)) =
           IF n \in K THEN Cardinality(Below(K, n)) + 1 ELSE Cardinality(Below(K, n))
  <2> HIDE DEF K, S, n
  <2> QED
    BY <1>a, BelowFacts, Zenon
<1>c. /\ Cardinality(Below(S, n)) \in Nat
      /\ Below(S, n + 1) = IF n \in S THEN Below(S, n) \cup {n} ELSE Below(S, n)
      /\ Cardinality(Below(S, n + 1)) =
           IF n \in S THEN Cardinality(Below(S, n)) + 1 ELSE Cardinality(Below(S, n))
  <2> HIDE DEF K, S, n
  <2> QED
    BY <1>a, BelowFacts, Zenon
<1>5. Scanning(p)
  BY <1>1 DEF ScanInv, Observed
<1>6. ASSUME Looking(p) PROVE req[p].id \notin Below(K, n + 1)
  <2>1. req[p].id \notin Below(K, n)
    BY <1>5, <1>6 DEF Scanning
  <2>2. CASE n \notin K
    BY <1>b, <2>1, <2>2
  <2>3. CASE n \in K
    <3>1. s.id = n
      BY <1>4, <2>3
    <3>2. req[p].id # n
      BY <1>1, <1>6, <3>1
    <3>3. Below(K, n + 1) = Below(K, n) \cup {n}
      BY <1>b, <2>3
    <3> QED
      BY <2>1, <3>2, <3>3
  <2> QED
    BY <2>2, <2>3
<1>7. ASSUME req[p].opt = "c"
      PROVE  /\ Cardinality(Below(K, n + 1)) <= Tallied(p, s)
             /\ Tallied(p, s) <= Cardinality(Below(S, n + 1))
  <2>1. /\ Cardinality(Below(K, n)) <= count[p]
        /\ count[p] <= Cardinality(Below(S, n))
    BY <1>5, <1>7 DEF Scanning
  <2>2. /\ Cardinality(Below(K, n)) \in Nat /\ Cardinality(Below(S, n)) \in Nat
        /\ Cardinality(Below(K, n + 1)) =
             IF n \in K THEN Cardinality(Below(K, n)) + 1 ELSE Cardinality(Below(K, n))
        /\ Cardinality(Below(S, n + 1)) =
             IF n \in S THEN Cardinality(Below(S, n)) + 1 ELSE Cardinality(Below(S, n))
    BY <1>b, <1>c
  <2>3. CASE IsEmpty(s)
    <3>1. Tallied(p, s) = count[p] /\ n \notin K
      BY <1>4, <2>3 DEF Tallied
    <3> QED
      BY <1>2, <2>1, <2>2, <3>1
  <2>4. CASE ~IsEmpty(s)
    <3>1. Tallied(p, s) = count[p] + 1 /\ n \in S
      BY <1>3, <1>4, <1>7, <2>4 DEF Tallied
    <3> QED
      BY <1>2, <2>1, <2>2, <3>1
  <2> QED
    BY <2>3, <2>4
<1>8. ASSUME req[p].opt = "p"
      PROVE  /\ Below(K, n + 1) \subseteq IdsOf(Printed(p, s))
             /\ IdsOf(Printed(p, s)) \subseteq Below(S, n + 1)
             /\ Ascending(Printed(p, s))
  <2>1. /\ Below(K, n) \subseteq IdsOf(rows[p]) /\ IdsOf(rows[p]) \subseteq Below(S, n)
        /\ Ascending(rows[p])
    BY <1>5, <1>8 DEF Scanning
  <2>2. /\ Below(K, n + 1) = IF n \in K THEN Below(K, n) \cup {n} ELSE Below(K, n)
        /\ Below(S, n + 1) = IF n \in S THEN Below(S, n) \cup {n} ELSE Below(S, n)
    BY <1>b, <1>c
  <2>3. CASE IsEmpty(s)
    <3>1. Printed(p, s) = rows[p] /\ n \notin K
      BY <1>4, <2>3 DEF Printed
    <3> QED
      BY <2>1, <2>2, <3>1
  <2>4. CASE ~IsEmpty(s)
    <3>1. Printed(p, s) = Append(rows[p], s) /\ s.id = n /\ n \in S
      BY <1>3, <1>4, <1>8, <2>4 DEF Printed
    <3>2. rows[p] \in Seq(Record) /\ s \in Record
      BY <1>2 DEF ScanInv, IInv, TypeOK
    <3>3. \A i \in IdsOf(rows[p]) : i < n
      BY <2>1 DEF Below
    <3> HIDE DEF s, n
    <3>4. IdsOf(Append(rows[p], s)) = IdsOf(rows[p]) \cup {s.id}
      BY <3>2, RowAdded
    <3>5. Ascending(Append(rows[p], s))
      BY <2>1, <3>1, <3>2, <3>3, RowAdded
    <3> QED
      BY <2>1, <2>2, <3>1, <3>4, <3>5
  <2> QED
    BY <2>3, <2>4
<1>9. Scanning(p)'
  BY <1>1, <1>2, <1>3, <1>6, <1>7, <1>8 DEF Scanning, Looking
<1> QED
  BY <1>1, <1>3, <1>9 DEF Observed

\* The student that get_student() has found was stored at some moment, or it is
\* a hole that was taken for student 0.
LEMMA FoundWasSeen ==
  ASSUME ScanInv, NEW p \in Procs, ReadFound(p)
  PROVE  /\ req[p].id \in seen[p] \cup {0}
         /\ file[pos[p]] # EMPTY_STUDENT_RECORD => file[pos[p]].id # 0 /\ req[p].id \in seen[p]
         /\ file[pos[p]] = EMPTY_STUDENT_RECORD => req[p].id = 0
<1>1. pc[p] = "scan" /\ pos[p] < size /\ file[pos[p]].id = req[p].id
      /\ pos[p] \in Slots
  BY DEF ReadFound, Matches, AtEof, ScanInv, IInv, TypeOK, Slots
<1>2. LiveIds \subseteq seen[p]
  BY <1>1 DEF ScanInv, Observed
<1>3. CASE file[pos[p]] = EMPTY_STUDENT_RECORD
  BY <1>1, <1>3 DEF EMPTY_STUDENT_RECORD
<1>4. CASE file[pos[p]] # EMPTY_STUDENT_RECORD
  <2>1. file[pos[p]].id = pos[p] /\ pos[p] \in LiveIds
    BY <1>1, <1>4, Stored DEF ScanInv
  <2>2. pos[p] \in Ids
    BY <2>1, Stored DEF ScanInv
  <2>3. pos[p] # 0
    BY <2>2 DEF Ids
  <2> QED
    BY <1>1, <1>2, <1>4, <2>1, <2>3
<1> QED
  BY <1>3, <1>4

\* At the end of the file a scan has passed every student stored all along.
LEMMA EofMissesNone ==
  ASSUME ScanInv, NEW p \in Procs, pc[p] = "scan", AtEof(pos[p])
  PROVE  Below(kept[p], pos[p]) = kept[p]
<1>1. kept[p] \subseteq LiveIds /\ kept[p] \subseteq Ids
  BY DEF ScanInv, Observed
<1>2. \A i \in kept[p] : i < size /\ i \in Int
  BY <1>1, Stored DEF ScanInv, Ids
<1>3. size <= pos[p] /\ size \in Int /\ pos[p] \in Int
  BY DEF AtEof, ScanInv, IInv, TypeOK
<1>4. \A i \in kept[p] : i < pos[p]
  BY <1>2, <1>3
<1> QED
  BY <1>4 DEF Below

\* The scan is over and a write is due.
LEMMA DueObserved ==
  ASSUME ScanInv, NEW p \in Procs, NEW F, Observe(F), Goto(p, "write"),
         \/ ReadFound(p) /\ req[p].opt = "d"
         \/ ReadEof(p) /\ req[p].opt = "a"
         \/ ReadFails(p) /\ req[p].opt = "a" /\ p \in F
  PROVE  Observed(p)'
<1>1. pc[p] = "scan" /\ pc'[p] = "write" /\ req' = req /\ UNCHANGED <<file, size>>
  BY DEF ReadFound, ReadEof, ReadFails, Goto, ScanInv, IInv, TypeOK
<1>2. /\ kept'[p] = kept[p] /\ seen'[p] = seen[p] /\ LiveIds' = LiveIds
      /\ kept[p] \subseteq LiveIds /\ LiveIds \subseteq seen[p]
      /\ kept[p] \in SUBSET Ids /\ seen[p] \in SUBSET Ids
  BY <1>1, FileStays
<1>3. Scanning(p)
  BY <1>1 DEF ScanInv, Observed
<1>4. Writing(p)'
  <2>1. CASE ReadFound(p) /\ req[p].opt = "d"
    <3>1. req[p].id \in seen[p] \cup {0}
      BY <2>1, FoundWasSeen
    <3> QED
      BY <1>1, <1>2, <2>1, <3>1 DEF Writing
  <2>2. CASE ReadEof(p) /\ req[p].opt = "a"
    <3>1. Looking(p) /\ AtEof(pos[p])
      BY <2>2 DEF Looking, ReadEof
    <3>2. req[p].id \notin kept[p]
      BY <1>1, <1>3, <3>1, EofMissesNone DEF Scanning
    <3> QED
      BY <1>1, <1>2, <2>2, <3>2 DEF Writing
  <2>3. CASE ReadFails(p) /\ req[p].opt = "a" /\ p \in F
    <3>1. pc'[p] # "open" /\ p \in F
      BY <1>1, <2>3
    <3>2. cut'[p]
      BY <3>1, Recorded, Zenon
    <3> QED
      BY <1>1, <2>3, <3>2 DEF Writing
  <2> QED
    BY <2>1, <2>2, <2>3
<1> QED
  BY <1>1, <1>2, <1>4 DEF Observed

\* The step of p itself.
LEMMA OwnKeep ==
  ASSUME ScanInv, IInv', NEW p \in Procs, NEW F, Observe(F),
         Moves(p) \/ (ReadFails(p) /\ p \in F)
  PROVE  Observed(p)'
<1>1. ASSUME NEW a, Exit(p, a) PROVE Observed(p)'
  BY <1>1, ExitObserved
<1>2. ASSUME OpenDb(p) PROVE Observed(p)'
  BY <1>1, <1>2, BeginObserved DEF OpenDb
<1>3. ASSUME ReadFound(p) PROVE Observed(p)'
  BY <1>1, <1>3, DueObserved DEF ReadFound
<1>4. ASSUME ReadEof(p) PROVE Observed(p)'
  BY <1>1, <1>4, DueObserved DEF ReadEof, ScanOver
<1>5. ASSUME ReadFails(p), p \in F PROVE Observed(p)'
  <2>1. CASE req[p].opt = "c"
    BY <1>1, <1>5, <2>1 DEF ReadFails
  <2>2. CASE req[p].opt # "c"
    BY <1>1, <1>5, <2>2, DueObserved DEF ReadFails, ScanOver
  <2> QED
    BY <2>1, <2>2
<1>6. ASSUME \/ Truncate(p) \/ OpenFails(p) \/ AddStudent(p) \/ WriteFails(p)
             \/ DelStudent(p) \/ DelSeekFails(p) \/ Kill(p)
      PROVE  Observed(p)'
  BY <1>1, <1>6 DEF Truncate, OpenFails, AddStudent, WriteFails, DelStudent,
                    DelSeekFails, Kill
<1> QED
  BY <1>2, <1>3, <1>4, <1>5, <1>6, InvokeObserved, ReadNextObserved
     DEF Moves, StoreStep

\* An observed step is a step of StudentDB.
LEMMA ScanNextIsNext == [ScanNext]_scanVars => [Next]_vars
BY OneMoves DEF Moves, Next, Step, scanVars

LEMMA NextScanInv == ScanInv /\ [ScanNext]_scanVars => ScanInv'
<1> SUFFICES ASSUME ScanInv, [ScanNext]_scanVars PROVE ScanInv'
  OBVIOUS
<1>1. IInv'
  BY ScanNextIsNext, NextIInv DEF ScanInv
<1>2. CASE UNCHANGED scanVars
  <2>1. \A p \in Procs : Observed(p)'
    BY <1>2 DEF ScanInv, scanVars, vars, Observed, Scanning, Writing, LiveIds, Looking
  <2> QED
    BY <1>1, <2>1 DEF ScanInv
<1>3. CASE ScanNext
  <2>1. ASSUME NEW q \in Procs, NEW F \in SUBSET {q}, Observe(F),
               Moves(q) \/ (ReadFails(q) /\ q \in F), NEW p \in Procs
        PROVE  Observed(p)'
    <3>1. CASE p = q
      BY <1>1, <2>1, <3>1, OwnKeep
    <3>2. CASE p # q
      BY <1>1, <2>1, <3>2, OthersRest, OthersKeep DEF ScanInv
    <3> QED
      BY <3>1, <3>2
  <2>2. PICK q \in Procs : \/ Moves(q) /\ Observe({})
                           \/ ReadFails(q) /\ Observe({q})
    BY <1>3, OneMoves
  <2>3. PICK F \in SUBSET {q} : Observe(F) /\ (Moves(q) \/ (ReadFails(q) /\ q \in F))
    BY <2>2
  <2>4. \A p \in Procs : Observed(p)'
    BY <2>1, <2>3
  <2> QED
    BY <1>1, <2>4 DEF ScanInv
<1> QED
  BY <1>2, <1>3

-----------------------------------------------------------------------------
(***************************************************************************)
(* What the answer of a command is worth.                                  *)
(***************************************************************************)

\* A command is answered by a step of its own, and not by one that cuts its scan.
LEMMA AnsweredMoves ==
  ASSUME ScanInv, ScanNext, NEW p \in Procs, Answered(p)
  PROVE  Moves(p)
<1>1. PICK q \in Procs : \/ Moves(q) /\ Observe({})
                         \/ ReadFails(q) /\ Observe({q})
  BY OneMoves
<1>2. pc'[p] = "idle" /\ pc[p] # "idle"
  BY DEF Answered
<1>3. q = p
  <2>1. ASSUME q # p PROVE FALSE
    BY <1>1, <1>2, <2>1, OthersRest DEF ScanInv
  <2> QED
    BY <2>1
<1>4. ASSUME ReadFails(p), Observe({p}) PROVE FALSE
  <2>1. p \in {p} /\ pc'[p] # "open"
    BY <1>2
  <2>2. cut'[p]
    BY <1>4, <2>1, Recorded, Zenon
  <2> QED
    BY <2>2 DEF Answered
<1> QED
  BY <1>1, <1>3, <1>4

\* The steps that answer a command, with the answer.
LEMMA AnswersOf ==
  ASSUME ScanInv, ScanNext, NEW p \in Procs, Answered(p)
  PROVE  \/ out'[p].msg \in {"range", "notimpl", "usage", "failed", "killed", "zeroed"}
         \/ ReadFound(p) /\ req[p].opt = "a" /\ out'[p] = Says("duplicate")
         \/ ReadFound(p) /\ req[p].opt = "f" /\ out'[p] = PrintStudent(file[pos[p]])
         \/ ReadEof(p) /\ req[p].opt \in {"d", "f"} /\ out'[p] = Says("notfound")
         \/ /\ ReadEof(p) /\ req[p].opt = "c"
            /\ out'[p] = IF count[p] = 0 THEN Says("empty") ELSE Counts(count[p])
         \/ /\ ReadEof(p) /\ req[p].opt = "p"
            /\ out'[p] = IF rows[p] = <<>> THEN Says("empty") ELSE Shows("printed", rows[p])
         \/ AddStudent(p) /\ out'[p] = Says("added")
         \/ DelStudent(p) /\ out'[p] = Says("deleted")
<1>1. Moves(p) /\ pc[p] # "idle" /\ pc'[p] = "idle"
  BY AnsweredMoves DEF Answered
<1>2. ASSUME NEW l \in {"truncate", "scan", "write"}, Goto(p, l) PROVE FALSE
  <2>1. pc'[p] = l
    BY <1>2 DEF Goto, ScanInv, IInv, TypeOK
  <2> QED
    BY <1>1, <2>1
<1>3. ASSUME NEW r \in Request, Invoke(p, r) PROVE FALSE
  BY <1>1, <1>3 DEF Invoke
<1>4. ASSUME ReadNext(p) PROVE FALSE
  BY <1>1, <1>4 DEF ReadNext
<1>5. ASSUME NEW a, Exit(p, a) PROVE out'[p] = a
  BY <1>5, ExitAlone DEF ScanInv
<1>6. ASSUME NEW m, Exit(p, Says(m)) PROVE out'[p] = Says(m) /\ out'[p].msg = m
  BY <1>5, <1>6 DEF Says
<1>7. ASSUME \/ OpenDb(p) \/ Truncate(p) \/ OpenFails(p) \/ WriteFails(p)
             \/ DelSeekFails(p) \/ Kill(p)
      PROVE  out'[p].msg \in {"range", "notimpl", "usage", "failed", "killed", "zeroed"}
  BY <1>2, <1>6, <1>7 DEF OpenDb, Truncate, OpenFails, WriteFails, DelSeekFails, Kill
<1>8. ASSUME ReadFound(p)
      PROVE  \/ req[p].opt = "a" /\ out'[p] = Says("duplicate")
             \/ req[p].opt = "f" /\ out'[p] = PrintStudent(file[pos[p]])
  BY <1>2, <1>5, <1>8 DEF ReadFound
<1>9. ASSUME ReadEof(p)
      PROVE  \/ req[p].opt \in {"d", "f"} /\ out'[p] = Says("notfound")
             \/ /\ req[p].opt = "c"
                /\ out'[p] = IF count[p] = 0 THEN Says("empty") ELSE Counts(count[p])
             \/ /\ req[p].opt = "p"
                /\ out'[p] = IF rows[p] = <<>> THEN Says("empty") ELSE Shows("printed", rows[p])
  BY <1>2, <1>5, <1>9 DEF ReadEof, ScanOver
<1>10. AddStudent(p) => out'[p] = Says("added")
  BY <1>5 DEF AddStudent
<1>11. DelStudent(p) => out'[p] = Says("deleted")
  BY <1>5 DEF DelStudent
<1> QED
  BY <1>1, <1>3, <1>4, <1>7, <1>8, <1>9, <1>10, <1>11 DEF Moves, StoreStep

\* The answer tells which step gave it.
LEMMA AnswerTells ==
  ASSUME ScanInv, ScanNext, NEW p \in Procs, Answered(p)
  PROVE  /\ out'[p].msg = "notfound" => ReadEof(p) /\ Looking(p)
         /\ out'[p].msg = "added" => AddStudent(p)
         /\ out'[p].msg = "deleted" => DelStudent(p)
         /\ out'[p].msg = "duplicate" => ReadFound(p) /\ req[p].opt = "a"
         /\ out'[p].msg \in {"found", "unprintable"} =>
              /\ ReadFound(p) /\ req[p].opt = "f"
              /\ out'[p] = PrintStudent(file[pos[p]])
         /\ out'[p].msg \in {"counted", "empty", "printed"} => ReadEof(p)
<1>1. /\ PrintStudent(file[pos[p]]).msg \in {"found", "unprintable"}
      /\ Says("notfound").msg = "notfound" /\ Says("added").msg = "added"
      /\ Says("deleted").msg = "deleted" /\ Says("duplicate").msg = "duplicate"
      /\ Says("empty").msg = "empty" /\ Counts(count[p]).msg = "counted"
      /\ Shows("printed", rows[p]).msg = "printed"
  BY DEF PrintStudent, Says, Shows, Counts
<1> QED
  BY <1>1, AnswersOf DEF Looking

-----------------------------------------------------------------------------

\* get_student() overlooks no student that was stored all along (sdbsc.c:72-79),
\* for any number of invocations that add, delete and empty the file meanwhile.
THEOREM NoneOverlooked == ScanSpec => AbsentMeansNotKept
<1> DEFINE A == \A p \in Procs : Answered(p) /\ out'[p].msg \in {"notfound", "added"}
                                   => req[p].id \notin kept[p]
<1>1. ScanInv /\ [ScanNext]_scanVars => [A]_scanVars
  <2> SUFFICES ASSUME ScanInv, ScanNext, NEW p \in Procs, Answered(p),
                      out'[p].msg \in {"notfound", "added"}
               PROVE  req[p].id \notin kept[p]
    OBVIOUS
  <2>1. CASE ReadEof(p) /\ Looking(p)
    <3>1. Scanning(p) /\ pc[p] = "scan" /\ AtEof(pos[p])
      BY <2>1 DEF ReadEof, ScanInv, Observed
    <3> QED
      BY <2>1, <3>1, EofMissesNone DEF Scanning
  <2>2. CASE AddStudent(p)
    <3>1. Writing(p) /\ pc[p] = "write" /\ req[p].opt = "a"
      BY <2>2 DEF AddStudent, ScanInv, Observed
    <3>2. ~cut'[p] /\ pc'[p] # "open"
      BY DEF Answered
    <3>3. ~cut[p]
      BY <3>2, OneMoves, Recorded, Zenon
    <3> QED
      BY <3>1, <3>3 DEF Writing
  <2> QED
    BY <2>1, <2>2, AnswerTells
<1> QED
  BY <1>1, InitScanInv, NextScanInv, PTL DEF ScanSpec, AbsentMeansNotKept

\* A student that is shown, refused as a duplicate or deleted was stored at some
\* moment of the command (sdbsc.c:73, 112, 160).
THEOREM NoneInvented == ScanSpec => PresentMeansSeen
<1> DEFINE A == \A p \in Procs :
                  Answered(p) /\ out'[p].msg \in {"found", "duplicate", "deleted", "unprintable"}
                    => \/ req[p].id \in seen[p]
                       \/ req[p].id = 0 /\ out'[p].msg = "unprintable"
<1>1. ScanInv /\ [ScanNext]_scanVars => [A]_scanVars
  <2> SUFFICES ASSUME ScanInv, ScanNext, NEW p \in Procs, Answered(p),
                      out'[p].msg \in {"found", "duplicate", "deleted", "unprintable"}
               PROVE  \/ req[p].id \in seen[p]
                      \/ req[p].id = 0 /\ out'[p].msg = "unprintable"
    OBVIOUS
  <2>1. CASE ReadFound(p) /\ req[p].opt = "a"
    <3>1. req[p].id # 0
      BY <2>1 DEF ReadFound, ScanInv, IInv, RequestOK, validate_range, Ids
    <3> QED
      BY <2>1, <3>1, FoundWasSeen
  <2>2. CASE ReadFound(p) /\ out'[p] = PrintStudent(file[pos[p]])
    <3>1. CASE file[pos[p]] # EMPTY_STUDENT_RECORD
      BY <2>2, <3>1, FoundWasSeen
    <3>2. CASE file[pos[p]] = EMPTY_STUDENT_RECORD
      <4>1. req[p].id = 0 /\ out'[p] = Says("unprintable")
        BY <2>2, <3>2, FoundWasSeen DEF PrintStudent, EMPTY_STUDENT_RECORD
      <4> QED
        BY <4>1 DEF Says
    <3> QED
      BY <3>1, <3>2
  <2>3. CASE DelStudent(p)
    <3>1. req[p].id \in seen[p] \cup {0} /\ DelSlot(req[p].id) >= 0
      BY <2>3 DEF DelStudent, ScanInv, Observed, Writing
    <3> QED
      BY <3>1 DEF DelSlot
  <2> QED
    BY <2>1, <2>2, <2>3, AnswerTells
<1> QED
  BY <1>1, InitScanInv, NextScanInv, PTL DEF ScanSpec, PresentMeansSeen

\* The number of -c lies between the students stored all along and those stored
\* at some moment (sdbsc.c:213-231).
THEOREM CountIsBounded == ScanSpec => CountWithinInterval
<1> DEFINE A == \A p \in Procs :
                  Answered(p) /\ req[p].opt = "c" /\ out'[p].msg \in {"counted", "empty"}
                    => /\ Cardinality(kept[p]) <= out'[p].n
                       /\ out'[p].n <= Cardinality(seen[p])
<1>1. ScanInv /\ [ScanNext]_scanVars => [A]_scanVars
  <2> SUFFICES ASSUME ScanInv, ScanNext, NEW p \in Procs, Answered(p), req[p].opt = "c",
                      out'[p].msg \in {"counted", "empty"}
               PROVE  /\ Cardinality(kept[p]) <= out'[p].n
                      /\ out'[p].n <= Cardinality(seen[p])
    OBVIOUS
  <2>1. ReadEof(p)
    BY AnswerTells
  <2>2. pc[p] = "scan" /\ AtEof(pos[p]) /\ Scanning(p) /\ seen[p] \in SUBSET Ids
        /\ count[p] \in Nat /\ pos[p] \in Nat
    BY <2>1 DEF ReadEof, ScanInv, Observed, IInv, TypeOK
  <2>3. out'[p].n = count[p]
    <3>1. out'[p] = IF count[p] = 0 THEN Says("empty") ELSE Counts(count[p])
      <4>1. PrintStudent(file[pos[p]]).msg \in {"found", "unprintable"}
        BY DEF PrintStudent, Says, Shows
      <4> QED
        BY <4>1, AnswersOf DEF Says
    <3> QED
      BY <3>1 DEF Says, Counts
  <2>4. Cardinality(kept[p]) <= count[p] /\ count[p] <= Cardinality(Below(seen[p], pos[p]))
    BY <2>2, EofMissesNone DEF Scanning
  <2>5. /\ Cardinality(Below(seen[p], pos[p])) <= Cardinality(seen[p])
        /\ Cardinality(Below(seen[p], pos[p])) \in Nat /\ Cardinality(seen[p]) \in Nat
    <3>1. Below(seen[p], pos[p]) \in SUBSET seen[p] /\ IsFiniteSet(seen[p])
      BY <2>2, FiniteIds, FS_Subset DEF Below
    <3> QED
      BY <3>1, FS_Subset, FS_CardinalityType
  <2>6. Below(kept[p], pos[p]) = kept[p] /\ kept[p] \in SUBSET Ids
    BY <2>2, EofMissesNone DEF ScanInv, Observed
  <2>7. Cardinality(kept[p]) \in Nat
    BY <2>6, FiniteIds, FS_Subset, FS_CardinalityType
  <2> QED
    BY <2>2, <2>3, <2>4, <2>5, <2>7
<1> QED
  BY <1>1, InitScanInv, NextScanInv, PTL DEF ScanSpec, CountWithinInterval

\* The table of -p has every student stored all along and none that was not
\* stored at some moment, each once and in the order of the ids (sdbsc.c:276-289).
THEOREM TableIsBounded == ScanSpec => PrintWithinInterval
<1> DEFINE A == \A p \in Procs :
                  Answered(p) /\ req[p].opt = "p" /\ out'[p].msg \in {"printed", "empty"}
                    => /\ kept[p] \subseteq IdsOf(out'[p].rows)
                       /\ IdsOf(out'[p].rows) \subseteq seen[p]
                       /\ Ascending(out'[p].rows)
<1>1. ScanInv /\ [ScanNext]_scanVars => [A]_scanVars
  <2> SUFFICES ASSUME ScanInv, ScanNext, NEW p \in Procs, Answered(p), req[p].opt = "p",
                      out'[p].msg \in {"printed", "empty"}
               PROVE  /\ kept[p] \subseteq IdsOf(out'[p].rows)
                      /\ IdsOf(out'[p].rows) \subseteq seen[p]
                      /\ Ascending(out'[p].rows)
    OBVIOUS
  <2>1. ReadEof(p)
    BY AnswerTells
  <2>2. pc[p] = "scan" /\ AtEof(pos[p]) /\ Scanning(p)
    BY <2>1 DEF ReadEof, ScanInv, Observed
  <2>3. out'[p].rows = rows[p]
    <3>1. out'[p] = IF rows[p] = <<>> THEN Says("empty") ELSE Shows("printed", rows[p])
      <4>1. PrintStudent(file[pos[p]]).msg \in {"found", "unprintable"}
        BY DEF PrintStudent, Says, Shows
      <4> QED
        BY <4>1, AnswersOf DEF Says
    <3> QED
      BY <3>1 DEF Says, Shows
  <2> QED
    BY <2>2, <2>3, EofMissesNone DEF Scanning, Below
<1> QED
  BY <1>1, InitScanInv, NextScanInv, PTL DEF ScanSpec, PrintWithinInterval
=============================================================================
