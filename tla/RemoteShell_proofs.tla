------------------------- MODULE RemoteShell_proofs -------------------------
(***************************************************************************)
(* Proofs about RemoteShell, for any number of clients and any choice of   *)
(* commands, faults and limits.                                            *)
(***************************************************************************)
EXTENDS RemoteShell, SequenceTheorems, FiniteSetTheorems, TLAPS

Bytes == Letters \cup {NUL}

\* The server has a client exactly while it is in exec_client_requests(), and
\* nothing of any connection once it does not listen.
Serving ==
  /\ cur # NoClient <=> spc \in {"recv", "run", "send"}
  /\ cur # NoClient => cur \in fds
  /\ ~Listening => queue = <<>> /\ fds = {}

\* A connection is in one place only, and its client has made it.
Waiting ==
  /\ \A i \in DOMAIN queue : queue[i] \notin fds /\ conn[queue[i]] # "none"
  /\ \A i, j \in DOMAIN queue : queue[i] = queue[j] => i = j
  /\ \A c \in fds : conn[c] # "none"
  /\ IsFiniteSet(fds)

\* What the state of a connection says of its two ends.
Link(c) ==
  /\ conn[c] = "none" <=> cpc[c] \in {"start", "failed"}
  /\ conn[c] = "none" => /\ c2s[c] = <<>> /\ s2c[c] = 0
                         /\ sent[c] = <<>> /\ ran[c] = <<>>
  /\ conn[c] = "up" => Listening /\ cpc[c] \in {"prompt", "recv"}
  /\ conn[c] \in {"cfin", "crst"} => cpc[c] \in {"ok", "killed"}
  /\ conn[c] \in {"sfin", "srst"} => spc \in {"down", "sigpipe"}
  /\ spc = "boot" => conn[c] = "none"

Links == \A c \in Clients : Link(c)

BaseInv == TypeOK /\ Serving /\ Waiting /\ Links

-----------------------------------------------------------------------------
(***************************************************************************)
(* The strings of the server.                                              *)
(***************************************************************************)
\* A set of numbers that is not empty has a least element.
LEMMA LeastNumber ==
  ASSUME NEW S, S \subseteq Nat, S # {}
  PROVE  \E n \in S : \A k \in S : n <= k
<1> DEFINE R == OpToRel(<, Nat)
<1>1. PICK n \in S : \A k \in S : <<k, n>> \notin R
  BY NatLessThanWellFounded, WFMin, Zenon
<1>2. \A k \in S : ~(k < n)
  <2> TAKE k \in S
  <2>1. k \in Nat /\ n \in Nat /\ <<k, n>> \notin R
    BY <1>1
  <2>2. k < n => <<k, n>> \in R
    BY <2>1 DEF OpToRel
  <2> QED BY <2>1, <2>2
<1> QED BY <1>2

\* What recv() left of its bytes as a C string: the bytes before the first NUL,
\* and never the last one.
LEMMA CStringIsPrefix ==
  ASSUME NEW bytes \in Seq(Bytes), bytes # <<>>
  PROVE  \E n \in 0..Len(bytes) - 1 :
           /\ CString(bytes) = SubSeq(bytes, 1, n)
           /\ \A k \in 1..n : bytes[k] # NUL
           /\ n = Len(bytes) - 1 \/ bytes[n + 1] = NUL
<1> DEFINE L == Len(bytes)
           ended == [bytes EXCEPT ![L] = NUL]
           P(i) == ended[i] = NUL /\ \A j \in 1..i - 1 : ended[j] # NUL
           S == {i \in 1..L : ended[i] = NUL}
<1>1. L \in Nat \ {0} /\ DOMAIN bytes = 1..L
  BY EmptySeq
<1>2. /\ ended \in Seq(Bytes) /\ Len(ended) = L
      /\ \A k \in 1..L : ended[k] = IF k = L THEN NUL ELSE bytes[k]
      /\ \A k \in 1..L : bytes[k] \in Bytes
  BY <1>1 DEF Bytes
<1>3. CString(bytes) = SubSeq(ended, 1, (CHOOSE i \in 1..L : P(i)) - 1)
  BY DEF CString
<1> HIDE DEF L, ended
<1>4. S \subseteq Nat /\ L \in S
  BY <1>1, <1>2
<1>5. PICK m \in S : \A k \in S : m <= k
  BY <1>4, LeastNumber, Zenon
<1>6. m \in 1..L /\ ended[m] = NUL /\ \A k \in 1..m - 1 : ended[k] # NUL
  BY <1>1, <1>5
<1>7. \A i \in 1..L : P(i) => i = m
  BY <1>1, <1>6
<1>8. (CHOOSE i \in 1..L : P(i)) = m
  <2>1. P(m)
    BY <1>6
  <2> HIDE DEF P
  <2> QED BY <2>1, <1>6, <1>7
<1>9. /\ m - 1 \in 0..L - 1
      /\ \A k \in 1..m - 1 : k \in 1..L /\ ended[k] = bytes[k] /\ bytes[k] # NUL
      /\ m - 1 = L - 1 \/ bytes[m - 1 + 1] = NUL
  BY <1>1, <1>2, <1>6
<1>10. SubSeq(ended, 1, m - 1) = SubSeq(bytes, 1, m - 1)
  <2> DEFINE n == m - 1
  <2>1. n \in Nat /\ \A k \in 1..n : bytes[k] \in Bytes /\ ended[k] = bytes[k]
    BY <1>1, <1>2, <1>6, <1>9
  <2> HIDE DEF n
  <2>2. /\ SubSeq(ended, 1, n) \in Seq(Bytes) /\ SubSeq(bytes, 1, n) \in Seq(Bytes)
        /\ Len(SubSeq(ended, 1, n)) = n /\ Len(SubSeq(bytes, 1, n)) = n
        /\ \A k \in 1..n : SubSeq(ended, 1, n)[k] = SubSeq(bytes, 1, n)[k]
    BY <2>1, SubSeqProperties
  <2> QED BY <2>2, SeqEqual DEF n
<1> QED BY <1>3, <1>8, <1>9, <1>10 DEF L

LEMMA CStringType ==
  ASSUME NEW bytes \in Seq(Bytes), bytes # <<>>
  PROVE  CString(bytes) \in Seq(Letters)
<1> PICK n \in 0..Len(bytes) - 1 :
      CString(bytes) = SubSeq(bytes, 1, n) /\ \A k \in 1..n : bytes[k] # NUL
  BY CStringIsPrefix
<1>1. \A k \in 1..n : bytes[k] \in Letters
  BY DEF Bytes
<1> QED BY <1>1, SubSeqProperties

\* A command that arrives in one piece is the string that the server runs.
LEMMA CStringOfWire ==
  ASSUME NEW m \in Commands
  PROVE  /\ Wire(m) \in Seq(Bytes) /\ Wire(m) # <<>>
         /\ Len(Wire(m)) = Len(m) + 1
         /\ CString(Wire(m)) = m
<1>1. m \in Seq(Letters) /\ m \in Seq(Bytes) /\ NUL \in Bytes
  BY CommandsAssumption DEF Bytes
<1>2. /\ Wire(m) \in Seq(Bytes) /\ Wire(m) # <<>> /\ Len(Wire(m)) = Len(m) + 1
      /\ \A i \in 1..Len(m) : Wire(m)[i] = m[i] /\ m[i] # NUL
      /\ Wire(m)[Len(m) + 1] = NUL
  BY <1>1, CommandsAssumption DEF Wire
<1>3. PICK n \in 0..Len(m) :
        /\ CString(Wire(m)) = SubSeq(Wire(m), 1, n)
        /\ n = Len(m) \/ Wire(m)[n + 1] = NUL
  BY <1>1, <1>2, CStringIsPrefix
<1>4. n = Len(m)
  BY <1>1, <1>2, <1>3
<1>5. SubSeq(Wire(m), 1, Len(m)) = m
  BY <1>1, <1>2
<1> QED BY <1>2, <1>3, <1>4, <1>5

-----------------------------------------------------------------------------
(***************************************************************************)
(* BaseInv is an invariant, however TCP cuts the stream.                   *)
(***************************************************************************)
LEMMA InitBase == Init => BaseInv
<1> SUFFICES ASSUME Init PROVE BaseInv
  OBVIOUS
<1>1. TypeOK
  <2>1. IsFiniteSet(fds) /\ Cardinality(fds) = 0 /\ Len(queue) = 0
    BY FS_EmptySet DEF Init
  <2> QED BY <2>1, BoundsAssumption DEF Init, TypeOK, Gone
<1>2. Serving /\ Waiting /\ Links
  BY FS_EmptySet DEF Init, Serving, Waiting, Links, Link, Listening, Gone
<1> QED BY <1>1, <1>2 DEF BaseInv

LEMMA ClientEndsBase ==
  ASSUME BaseInv, NEW c \in Clients, NEW how, ClientEnds(c, how),
         \/ cpc[c] = "start" /\ how = "failed"
         \/ cpc[c] \in {"prompt", "recv"} /\ how \in {"ok", "killed"}
  PROVE  BaseInv'
<1> USE DEF BaseInv, ClientEnds, serverVars
<1>1. TypeOK'
  BY DEF TypeOK
<1>2. Serving' /\ Waiting'
  BY DEF TypeOK, Serving, Waiting, Listening
<1>3. Links'
  BY DEF TypeOK, Links, Link, Listening
<1> QED BY <1>1, <1>2, <1>3

LEMMA ConnectBase ==
  ASSUME BaseInv, NEW c \in Clients, Connect(c)
  PROVE  BaseInv'
<1> USE DEF BaseInv
<1>1. /\ cpc[c] = "start" /\ Listening /\ Len(queue) <= Backlog
      /\ cpc' = [cpc EXCEPT ![c] = "prompt"] /\ conn' = [conn EXCEPT ![c] = "up"]
      /\ queue' = Append(queue, c)
      /\ UNCHANGED <<spc, cur, cmd, fds, c2s, s2c, sent, ran>>
  BY DEF Connect, HasRoom
<1>2. /\ queue' \in Seq(Clients) /\ Len(queue') = Len(queue) + 1 /\ Len(queue) \in Nat
      /\ \A i \in DOMAIN queue' : \/ i \in DOMAIN queue /\ queue'[i] = queue[i]
                                  \/ i = Len(queue) + 1 /\ queue'[i] = c
  <2>1. queue \in Seq(Clients) /\ Len(queue) \in Nat /\ DOMAIN queue = 1..Len(queue)
    BY DEF TypeOK
  <2>2. DOMAIN queue' = 1..Len(queue) + 1
    BY <1>1, <2>1
  <2> QED BY <1>1, <2>1, <2>2, AppendProperties
<1>3. c \notin fds /\ \A i \in DOMAIN queue : queue[i] # c
  BY <1>1 DEF Waiting, Links, Link
<1>4. /\ cpc' \in [Clients -> {"start", "prompt", "recv", "ok", "failed", "killed"}]
      /\ conn' \in [Clients -> {"none", "up", "sfin", "srst", "cfin", "crst"}]
      /\ \A d \in Clients : d # c => cpc'[d] = cpc[d] /\ conn'[d] = conn[d]
      /\ cpc'[c] = "prompt" /\ conn'[c] = "up"
  BY <1>1 DEF TypeOK
<1>5. TypeOK'
  <2>1. Len(queue') <= Backlog + 1
    BY <1>1, <1>2, BoundsAssumption
  <2> QED BY <1>1, <1>2, <1>4, <2>1 DEF TypeOK
<1>6. Serving' /\ Links'
  <2>1. Serving'
    BY <1>1 DEF Serving, Listening
  <2>2. Links'
    <3> SUFFICES ASSUME NEW d \in Clients PROVE Link(d)'
      BY DEF Links
    <3>1. CASE d = c
      BY <3>1, <1>1, <1>4 DEF Links, Link, Listening, Gone
    <3>2. CASE d # c
      BY <3>2, <1>1, <1>4 DEF Links, Link, Listening
    <3> QED BY <3>1, <3>2
  <2> QED BY <2>1, <2>2
<1>7. Waiting'
  <2>1. \A i \in DOMAIN queue' : queue'[i] \notin fds' /\ conn'[queue'[i]] # "none"
    <3> TAKE i \in DOMAIN queue'
    <3>1. CASE i \in DOMAIN queue /\ queue'[i] = queue[i]
      <4>1. queue[i] \in Clients
        BY <3>1 DEF TypeOK
      <4> QED BY <3>1, <4>1, <1>1, <1>3, <1>4 DEF Waiting
    <3>2. CASE queue'[i] = c
      BY <3>2, <1>1, <1>3, <1>4
    <3> QED BY <3>1, <3>2, <1>2
  <2>2. \A i, j \in DOMAIN queue' : queue'[i] = queue'[j] => i = j
    BY <1>2, <1>3 DEF Waiting
  <2>3. (\A d \in fds' : conn'[d] # "none") /\ IsFiniteSet(fds')
    BY <1>1, <1>3, <1>4 DEF TypeOK, Waiting
  <2> QED BY <2>1, <2>2, <2>3 DEF Waiting
<1> QED BY <1>5, <1>6, <1>7

LEMMA SendCmdBase ==
  ASSUME BaseInv, NEW c \in Clients, NEW m \in Commands, SendCmd(c, m)
  PROVE  BaseInv'
<1> USE DEF BaseInv
<1>1. /\ cpc[c] = "prompt" /\ cpc' = [cpc EXCEPT ![c] = "recv"]
      /\ sent' = [sent EXCEPT ![c] = Append(@, m)]
      /\ \/ c2s' = [c2s EXCEPT ![c] = @ \o Wire(m)] /\ UNCHANGED conn
         \/ /\ conn[c] = "sfin"
            /\ conn' = [conn EXCEPT ![c] = "srst"] /\ UNCHANGED c2s
      /\ UNCHANGED <<spc, cur, cmd, queue, fds, s2c, ran>>
  BY DEF SendCmd, serverVars
<1>2. \A s \in Seq(Bytes) : s \o Wire(m) \in Seq(Bytes)
  BY CStringOfWire, ConcatProperties
<1>3. /\ sent' \in [Clients -> Seq(Commands)]
      /\ cpc' \in [Clients -> {"start", "prompt", "recv", "ok", "failed", "killed"}]
      /\ conn' \in [Clients -> {"none", "up", "sfin", "srst", "cfin", "crst"}]
      /\ c2s' \in [Clients -> Seq(Bytes)]
  <2>1. c2s' \in [Clients -> Seq(Bytes)]
    <3>1. c2s \in [Clients -> Seq(Bytes)]
      BY DEF TypeOK, Bytes
    <3> QED BY <1>1, <1>2, <3>1
  <2>2. sent' \in [Clients -> Seq(Commands)]
    BY <1>1 DEF TypeOK
  <2> QED BY <1>1, <2>1, <2>2 DEF TypeOK
<1>4. TypeOK'
  BY <1>1, <1>3 DEF TypeOK, Bytes
<1>5. Serving' /\ Waiting'
  BY <1>1 DEF TypeOK, Serving, Waiting, Listening
<1>6. Links'
  <2>1. ASSUME NEW d \in Clients, d # c PROVE Link(d)'
    <3>1. /\ cpc'[d] = cpc[d] /\ sent'[d] = sent[d]
          /\ conn'[d] = conn[d] /\ c2s'[d] = c2s[d]
      BY <1>1, <2>1 DEF TypeOK
    <3>2. Link(d)
      BY DEF Links
    <3> QED BY <1>1, <3>1, <3>2 DEF Link, Listening
  <2>2. Link(c)'
    <3>1. /\ cpc'[c] = "recv"
          /\ conn'[c] = conn[c] \/ (conn[c] = "sfin" /\ conn'[c] = "srst")
      BY <1>1 DEF TypeOK
    <3>2. Link(c)
      BY DEF Links
    <3> QED BY <1>1, <3>1, <3>2 DEF Link, Listening
  <2> QED BY <2>1, <2>2 DEF Links
<1> QED BY <1>4, <1>5, <1>6

LEMMA RecvBase ==
  ASSUME BaseInv, NEW c \in Clients, RecvData(c) \/ RecvNothing(c)
  PROVE  BaseInv'
<1> USE DEF BaseInv
<1>1. /\ cpc[c] = "recv" /\ cpc' = [cpc EXCEPT ![c] = "prompt"]
      /\ UNCHANGED <<spc, cur, cmd, queue, fds, conn, c2s, sent, ran>>
  BY DEF RecvData, RecvNothing, serverVars
<1>2. s2c' \in [Clients -> Nat] /\ \A d \in Clients \ {c} : s2c'[d] = s2c[d]
  <2>1. CASE RecvData(c)
    <3> PICK k \in Received(s2c[c]) : s2c' = [s2c EXCEPT ![c] = @ - k]
      BY <2>1 DEF RecvData
    <3>1. s2c[c] \in Nat
      BY DEF TypeOK
    <3>2. k \in 1..s2c[c]
      BY <3>1 DEF Received
    <3>3. s2c[c] - k \in Nat
      BY <3>1, <3>2
    <3> QED BY <3>3 DEF TypeOK
  <2>2. CASE RecvNothing(c)
    BY <2>2 DEF RecvNothing, TypeOK
  <2> QED BY <2>1, <2>2
<1>3. TypeOK'
  BY <1>1, <1>2 DEF TypeOK
<1>4. Serving' /\ Waiting'
  BY <1>1 DEF TypeOK, Serving, Waiting, Listening
<1>5. Links'
  BY <1>1, <1>2 DEF TypeOK, Links, Link, Listening
<1> QED BY <1>3, <1>4, <1>5

LEMMA ServerEndsBase ==
  ASSUME BaseInv, NEW how \in {"down", "sigpipe"}, ServerEnds(how)
  PROVE  BaseInv'
<1> USE DEF BaseInv
<1>1. /\ fds' = {} /\ IsFiniteSet(fds') /\ Cardinality(fds') = 0
      /\ queue' = <<>> /\ Len(queue') = 0 /\ spc' = how
      /\ cur' = NoClient /\ cmd' = <<>>
      /\ UNCHANGED <<cpc, s2c, sent, ran>>
  BY FS_EmptySet DEF ServerEnds
<1>2. /\ conn' \in [Clients -> {"none", "up", "sfin", "srst", "cfin", "crst"}]
      /\ \A c \in Clients : IF conn[c] = "up" THEN conn'[c] \in {"sfin", "srst"}
                            ELSE conn'[c] = conn[c]
      /\ c2s' \in [Clients -> Seq(Bytes)] /\ \A c \in Clients : c2s'[c] = <<>>
  BY DEF ServerEnds, TypeOK
<1>3. TypeOK'
  BY <1>1, <1>2, BoundsAssumption DEF TypeOK, Gone, Bytes
<1>4. Serving' /\ Waiting'
  BY <1>1, ClientsAssumption DEF Serving, Waiting, Listening, Gone
<1>5. Links'
  BY <1>1, <1>2 DEF TypeOK, Links, Link, Listening, Gone
<1> QED BY <1>3, <1>4, <1>5

LEMMA BootBase ==
  ASSUME BaseInv, Boot
  PROVE  BaseInv'
<1> USE DEF BaseInv, Boot
<1>1. TypeOK'
  BY DEF TypeOK
<1>2. Serving' /\ Waiting' /\ Links'
  BY DEF TypeOK, Serving, Waiting, Links, Link, Listening, Gone
<1> QED BY <1>1, <1>2

LEMMA AcceptBase ==
  ASSUME BaseInv, Accept
  PROVE  BaseInv'
<1> USE DEF BaseInv, Accept
<1> DEFINE h == Head(queue)
<1>1. /\ h \in Clients /\ h = queue[1] /\ 1 \in DOMAIN queue
      /\ queue' \in Seq(Clients) /\ Len(queue') = Len(queue) - 1
      /\ \A i \in DOMAIN queue' : i + 1 \in DOMAIN queue /\ queue'[i] = queue[i + 1]
      /\ \A i \in DOMAIN queue' : i \in Nat /\ i + 1 # 1
  <2>1. queue \in Seq(Clients) /\ queue # <<>> /\ queue' = Tail(queue)
    BY DEF TypeOK
  <2>2. /\ Len(queue) \in Nat \ {0} /\ DOMAIN queue = 1..Len(queue)
        /\ queue' \in Seq(Clients) /\ Len(queue') = Len(queue) - 1
        /\ DOMAIN queue' = 1..Len(queue) - 1
    BY <2>1, EmptySeq, HeadTailProperties
  <2> HIDE DEF Accept, BaseInv
  <2> QED BY <2>1, <2>2, HeadTailProperties
<1>2. h \notin fds /\ conn[h] # "none" /\ \A i \in DOMAIN queue' : queue'[i] # h
  BY <1>1 DEF Waiting
<1>3. /\ fds' = fds \cup {h} /\ IsFiniteSet(fds')
      /\ Cardinality(fds') = Cardinality(fds) + 1 /\ Cardinality(fds) \in Nat
  BY <1>2, FS_AddElement, FS_CardinalityType DEF Waiting
<1> HIDE DEF h
<1>4. /\ UNCHANGED <<cmd, cpc, conn, c2s, s2c, sent, ran>>
      /\ spc = "accept"
      /\ (spc' = "recv" /\ cur' = h) \/ UNCHANGED <<spc, cur>>
  BY DEF h
<1>5. TypeOK'
  <2>1. fds' \subseteq Clients /\ Cardinality(fds') <= MaxFds
    <3>1. fds \subseteq Clients /\ Cardinality(fds) < MaxFds
      BY DEF TypeOK, HasFd
    <3> HIDE DEF Accept, BaseInv
    <3> QED BY <1>1, <1>3, <3>1, BoundsAssumption
  <2>2. Len(queue') <= Backlog + 1
    BY <1>1, BoundsAssumption DEF TypeOK
  <2>3. spc' \in Gone \cup {"accept", "recv", "run", "send"} /\ cur' \in Clients \cup {NoClient}
    BY <1>1, <1>4 DEF TypeOK
  <2> HIDE DEF Accept
  <2> QED BY <1>1, <1>4, <2>1, <2>2, <2>3 DEF TypeOK
<1> HIDE DEF Accept
<1>6. Serving'
  BY <1>1, <1>3, <1>4, ClientsAssumption DEF Serving, Listening, Gone
<1>7. Waiting'
  <2>1. \A i, j \in DOMAIN queue' : queue'[i] = queue'[j] => i = j
    BY <1>1 DEF Waiting
  <2> QED BY <1>1, <1>2, <1>3, <1>4, <2>1 DEF Waiting
<1>8. Links'
  BY <1>4 DEF TypeOK, Links, Link, Listening, Gone
<1> QED BY <1>5, <1>6, <1>7, <1>8

\* What one recv() of the server takes from the stream.
LEMMA ServerRecvTakes ==
  ASSUME BaseInv, ServerRecv
  PROVE  /\ cur \in Clients /\ spc = "recv"
         /\ \E k \in 1..Len(c2s[cur]) :
              LET str == CString(SubSeq(c2s[cur], 1, k)) IN
                /\ k \in Received(Len(c2s[cur]))
                /\ SubSeq(c2s[cur], 1, k) \in Seq(Bytes) \ {<<>>}
                /\ str \in Seq(Letters)
                /\ c2s' = [c2s EXCEPT ![cur] = SubSeq(@, k + 1, Len(@))]
                /\ SubSeq(c2s[cur], k + 1, Len(c2s[cur])) \in Seq(Bytes)
                /\ \/ str = Exit /\ LeaveClient
                   \/ str # Exit /\ spc' = "run" /\ cmd' = str /\ UNCHANGED cur
<1>1. cur \in Clients /\ spc = "recv" /\ c2s[cur] \in Seq(Bytes)
  BY DEF BaseInv, TypeOK, Serving, ServerRecv, Bytes
<1> DEFINE all == c2s[cur]
<1>2. PICK k \in Received(Len(all)) :
        /\ c2s' = [c2s EXCEPT ![cur] = SubSeq(@, k + 1, Len(@))]
        /\ IF CString(SubSeq(all, 1, k)) = Exit THEN LeaveClient
           ELSE spc' = "run" /\ cmd' = CString(SubSeq(all, 1, k)) /\ UNCHANGED cur
  BY DEF ServerRecv
<1>3. k \in 1..Len(all)
  BY <1>1 DEF Received
<1>4. SubSeq(all, 1, k) \in Seq(Bytes) /\ SubSeq(all, k + 1, Len(all)) \in Seq(Bytes)
  BY <1>1, <1>3
<1>5. SubSeq(all, 1, k) # <<>>
  BY <1>1, <1>3, SubSeqProperties
<1>6. CString(SubSeq(all, 1, k)) \in Seq(Letters)
  BY <1>4, <1>5, CStringType
<1> QED BY <1>1, <1>2, <1>3, <1>4, <1>5, <1>6

LEMMA ServerRecvBase ==
  ASSUME BaseInv, ServerRecv
  PROVE  BaseInv'
<1> PICK rest \in Seq(Bytes), str \in Seq(Letters) :
      /\ c2s' = [c2s EXCEPT ![cur] = rest]
      /\ \/ spc' = "accept" /\ cur' = NoClient /\ cmd' = <<>>
         \/ spc' = "run" /\ cmd' = str /\ UNCHANGED cur
  BY ServerRecvTakes DEF LeaveClient
<1>1. /\ cur \in Clients /\ spc = "recv"
      /\ UNCHANGED <<queue, fds, cpc, conn, s2c, sent, ran>>
  BY ServerRecvTakes DEF ServerRecv
<1> USE DEF BaseInv
<1>2. /\ c2s' \in [Clients -> Seq(Bytes)] /\ conn[cur] # "none"
      /\ \A c \in Clients \ {cur} : c2s'[c] = c2s[c]
  <2>1. c2s \in [Clients -> Seq(Bytes)]
    BY DEF TypeOK, Bytes
  <2>2. conn[cur] # "none"
    BY <1>1, ClientsAssumption DEF Serving, Waiting
  <2> QED BY <1>1, <2>1, <2>2
<1>3. /\ cmd' \in Seq(Letters) /\ cur' \in Clients \cup {NoClient}
      /\ spc' \in {"accept", "run"}
  <2>1. <<>> \in Seq(Letters)
    BY EmptySeq
  <2> QED BY <1>1, <2>1
<1>4. TypeOK'
  BY <1>1, <1>2, <1>3 DEF TypeOK, Bytes
<1>5. Serving' /\ Waiting'
  BY <1>1, ClientsAssumption DEF TypeOK, Serving, Waiting, Listening, Gone
<1>6. Links'
  BY <1>1, <1>2, <1>3 DEF Links, Link, Listening, Gone
<1> QED BY <1>4, <1>5, <1>6

LEMMA ServerLeavesBase ==
  ASSUME BaseInv, ServerRecvEnd
  PROVE  BaseInv'
<1> USE DEF BaseInv, ServerRecvEnd, LeaveClient
<1>1. TypeOK'
  BY DEF TypeOK
<1>2. Serving' /\ Waiting'
  BY DEF TypeOK, Serving, Waiting, Listening, Gone
<1>3. Links'
  BY DEF TypeOK, Links, Link, Listening, Gone
<1> QED BY <1>1, <1>2, <1>3

LEMMA RunCmdBase ==
  ASSUME BaseInv, RunCmd
  PROVE  BaseInv'
<1> USE DEF BaseInv
<1> PICK r \in {cmd, NotRun} : ran' = [ran EXCEPT ![cur] = Append(@, r)]
  BY DEF RunCmd
<1>1. /\ spc = "run" /\ spc' = "send"
      /\ UNCHANGED <<cur, cmd, queue, fds, cpc, conn, c2s, s2c, sent>>
  BY DEF RunCmd
<1>2. cur \in Clients /\ cur \in fds
  BY <1>1, ClientsAssumption DEF TypeOK, Serving
<1>3. conn[cur] # "none"
  BY <1>1, <1>2 DEF Waiting
<1>4. /\ ran' \in [Clients -> Seq(Seq(Letters) \cup {NotRun})]
      /\ \A c \in Clients \ {cur} : ran'[c] = ran[c]
  <2>1. \A s \in Seq(Seq(Letters) \cup {NotRun}) :
          Append(s, r) \in Seq(Seq(Letters) \cup {NotRun})
    BY DEF TypeOK
  <2> QED BY <1>2, <2>1 DEF TypeOK
<1>5. TypeOK'
  BY <1>1, <1>4 DEF TypeOK
<1>6. Serving' /\ Waiting'
  BY <1>1 DEF TypeOK, Serving, Waiting, Listening, Gone
<1>7. Links'
  BY <1>1, <1>2, <1>3, <1>4 DEF Links, Link, Listening, Gone
<1> QED BY <1>5, <1>6, <1>7


\* One byte to the client that is served.
LEMMA SendEofBase ==
  ASSUME BaseInv, SendEof
  PROVE  BaseInv'
<1> USE DEF BaseInv
<1>1. cur \in Clients /\ spc = "send"
  BY ClientsAssumption DEF SendEof, TypeOK, Serving
<1>2. CASE conn[cur] = "crst" /\ ServerEnds("sigpipe")
  BY <1>2, ServerEndsBase
<1>3. CASE /\ spc' = "recv" /\ cmd' = <<>>
           /\ s2c' = IF conn[cur] = "up" THEN [s2c EXCEPT ![cur] = @ + 1] ELSE s2c
           /\ conn' = IF conn[cur] = "cfin" THEN [conn EXCEPT ![cur] = "crst"] ELSE conn
           /\ UNCHANGED <<cur, queue, fds, cpc, c2s, sent, ran>>
  <2>1. /\ conn' \in [Clients -> {"none", "up", "sfin", "srst", "cfin", "crst"}]
        /\ \A c \in Clients : \/ conn'[c] = conn[c]
                              \/ conn[c] = "cfin" /\ conn'[c] = "crst"
        /\ s2c' \in [Clients -> Nat]
        /\ \A c \in Clients : s2c'[c] = s2c[c] \/ conn[c] = "up"
    BY <1>1, <1>3 DEF TypeOK
  <2>2. TypeOK'
    BY <1>3, <2>1 DEF TypeOK
  <2>3. Serving'
    BY <1>1, <1>3 DEF Serving, Listening, Gone
  <2>4. Waiting'
    BY <1>3, <2>1 DEF TypeOK, Waiting
  <2>5. Links'
    BY <1>1, <1>3, <2>1 DEF Links, Link, Listening, Gone
  <2> QED BY <2>2, <2>3, <2>4, <2>5
<1> QED BY <1>2, <1>3 DEF SendEof, SendByte

LEMMA ClientBase ==
  ASSUME BaseInv, NEW c \in Clients, ClientStep(c) \/ KillClient(c)
  PROVE  BaseInv'
<1>1. CASE Connect(c)
  BY <1>1, ConnectBase
<1>2. CASE ConnectFails(c)
  BY <1>2, ClientEndsBase DEF ConnectFails
<1>3. ASSUME NEW m \in Commands, SendCmd(c, m)
      PROVE  BaseInv'
  BY <1>3, SendCmdBase
<1>4. CASE SendFails(c)
  BY <1>4, ClientEndsBase DEF SendFails
<1>5. CASE InputEnds(c)
  BY <1>5, ClientEndsBase DEF InputEnds
<1>6. CASE RecvData(c) \/ RecvNothing(c)
  BY <1>6, RecvBase
<1>7. CASE KillClient(c)
  BY <1>7, ClientEndsBase DEF KillClient
<1> QED
  BY <1>1, <1>2, <1>3, <1>4, <1>5, <1>6, <1>7 DEF ClientStep

LEMMA NextBase ==
  ASSUME BaseInv, [Next]_vars
  PROVE  BaseInv'
<1>1. ASSUME NEW c \in Clients, ClientStep(c) \/ KillClient(c)
      PROVE  BaseInv'
  BY <1>1, ClientBase
<1>2. CASE Boot
  BY <1>2, BootBase
<1>3. CASE BootFails \/ AcceptFails \/ Crash
  BY <1>3, ServerEndsBase DEF BootFails, AcceptFails, Crash
<1>4. CASE Accept
  BY <1>4, AcceptBase
<1>5. CASE ServerRecv
  BY <1>5, ServerRecvBase
<1>6. CASE ServerRecvEnd
  BY <1>6, ServerLeavesBase
<1>7. CASE RunCmd
  BY <1>7, RunCmdBase
<1>8. CASE SendEof
  BY <1>8, SendEofBase
<1>9. CASE UNCHANGED vars
  BY <1>9 DEF vars, BaseInv, TypeOK, Serving, Waiting, Links, Link, Listening
<1> QED
  BY <1>1, <1>2, <1>3, <1>4, <1>5, <1>6, <1>7, <1>8, <1>9 DEF Next, ServerStep

\* Every state of the two programs is of its type, the listen queue and the
\* descriptors of the server keep to their limits, and each connection is in
\* one place, for any number of clients and however TCP cuts the stream.
THEOREM TypeCorrect == Spec => []TypeOK
<1>1. Init => BaseInv
  BY InitBase
<1>2. BaseInv /\ [Next]_vars => BaseInv'
  BY NextBase
<1>3. BaseInv => TypeOK
  BY DEF BaseInv
<1> QED
  BY <1>1, <1>2, <1>3, PTL DEF Spec

-----------------------------------------------------------------------------
(***************************************************************************)
(* The exchange of one command, when TCP delivers it in one piece.         *)
(***************************************************************************)
AllDone(c) == Len(ran[c]) = Len(sent[c])
OneOpen(c) == Len(ran[c]) + 1 = Len(sent[c])
Empty(c)   == c2s[c] = <<>> /\ s2c[c] = 0

\* A client that waits, or that ended while it waited without unread bytes.
Waits(c) == cpc[c] # "prompt" /\ conn[c] # "crst"

AtRest(c)    == AllDone(c) /\ Empty(c) /\ cpc[c] # "recv"
OnTheWay(c)  == /\ OneOpen(c) /\ Waits(c)
                /\ c2s[c] = Wire(LastSent(c)) /\ s2c[c] = 0
Running(c)   == /\ OneOpen(c) /\ Waits(c) /\ Empty(c)
                /\ cmd = LastSent(c) /\ cmd # Exit
Answering(c) == AllDone(c) /\ Waits(c) /\ Empty(c)
Answered(c)  == AllDone(c) /\ cpc[c] # "prompt" /\ c2s[c] = <<>> /\ s2c[c] = 1
Dismissed(c) == /\ OneOpen(c) /\ Waits(c) /\ Empty(c)
                /\ LastSent(c) = Exit /\ c \in fds \ {cur}

Idle(c) == AtRest(c) \/ OnTheWay(c) \/ Answered(c) \/ Dismissed(c)

Phase(c) ==
  /\ c = cur /\ spc = "run"  => Running(c)
  /\ c = cur /\ spc = "send" => Answering(c)
  /\ c # cur \/ spc \notin {"run", "send"} => Idle(c)

Exchange == Listening => \A c \in Clients : Phase(c)

IInv == BaseInv /\ Exchange /\ RunsWhatWasSent /\ ServerSurvivesClients

\* What a step does not change for one client.
SameFor(c) ==
  /\ cpc'[c] = cpc[c] /\ conn'[c] = conn[c] /\ c2s'[c] = c2s[c]
  /\ s2c'[c] = s2c[c] /\ sent'[c] = sent[c] /\ ran'[c] = ran[c]

LEMMA InitIInv == Init => IInv
<1> SUFFICES ASSUME Init PROVE IInv
  OBVIOUS
<1>1. BaseInv
  BY InitBase
<1>2. Exchange /\ ServerSurvivesClients
  BY DEF Init, Exchange, Listening, Gone, ServerSurvivesClients
<1>3. RunsWhatWasSent
  BY DEF Init, RunsWhatWasSent
<1> QED BY <1>1, <1>2, <1>3 DEF IInv

LEMMA IdleKept ==
  ASSUME NEW c, Idle(c), SameFor(c), fds \subseteq fds', c # cur' \/ ~Dismissed(c)
  PROVE  Idle(c)'
<1>1. /\ AtRest(c) => AtRest(c)'
      /\ OnTheWay(c) => OnTheWay(c)'
      /\ Answered(c) => Answered(c)'
  BY DEF SameFor, AtRest, OnTheWay, Answered, AllDone, OneOpen, Empty, Waits, LastSent
<1>2. Dismissed(c) => Dismissed(c)'
  BY DEF SameFor, Dismissed, OneOpen, Empty, Waits, LastSent
<1> QED BY <1>1, <1>2 DEF Idle

LEMMA PhaseKept ==
  ASSUME NEW c, Phase(c), SameFor(c), UNCHANGED <<spc, cur, cmd>>, fds \subseteq fds'
  PROVE  Phase(c)'
<1>1. /\ Running(c) => Running(c)'
      /\ Answering(c) => Answering(c)'
  BY DEF SameFor, Running, Answering, AllDone, OneOpen, Empty, Waits, LastSent
<1>2. Idle(c) => Idle(c)'
  BY IdleKept DEF Dismissed
<1> QED BY <1>1, <1>2 DEF Phase

\* A step of a client disturbs its own phase only.
LEMMA ClientPhases ==
  ASSUME IInv, NEW c \in Clients, UNCHANGED <<spc, cur, cmd, fds>>,
         \A d \in Clients \ {c} : SameFor(d),
         Listening => Phase(c)'
  PROVE  Exchange'
<1>1. ASSUME Listening', NEW d \in Clients
      PROVE  Phase(d)'
  <2>1. Listening /\ Phase(d)
    BY <1>1 DEF Listening, IInv, Exchange
  <2>2. CASE d = c
    BY <2>1, <2>2
  <2>3. CASE d # c
    BY <2>1, <2>3, PhaseKept
  <2> QED BY <2>2, <2>3
<1> QED BY <1>1 DEF Exchange

\* A client that is not connected is not served, one at its prompt is at rest.
LEMMA PhaseFacts ==
  ASSUME IInv, Listening, NEW c \in Clients
  PROVE  /\ conn[c] = "none" => c # cur
         /\ cpc[c] \in {"start", "prompt"} => AtRest(c) /\ (c # cur \/ spc \notin {"run", "send"})
         /\ Phase(c)
<1>1. Phase(c)
  BY DEF IInv, Exchange
<1>2. conn[c] = "none" => c # cur
  BY ClientsAssumption DEF IInv, BaseInv, Serving, Waiting
<1>3. ASSUME cpc[c] = "start"
      PROVE  AtRest(c) /\ c # cur
  BY <1>2, <1>3 DEF IInv, BaseInv, Links, Link, AtRest, AllDone, Empty
<1>4. ASSUME cpc[c] = "prompt"
      PROVE  AtRest(c) /\ (c # cur \/ spc \notin {"run", "send"})
  BY <1>1, <1>4 DEF Phase, Running, Answering, Idle, OnTheWay, Answered, Dismissed, Waits
<1> QED BY <1>1, <1>2, <1>3, <1>4

LEMMA ConnectExchange ==
  ASSUME IInv, NEW c \in Clients, Connect(c)
  PROVE  Exchange'
<1>1. /\ cpc[c] = "start" /\ Listening
      /\ cpc' = [cpc EXCEPT ![c] = "prompt"] /\ conn' = [conn EXCEPT ![c] = "up"]
      /\ UNCHANGED <<spc, cur, cmd, fds, c2s, s2c, sent, ran>>
  BY DEF Connect
<1>2. conn[c] = "none" /\ AtRest(c) /\ c # cur
  BY <1>1, PhaseFacts DEF IInv, BaseInv, Links, Link
<1>3. \A d \in Clients \ {c} : SameFor(d)
  BY <1>1 DEF SameFor, IInv, BaseInv, TypeOK
<1>4. cpc'[c] = "prompt"
  BY <1>1 DEF IInv, BaseInv, TypeOK
<1>5. AtRest(c)'
  BY <1>1, <1>2, <1>4 DEF AtRest, AllDone, Empty
<1>6. Phase(c)'
  BY <1>1, <1>2, <1>5 DEF Phase, Idle
<1> QED BY <1>1, <1>3, <1>6, ClientPhases

LEMMA ClientEndsExchange ==
  ASSUME IInv, NEW c \in Clients, NEW how, ClientEnds(c, how),
         \/ cpc[c] = "start" /\ how = "failed"
         \/ cpc[c] \in {"prompt", "recv"} /\ how \in {"ok", "killed"}
  PROVE  Exchange'
<1>1. /\ cpc' = [cpc EXCEPT ![c] = how]
      /\ conn' = [conn EXCEPT ![c] = IF @ # "up" THEN @
                                     ELSE IF s2c[c] > 0 THEN "crst" ELSE "cfin"]
      /\ UNCHANGED <<spc, cur, cmd, queue, fds, c2s, s2c, sent, ran>>
  BY DEF ClientEnds, serverVars
<1>2. /\ \A d \in Clients \ {c} : SameFor(d)
      /\ cpc'[c] = how
      /\ conn'[c] = IF conn[c] # "up" THEN conn[c]
                    ELSE IF s2c[c] > 0 THEN "crst" ELSE "cfin"
  BY <1>1 DEF SameFor, IInv, BaseInv, TypeOK
<1>3. ASSUME Listening
      PROVE  Phase(c)'
  <2>1. how \in {"ok", "killed", "failed"} /\ conn[c] \in {"none", "up"}
    BY <1>3 DEF IInv, BaseInv, TypeOK, Links, Link, Listening, Gone
  <2>2. s2c[c] = 0 => conn'[c] # "crst"
    BY <1>2, <2>1
  <2>3. Waits(c) /\ s2c[c] = 0 => Waits(c)'
    BY <1>2, <2>1, <2>2 DEF Waits
  <2>4. AtRest(c) => AtRest(c)'
    BY <1>1, <1>2, <2>1 DEF AtRest, AllDone, Empty
  <2>5. Answered(c) => Answered(c)'
    BY <1>1, <1>2, <2>1 DEF Answered, AllDone
  <2>6. /\ OnTheWay(c) => OnTheWay(c)'
        /\ Dismissed(c) => Dismissed(c)'
    BY <1>1, <2>3 DEF OnTheWay, Dismissed, OneOpen, Empty, LastSent
  <2>7. /\ Running(c) => Running(c)'
        /\ Answering(c) => Answering(c)'
    BY <1>1, <2>3 DEF Running, Answering, AllDone, OneOpen, Empty, LastSent
  <2>8. Phase(c)
    BY <1>3, PhaseFacts
  <2> QED
    BY <1>1, <2>4, <2>5, <2>6, <2>7, <2>8 DEF Phase, Idle
<1> QED BY <1>1, <1>2, <1>3, ClientPhases

LEMMA SendCmdExchange ==
  ASSUME IInv, NEW c \in Clients, NEW m \in Commands, SendCmd(c, m)
  PROVE  Exchange'
<1>1. /\ cpc[c] = "prompt" /\ cpc' = [cpc EXCEPT ![c] = "recv"]
      /\ sent' = [sent EXCEPT ![c] = Append(@, m)]
      /\ \/ /\ conn[c] = "up" /\ UNCHANGED conn
            /\ c2s' = [c2s EXCEPT ![c] = @ \o Wire(m)]
         \/ /\ conn[c] = "sfin"
            /\ conn' = [conn EXCEPT ![c] = "srst"] /\ UNCHANGED c2s
      /\ UNCHANGED <<spc, cur, cmd, queue, fds, s2c, ran>>
  BY DEF SendCmd, serverVars
<1>2. /\ \A d \in Clients \ {c} : SameFor(d)
      /\ cpc'[c] = "recv" /\ sent'[c] = Append(sent[c], m)
      /\ sent[c] \in Seq(Commands) /\ Len(ran[c]) \in Nat
  BY <1>1 DEF SameFor, IInv, BaseInv, TypeOK
<1>3. ASSUME Listening
      PROVE  Phase(c)'
  <2>1. AtRest(c) /\ (c # cur \/ spc \notin {"run", "send"})
    BY <1>1, <1>3, PhaseFacts
  <2>2. /\ conn[c] = "up" /\ UNCHANGED conn
        /\ c2s' = [c2s EXCEPT ![c] = @ \o Wire(m)]
    BY <1>1, <1>3 DEF IInv, BaseInv, Links, Link, Listening, Gone
  <2>3. c2s'[c] = Wire(m)
    <3>1. c2s'[c] = <<>> \o Wire(m)
      BY <2>1, <2>2 DEF IInv, BaseInv, TypeOK, AtRest, Empty
    <3> QED BY <3>1, CStringOfWire, ConcatEmptySeq
  <2>4. Len(sent'[c]) = Len(sent[c]) + 1 /\ LastSent(c)' = m
    BY <1>2 DEF LastSent
  <2>5. OnTheWay(c)'
    BY <1>1, <1>2, <2>1, <2>2, <2>3, <2>4
    DEF OnTheWay, AtRest, AllDone, OneOpen, Empty, Waits
  <2> QED BY <1>1, <2>1, <2>5 DEF Phase, Idle
<1> QED BY <1>1, <1>2, <1>3, ClientPhases

LEMMA RecvExchange ==
  ASSUME ~Segmented, IInv, NEW c \in Clients, RecvData(c) \/ RecvNothing(c)
  PROVE  Exchange'
<1>1. /\ cpc[c] = "recv" /\ cpc' = [cpc EXCEPT ![c] = "prompt"]
      /\ UNCHANGED <<spc, cur, cmd, queue, fds, conn, c2s, sent, ran>>
  BY DEF RecvData, RecvNothing, serverVars
<1>2. /\ \A d \in Clients \ {c} : SameFor(d)
      /\ cpc'[c] = "prompt"
  BY <1>1 DEF SameFor, IInv, BaseInv, TypeOK, RecvData, RecvNothing
<1>3. ASSUME Listening
      PROVE  Phase(c)'
  <2>1. /\ s2c[c] \in Nat /\ s2c[c] # 0
        /\ s2c' = [s2c EXCEPT ![c] = 0]
    <3>1. s2c[c] \in Nat /\ conn[c] \notin {"sfin", "srst"}
      BY <1>3 DEF IInv, BaseInv, TypeOK, Links, Link, Listening, Gone
    <3>2. PICK k \in Received(s2c[c]) : s2c' = [s2c EXCEPT ![c] = @ - k]
      BY <3>1 DEF RecvData, RecvNothing
    <3>3. k = s2c[c] /\ k # 0
      BY <3>2 DEF Received
    <3>4. s2c[c] - k = 0
      BY <3>1, <3>3
    <3> QED BY <3>1, <3>2, <3>3, <3>4 DEF IInv, BaseInv, TypeOK
  <2>2. Answered(c) /\ (c # cur \/ spc \notin {"run", "send"})
    BY <1>3, <2>1, PhaseFacts
    DEF Phase, Idle, AtRest, OnTheWay, Dismissed, Running, Answering, Empty
  <2>3. s2c'[c] = 0
    BY <2>1 DEF IInv, BaseInv, TypeOK
  <2>4. AtRest(c)'
    BY <1>1, <1>2, <2>2, <2>3 DEF AtRest, Answered, AllDone, Empty
  <2> QED BY <1>1, <2>2, <2>4 DEF Phase, Idle
<1> QED BY <1>1, <1>2, <1>3, ClientPhases

\* A step of the server disturbs the phase of one client only.
LEMMA ServerPhases ==
  ASSUME IInv, NEW c \in Clients, spc \in {"accept", "recv", "run", "send"},
         cur \in {c, NoClient}, cur' \in {c, NoClient}, fds \subseteq fds',
         \A d \in Clients \ {c} : SameFor(d),
         Phase(c)'
  PROVE  Exchange'
<1>1. ASSUME NEW d \in Clients \ {c}
      PROVE  Phase(d)'
  <2>1. d # cur /\ d # cur'
    BY ClientsAssumption
  <2>2. Idle(d)
    BY <2>1 DEF IInv, Exchange, Listening, Gone, Phase
  <2> QED BY <2>1, <2>2, IdleKept DEF Phase
<1> QED BY <1>1 DEF Exchange

LEMMA BootExchange ==
  ASSUME IInv, Boot
  PROVE  Exchange'
<1>1. ASSUME NEW c \in Clients
      PROVE  AtRest(c)' /\ c # cur'
  <2>1. conn[c] = "none" /\ cpc[c] \in {"start", "failed"} /\ cur = NoClient
    BY DEF Boot, IInv, BaseInv, Serving, Links, Link
  <2>2. AtRest(c)
    BY <2>1 DEF IInv, BaseInv, Links, Link, AtRest, AllDone, Empty
  <2> QED
    BY <2>1, <2>2, ClientsAssumption DEF Boot, AtRest, AllDone, Empty
<1> QED BY <1>1 DEF Exchange, Phase, Idle

LEMMA AcceptExchange ==
  ASSUME IInv, Accept
  PROVE  Exchange'
<1>1. queue \in Seq(Clients) /\ queue # <<>>
  BY DEF Accept, IInv, BaseInv, TypeOK
<1>2. PICK h \in Clients : h = Head(queue) /\ h = queue[1] /\ 1 \in DOMAIN queue
  BY <1>1
<1>3. h \notin fds /\ cur = NoClient
  BY <1>2 DEF IInv, BaseInv, Waiting, Serving, Accept
<1>4. /\ fds' = fds \cup {h} /\ spc = "accept"
      /\ (spc' = "recv" /\ cur' = h) \/ UNCHANGED <<spc, cur>>
      /\ UNCHANGED <<cmd, cpc, conn, c2s, s2c, sent, ran>>
  BY <1>2 DEF Accept
<1>5. \A d : SameFor(d)
  BY <1>4 DEF SameFor
<1>6. Idle(h)
  BY <1>4 DEF IInv, Exchange, Phase, Listening, Gone
<1>7. Idle(h)'
  BY <1>3, <1>4, <1>5, <1>6, IdleKept DEF Dismissed
<1>8. Phase(h)'
  BY <1>4, <1>7 DEF Phase
<1> QED BY <1>3, <1>4, <1>5, <1>8, ServerPhases

\* recv() of the server takes the command on its way, and all of it.
LEMMA WholeCommand ==
  ASSUME ~Segmented, IInv, ServerRecv
  PROVE  /\ cur \in Clients /\ cur \in fds /\ spc = "recv" /\ OnTheWay(cur)
         /\ c2s' = [c2s EXCEPT ![cur] = <<>>]
         /\ \/ LastSent(cur) = Exit /\ LeaveClient
            \/ LastSent(cur) # Exit /\ spc' = "run" /\ cmd' = LastSent(cur) /\ UNCHANGED cur
         /\ UNCHANGED <<queue, fds, cpc, conn, s2c, sent, ran>>
<1> DEFINE all == c2s[cur]
<1>1. cur \in Clients /\ spc = "recv"
  BY ServerRecvTakes DEF IInv
<1>2. all \in Seq(Bytes) /\ Len(all) \in Nat
  BY <1>1 DEF IInv, BaseInv, TypeOK, Bytes
<1>3. PICK k \in 1..Len(all) :
        /\ k \in Received(Len(all))
        /\ c2s' = [c2s EXCEPT ![cur] = SubSeq(@, k + 1, Len(@))]
        /\ LET str == CString(SubSeq(all, 1, k)) IN
             \/ str = Exit /\ LeaveClient
             \/ str # Exit /\ spc' = "run" /\ cmd' = str /\ UNCHANGED cur
  BY ServerRecvTakes DEF IInv
<1>4. k = Len(all) /\ all # <<>>
  BY <1>2, <1>3 DEF Received
<1>5. OnTheWay(cur) /\ cur \in fds
  BY <1>1, <1>4, ClientsAssumption
  DEF IInv, BaseInv, Serving, Exchange, Phase, Listening, Gone,
      Idle, AtRest, Answered, Dismissed, Empty
<1>6. LastSent(cur) \in Commands
  BY <1>1, <1>5 DEF IInv, BaseInv, TypeOK, OnTheWay, OneOpen, LastSent
<1>7. SubSeq(all, 1, Len(all)) = all /\ SubSeq(all, Len(all) + 1, Len(all)) = <<>>
  BY <1>2, SubSeqFull, SubSeqEmpty
<1>8. CString(SubSeq(all, 1, k)) = LastSent(cur)
  BY <1>4, <1>5, <1>6, <1>7, CStringOfWire DEF OnTheWay
<1>9. c2s' = [c2s EXCEPT ![cur] = <<>>]
  BY <1>1, <1>3, <1>4, <1>7 DEF IInv, BaseInv, TypeOK
<1> QED BY <1>1, <1>3, <1>5, <1>8, <1>9 DEF ServerRecv

LEMMA ServerRecvExchange ==
  ASSUME ~Segmented, IInv, ServerRecv
  PROVE  Exchange'
<1>1. PICK c \in Clients : c = cur
  BY WholeCommand
<1>2. /\ c \in fds /\ spc = "recv" /\ OnTheWay(c)
      /\ c2s' = [c2s EXCEPT ![c] = <<>>]
      /\ \/ LastSent(c) = Exit /\ LeaveClient
         \/ LastSent(c) # Exit /\ spc' = "run" /\ cmd' = LastSent(c) /\ UNCHANGED cur
      /\ UNCHANGED <<queue, fds, cpc, conn, s2c, sent, ran>>
  BY <1>1, WholeCommand DEF OnTheWay, OneOpen, Waits, LastSent
<1>3. c2s'[c] = <<>> /\ \A d \in Clients \ {c} : SameFor(d)
  BY <1>2 DEF SameFor, IInv, BaseInv, TypeOK
<1>4. Phase(c)'
  <2>1. CASE LastSent(c) = Exit /\ LeaveClient
    <3>1. cur' = NoClient /\ spc' = "accept" /\ c \in fds' \ {cur'}
      BY <1>2, <2>1, ClientsAssumption DEF LeaveClient
    <3>2. Dismissed(c)'
      BY <3>1, <1>2, <1>3, <2>1 DEF OnTheWay, Dismissed, OneOpen, Empty, Waits, LastSent
    <3> QED BY <3>1, <3>2 DEF Phase, Idle
  <2>2. CASE /\ LastSent(c) # Exit
             /\ spc' = "run" /\ cmd' = LastSent(c) /\ UNCHANGED cur
    <3>1. Running(c)'
      BY <1>2, <1>3, <2>2 DEF OnTheWay, Running, OneOpen, Empty, Waits, LastSent
    <3> QED BY <1>1, <2>2, <3>1 DEF Phase
  <2> QED BY <1>2, <2>1, <2>2
<1>5. cur' \in {c, NoClient}
  BY <1>1, <1>2 DEF LeaveClient
<1> QED BY <1>1, <1>2, <1>3, <1>4, <1>5, ServerPhases

LEMMA ServerRecvEndExchange ==
  ASSUME IInv, ServerRecvEnd
  PROVE  Exchange'
<1>1. PICK c \in Clients : c = cur
  BY ClientsAssumption DEF ServerRecvEnd, IInv, BaseInv, TypeOK, Serving
<1>2. /\ spc = "recv" /\ cur' = NoClient /\ spc' = "accept"
      /\ UNCHANGED <<fds, cpc, conn, c2s, s2c, sent, ran>>
  BY DEF ServerRecvEnd, LeaveClient
<1>3. \A d : SameFor(d)
  BY <1>2 DEF SameFor
<1>4. Idle(c)
  BY <1>1, <1>2 DEF IInv, Exchange, Phase, Listening, Gone
<1>5. Idle(c)'
  BY <1>1, <1>2, <1>3, <1>4, IdleKept DEF Dismissed
<1>6. Phase(c)'
  BY <1>2, <1>5 DEF Phase
<1> QED BY <1>1, <1>2, <1>3, <1>6, ServerPhases

\* What the server runs is what its client sent last.
LEMMA RunsLast ==
  ASSUME IInv, RunCmd
  PROVE  \E c \in Clients, r \in {LastSent(cur), NotRun} :
           /\ c = cur /\ Running(c) /\ spc = "run" /\ spc' = "send"
           /\ r = NotRun => "fork" \in Faults
           /\ ran' = [ran EXCEPT ![c] = Append(@, r)]
           /\ UNCHANGED <<cur, cmd, queue, fds, cpc, conn, c2s, s2c, sent>>
<1>1. PICK c \in Clients : c = cur
  BY ClientsAssumption DEF RunCmd, IInv, BaseInv, TypeOK, Serving
<1>2. Running(c)
  BY <1>1 DEF RunCmd, IInv, Exchange, Phase, Listening, Gone
<1>3. cmd = LastSent(cur) /\ cmd # NotRun
  BY <1>1, <1>2, ClientsAssumption DEF Running, IInv, BaseInv, TypeOK
<1>4. PICK r \in {LastSent(cur), NotRun} :
        /\ r = NotRun => "fork" \in Faults
        /\ ran' = [ran EXCEPT ![cur] = Append(@, r)]
  BY <1>3 DEF RunCmd
<1> QED BY <1>1, <1>2, <1>4 DEF RunCmd

LEMMA RunCmdExchange ==
  ASSUME IInv, RunCmd
  PROVE  Exchange' /\ RunsWhatWasSent'
<1>1. PICK c \in Clients, r \in {LastSent(cur), NotRun} :
        /\ c = cur /\ Running(c) /\ spc = "run" /\ spc' = "send"
        /\ ran' = [ran EXCEPT ![c] = Append(@, r)]
        /\ UNCHANGED <<cur, cmd, queue, fds, cpc, conn, c2s, s2c, sent>>
  BY RunsLast
<1>2. /\ \A d \in Clients \ {c} : SameFor(d)
      /\ ran'[c] = Append(ran[c], r)
      /\ Len(ran[c]) \in Nat /\ DOMAIN ran[c] = 1..Len(ran[c])
  BY <1>1 DEF SameFor, IInv, BaseInv, TypeOK
<1>3. /\ Len(ran'[c]) = Len(ran[c]) + 1
      /\ \A k \in DOMAIN ran'[c] : \/ k \in DOMAIN ran[c] /\ ran'[c][k] = ran[c][k]
                                   \/ k = Len(sent[c]) /\ ran'[c][k] = r
  BY <1>1, <1>2 DEF IInv, BaseInv, TypeOK, Running, OneOpen
<1>4. Exchange'
  <2>1. Answering(c)'
    BY <1>1, <1>3 DEF Running, Answering, OneOpen, AllDone, Empty, Waits
  <2>2. Phase(c)'
    BY <1>1, <2>1 DEF Phase
  <2> QED BY <1>1, <1>2, <2>2, ServerPhases
<1>5. RunsWhatWasSent'
  <2> SUFFICES ASSUME NEW d \in Clients
               PROVE  /\ Len(ran'[d]) <= Len(sent'[d])
                      /\ \A k \in DOMAIN ran'[d] : ran'[d][k] \in {sent'[d][k], NotRun}
    BY DEF RunsWhatWasSent
  <2>1. CASE d = c
    <3>1. Len(ran'[c]) <= Len(sent'[c])
      BY <1>1, <1>2, <1>3 DEF Running, OneOpen
    <3>2. \A k \in DOMAIN ran'[c] : ran'[c][k] \in {sent[c][k], NotRun}
      BY <1>1, <1>3 DEF IInv, RunsWhatWasSent, LastSent
    <3> QED BY <1>1, <2>1, <3>1, <3>2
  <2>2. CASE d # c
    BY <1>1, <1>2, <2>2 DEF SameFor, IInv, RunsWhatWasSent
  <2> QED BY <2>1, <2>2
<1> QED BY <1>4, <1>5

\* The byte goes to a client that is there, or was when the command began.
LEMMA AnswerGoesOut ==
  ASSUME IInv, SendEof
  PROVE  \E c \in Clients :
           /\ c = cur /\ Answering(c) /\ spc = "send" /\ spc' = "recv" /\ cmd' = <<>>
           /\ conn[c] \in {"up", "cfin"}
           /\ s2c' = IF conn[c] = "up" THEN [s2c EXCEPT ![c] = @ + 1] ELSE s2c
           /\ conn' = IF conn[c] = "cfin" THEN [conn EXCEPT ![c] = "crst"] ELSE conn
           /\ UNCHANGED <<cur, queue, fds, cpc, c2s, sent, ran>>
<1>1. PICK c \in Clients : c = cur /\ c \in fds
  BY ClientsAssumption DEF SendEof, IInv, BaseInv, TypeOK, Serving
<1>2. Answering(c)
  BY <1>1 DEF SendEof, IInv, Exchange, Phase, Listening, Gone
<1>3. conn[c] \in {"up", "cfin"}
  BY <1>1, <1>2
  DEF SendEof, IInv, BaseInv, TypeOK, Waiting, Links, Link, Answering, Waits
<1> QED BY <1>1, <1>2, <1>3 DEF SendEof, SendByte

LEMMA SendEofExchange ==
  ASSUME IInv, SendEof
  PROVE  Exchange' /\ ServerSurvivesClients'
<1>1. PICK c \in Clients :
        /\ c = cur /\ Answering(c) /\ spc = "send" /\ spc' = "recv" /\ cmd' = <<>>
        /\ conn[c] \in {"up", "cfin"}
        /\ s2c' = IF conn[c] = "up" THEN [s2c EXCEPT ![c] = @ + 1] ELSE s2c
        /\ conn' = IF conn[c] = "cfin" THEN [conn EXCEPT ![c] = "crst"] ELSE conn
        /\ UNCHANGED <<cur, queue, fds, cpc, c2s, sent, ran>>
  BY AnswerGoesOut
<1>2. /\ \A d \in Clients \ {c} : SameFor(d)
      /\ s2c[c] = 0 /\ s2c'[c] = IF conn[c] = "up" THEN 1 ELSE 0
  BY <1>1 DEF SameFor, IInv, BaseInv, TypeOK, Answering, Empty
<1>3. CASE conn[c] = "up"
  <2>1. Answered(c)'
    BY <1>1, <1>2, <1>3 DEF Answering, Answered, AllDone, Empty, Waits
  <2>2. Phase(c)'
    BY <1>1, <2>1 DEF Phase, Idle
  <2> QED BY <1>1, <1>2, <2>2, ServerPhases DEF ServerSurvivesClients
<1>4. CASE conn[c] = "cfin"
  <2>1. cpc[c] # "recv"
    BY <1>4 DEF IInv, BaseInv, Links, Link
  <2>2. AtRest(c)'
    BY <1>1, <1>2, <1>4, <2>1 DEF Answering, AtRest, AllDone, Empty
  <2>3. Phase(c)'
    BY <1>1, <2>2 DEF Phase, Idle
  <2> QED BY <1>1, <1>2, <2>3, ServerPhases DEF ServerSurvivesClients
<1> QED BY <1>1, <1>3, <1>4

\* A step that ends the server, or leaves it where it was.
LEMMA RunsKept ==
  ASSUME RunsWhatWasSent, UNCHANGED <<sent, ran>>
  PROVE  RunsWhatWasSent'
  BY DEF RunsWhatWasSent

LEMMA ServerEndsExchange ==
  ASSUME IInv, ServerEnds("down")
  PROVE  Exchange' /\ RunsWhatWasSent' /\ ServerSurvivesClients'
<1>1. RunsWhatWasSent'
  BY RunsKept DEF IInv, ServerEnds
<1>2. Exchange' /\ ServerSurvivesClients'
  BY DEF ServerEnds, Exchange, Listening, Gone, ServerSurvivesClients
<1> QED BY <1>1, <1>2

LEMMA SendCmdRuns ==
  ASSUME IInv, NEW c \in Clients, NEW m \in Commands, SendCmd(c, m)
  PROVE  RunsWhatWasSent'
<1>1. UNCHANGED ran /\ sent' = [sent EXCEPT ![c] = Append(@, m)]
  BY DEF SendCmd
<1> SUFFICES ASSUME NEW d \in Clients
             PROVE  /\ Len(ran[d]) <= Len(sent'[d])
                    /\ \A k \in DOMAIN ran[d] : ran[d][k] \in {sent'[d][k], NotRun}
  BY <1>1 DEF RunsWhatWasSent
<1>2. /\ sent[d] \in Seq(Commands) /\ Len(ran[d]) \in Nat
      /\ DOMAIN ran[d] = 1..Len(ran[d]) /\ Len(ran[d]) <= Len(sent[d])
  BY DEF IInv, BaseInv, TypeOK, RunsWhatWasSent
<1>3. /\ Len(sent'[d]) >= Len(sent[d])
      /\ \A k \in 1..Len(sent[d]) : sent'[d][k] = sent[d][k]
  BY <1>1, <1>2, AppendProperties DEF IInv, BaseInv, TypeOK
<1>4. Len(sent[d]) \in Nat /\ Len(sent'[d]) \in Nat
  BY <1>1, <1>2 DEF IInv, BaseInv, TypeOK
<1> QED BY <1>2, <1>3, <1>4 DEF IInv, RunsWhatWasSent

LEMMA ClientIInv ==
  ASSUME ~Segmented, IInv, NEW c \in Clients, ClientStep(c) \/ KillClient(c)
  PROVE  Exchange' /\ RunsWhatWasSent' /\ ServerSurvivesClients'
<1>1. CASE Connect(c)
  BY <1>1, ConnectExchange, RunsKept DEF IInv, Connect, ServerSurvivesClients
<1>2. ASSUME NEW m \in Commands, SendCmd(c, m)
      PROVE  Exchange' /\ RunsWhatWasSent' /\ ServerSurvivesClients'
  BY <1>2, SendCmdExchange, SendCmdRuns
  DEF IInv, SendCmd, serverVars, ServerSurvivesClients
<1>3. CASE RecvData(c) \/ RecvNothing(c)
  BY <1>3, RecvExchange, RunsKept
  DEF IInv, RecvData, RecvNothing, serverVars, ServerSurvivesClients
<1>4. ASSUME NEW how, ClientEnds(c, how),
             \/ cpc[c] = "start" /\ how = "failed"
             \/ cpc[c] \in {"prompt", "recv"} /\ how \in {"ok", "killed"}
      PROVE  Exchange' /\ RunsWhatWasSent' /\ ServerSurvivesClients'
  BY <1>4, ClientEndsExchange, RunsKept
  DEF IInv, ClientEnds, serverVars, ServerSurvivesClients
<1>5. CASE ConnectFails(c) \/ SendFails(c) \/ InputEnds(c) \/ KillClient(c)
  BY <1>4, <1>5 DEF ConnectFails, SendFails, InputEnds, KillClient
<1> QED
  BY <1>1, <1>2, <1>3, <1>5 DEF ClientStep

LEMMA ServerIInv ==
  ASSUME ~Segmented, IInv, ServerStep \/ BootFails \/ Crash
  PROVE  Exchange' /\ RunsWhatWasSent' /\ ServerSurvivesClients'
<1>1. CASE Boot
  BY <1>1, BootExchange, RunsKept DEF IInv, Boot, ServerSurvivesClients
<1>2. CASE Accept
  BY <1>2, AcceptExchange, RunsKept DEF IInv, Accept, ServerSurvivesClients
<1>3. CASE AcceptFails \/ BootFails \/ Crash
  BY <1>3, ServerEndsExchange DEF AcceptFails, BootFails, Crash
<1>4. CASE ServerRecv
  <2>1. spc' \in {"accept", "run"} /\ UNCHANGED <<sent, ran>>
    BY <1>4, WholeCommand DEF LeaveClient
  <2> QED BY <1>4, <2>1, ServerRecvExchange, RunsKept DEF IInv, ServerSurvivesClients
<1>5. CASE ServerRecvEnd
  BY <1>5, ServerRecvEndExchange, RunsKept
  DEF IInv, ServerRecvEnd, LeaveClient, ServerSurvivesClients
<1>6. CASE RunCmd
  BY <1>6, RunCmdExchange DEF RunCmd, ServerSurvivesClients
<1>7. CASE SendEof
  <2>1. UNCHANGED <<sent, ran>>
    BY <1>7, AnswerGoesOut
  <2> QED BY <1>7, <2>1, SendEofExchange, RunsKept DEF IInv
<1> QED
  BY <1>1, <1>2, <1>3, <1>4, <1>5, <1>6, <1>7 DEF ServerStep

LEMMA NextIInv ==
  ASSUME ~Segmented, IInv, [Next]_vars
  PROVE  IInv'
<1>1. BaseInv'
  BY NextBase DEF IInv
<1>2. Exchange' /\ RunsWhatWasSent' /\ ServerSurvivesClients'
  <2>1. CASE \E c \in Clients : ClientStep(c) \/ KillClient(c)
    BY <2>1, ClientIInv
  <2>2. CASE ServerStep \/ BootFails \/ Crash
    BY <2>2, ServerIInv
  <2>3. CASE UNCHANGED vars
    <3>1. UNCHANGED <<spc, cur, cmd, fds>> /\ \A c \in Clients : SameFor(c)
      BY <2>3 DEF vars, SameFor
    <3>2. Exchange'
      BY <3>1, PhaseKept DEF IInv, Exchange, Listening
    <3> QED BY <2>3, <3>1, <3>2, RunsKept DEF vars, IInv, ServerSurvivesClients
  <2> QED BY <2>1, <2>2, <2>3 DEF Next
<1> QED BY <1>1, <1>2 DEF IInv

LEMMA IInvLockstep == IInv => Lockstep
<1> SUFFICES ASSUME IInv, NEW c \in Clients, cpc[c] = "prompt", conn[c] = "up"
             PROVE  Len(ran[c]) = Len(sent[c]) /\ c2s[c] = <<>> /\ s2c[c] = 0
  BY DEF Lockstep
<1>1. Listening
  BY DEF IInv, BaseInv, Links, Link
<1> QED BY <1>1, PhaseFacts DEF AtRest, AllDone, Empty

LEMMA IInvHolds == ~Segmented => (Spec => []IInv)
<1> SUFFICES ASSUME ~Segmented PROVE Spec => []IInv
  OBVIOUS
<1>1. Init => IInv
  BY InitIInv
<1>2. IInv /\ [Next]_vars => IInv'
  BY NextIInv
<1> QED
  BY <1>1, <1>2, PTL DEF Spec

\* As long as TCP delivers each command in one piece, a client that has its
\* server and is back at its prompt has had the answer to all that it sent, and
\* nothing is on the way: the two ends never get out of step, whatever fails.
THEOREM EndsStayInStep == ~Segmented => (Spec => []Lockstep)
  BY IInvHolds, IInvLockstep, PTL

\* What the server gave to system() for a client is what that client sent, each
\* command once and in order, whoever is killed and whatever fails.
THEOREM RunsInOrderOnce == ~Segmented => (Spec => []RunsWhatWasSent)
<1>1. IInv => RunsWhatWasSent
  BY DEF IInv
<1> QED BY <1>1, IInvHolds, PTL

\* No client takes the server with it: by the time a second byte would raise
\* SIGPIPE, the loop has seen that its client is gone.
THEOREM NoSigpipe == ~Segmented => (Spec => []ServerSurvivesClients)
<1>1. IInv => ServerSurvivesClients
  BY DEF IInv
<1> QED BY <1>1, IInvHolds, PTL

-----------------------------------------------------------------------------
(***************************************************************************)
(* However TCP cuts the stream, no two commands are run as one.            *)
(***************************************************************************)

\* str is a piece of one of these commands.
PieceOf(str, cmds) ==
  \E j \in 1..Len(cmds) : \E a \in 0..Len(cmds[j]) :
    \E b \in 0..Len(cmds[j]) : str = SubSeq(cmds[j], a + 1, b)

\* Only the server cuts the stream, so it ends where a command ends; and between
\* two NULs of it is a piece of one command.
StreamOf(s, cmds) ==
  /\ s # <<>> => s[Len(s)] = NUL
  /\ \A i, j \in 0..Len(s) :
       s # <<>> /\ i <= j /\ (\A k \in i + 1..j : s[k] # NUL)
         => PieceOf(SubSeq(s, i + 1, j), cmds)

PieceInv ==
  /\ \A c \in Clients :
       /\ StreamOf(c2s[c], sent[c])
       /\ \A i \in DOMAIN ran[c] : ran[c][i] # NotRun => PieceOf(ran[c][i], sent[c])
  /\ spc = "run" => PieceOf(cmd, sent[cur])

StreamInv == BaseInv /\ PieceInv

LEMMA PieceInvMeans == PieceInv => NeverMixesCommands
  BY DEF PieceInv, NeverMixesCommands, PieceOf

\* Two stretches with the same bytes are the same string.
LEMMA SameStretch ==
  ASSUME NEW S, NEW s, NEW t, NEW i \in Nat, NEW j \in Nat, i <= j,
         NEW p \in Nat, NEW q \in Nat, q - p = j - i,
         \A k \in 1..j - i : s[i + k] = t[p + k] /\ s[i + k] \in S
  PROVE  SubSeq(s, i + 1, j) = SubSeq(t, p + 1, q)
<1>1. \A k \in i + 1..j : s[k] \in S
  <2> TAKE k \in i + 1..j
  <2>1. k - i \in 1..j - i /\ i + (k - i) = k
    OBVIOUS
  <2> QED BY <2>1
<1>2. \A k \in p + 1..q : t[k] \in S
  <2> TAKE k \in p + 1..q
  <2>1. k - p \in 1..j - i /\ p + (k - p) = k
    OBVIOUS
  <2> QED BY <2>1
<1>3. /\ SubSeq(s, i + 1, j) \in Seq(S) /\ Len(SubSeq(s, i + 1, j)) = j - i
      /\ \A k \in 1..j - i : SubSeq(s, i + 1, j)[k] = s[i + k]
  <2>1. /\ SubSeq(s, i + 1, j) \in Seq(S)
        /\ Len(SubSeq(s, i + 1, j)) = IF i + 1 <= j THEN j - (i + 1) + 1 ELSE 0
        /\ \A k \in 1..j - (i + 1) + 1 : SubSeq(s, i + 1, j)[k] = s[i + 1 + k - 1]
    BY <1>1, SubSeqProperties
  <2> QED BY <2>1
<1>4. /\ SubSeq(t, p + 1, q) \in Seq(S) /\ Len(SubSeq(t, p + 1, q)) = j - i
      /\ \A k \in 1..j - i : SubSeq(t, p + 1, q)[k] = t[p + k]
  <2>1. /\ SubSeq(t, p + 1, q) \in Seq(S)
        /\ Len(SubSeq(t, p + 1, q)) = IF p + 1 <= q THEN q - (p + 1) + 1 ELSE 0
        /\ \A k \in 1..q - (p + 1) + 1 : SubSeq(t, p + 1, q)[k] = t[p + 1 + k - 1]
    BY <1>2, SubSeqProperties
  <2> QED BY <2>1
<1> QED BY <1>3, <1>4, SeqEqual

\* A piece stays one when its client sends more, and every stretch of what it
\* sends is a piece.
LEMMA PieceGrows ==
  ASSUME NEW cmds \in Seq(Commands), NEW m \in Commands
  PROVE  /\ \A str : PieceOf(str, cmds) => PieceOf(str, Append(cmds, m))
         /\ \A a, b \in 0..Len(m) : PieceOf(SubSeq(m, a + 1, b), Append(cmds, m))
         /\ PieceOf(<<>>, Append(cmds, m))
<1> DEFINE more == Append(cmds, m)
<1>1. /\ Len(cmds) \in Nat /\ Len(more) = Len(cmds) + 1 /\ more[Len(cmds) + 1] = m
      /\ \A k \in 1..Len(cmds) : more[k] = cmds[k]
  BY AppendProperties
<1> HIDE DEF more
<1>2. ASSUME NEW str, PieceOf(str, cmds)
      PROVE  PieceOf(str, more)
  <2> PICK j \in 1..Len(cmds) :
        \E a \in 0..Len(cmds[j]) : \E b \in 0..Len(cmds[j]) :
          str = SubSeq(cmds[j], a + 1, b)
    BY <1>2 DEF PieceOf
  <2>1. j \in 1..Len(more) /\ more[j] = cmds[j]
    BY <1>1
  <2> QED BY <2>1 DEF PieceOf
<1>3. ASSUME NEW a \in 0..Len(m), NEW b \in 0..Len(m)
      PROVE  PieceOf(SubSeq(m, a + 1, b), more)
  <2>1. Len(cmds) + 1 \in 1..Len(more)
    BY <1>1
  <2> QED BY <1>1, <2>1 DEF PieceOf
<1>4. PieceOf(<<>>, more)
  <2>1. 0 \in 0..Len(m)
    BY CommandsAssumption
  <2>2. SubSeq(m, 0 + 1, 0) = <<>>
    BY SubSeqEmpty
  <2>3. PieceOf(SubSeq(m, 0 + 1, 0), more)
    BY <1>3, <2>1
  <2> QED BY <2>2, <2>3
<1> QED BY <1>2, <1>3, <1>4 DEF more

\* The bytes of a stream and of the command behind it.
LEMMA StreamThenWire ==
  ASSUME NEW s \in Seq(Bytes), NEW m \in Commands
  PROVE  LET t == s \o Wire(m) IN
         /\ Len(s) \in Nat /\ Len(m) \in Nat
         /\ t \in Seq(Bytes) /\ Len(t) = Len(s) + Len(m) + 1
         /\ \A k \in 1..Len(s) : t[k] = s[k]
         /\ \A k \in 1..Len(m) : t[Len(s) + k] = m[k]
         /\ t[Len(s) + Len(m) + 1] = NUL
<1> DEFINE w == Wire(m)
           t == s \o w
<1>1. Len(s) \in Nat /\ m \in Seq(Letters) /\ Len(m) \in Nat
  BY CommandsAssumption
<1>2. /\ w \in Seq(Bytes) /\ Len(w) = Len(m) + 1 /\ w[Len(m) + 1] = NUL
      /\ \A k \in 1..Len(m) : w[k] = m[k]
  BY <1>1, CStringOfWire, AppendProperties DEF Wire
<1> HIDE DEF w
<1>3. /\ t \in Seq(Bytes) /\ Len(t) = Len(s) + Len(w)
      /\ \A k \in 1..Len(s) + Len(w) : t[k] = IF k <= Len(s) THEN s[k] ELSE w[k - Len(s)]
  BY <1>2, ConcatProperties
<1> HIDE DEF t
<1>4. \A k \in 1..Len(s) : t[k] = s[k]
  BY <1>1, <1>2, <1>3
<1>5. \A k \in 1..Len(m) + 1 : t[Len(s) + k] = w[k]
  <2> TAKE k \in 1..Len(m) + 1
  <2>1. /\ Len(s) + k \in 1..Len(s) + Len(w) /\ ~(Len(s) + k <= Len(s))
        /\ (Len(s) + k) - Len(s) = k
    BY <1>1, <1>2
  <2> QED BY <2>1, <1>3
<1>6. Len(m) + 1 \in 1..Len(m) + 1 /\ \A k \in 1..Len(m) : k \in 1..Len(m) + 1
  BY <1>1
<1>7. t[Len(s) + (Len(m) + 1)] = NUL /\ Len(s) + (Len(m) + 1) = Len(s) + Len(m) + 1
  BY <1>1, <1>2, <1>5, <1>6
<1> QED BY <1>1, <1>2, <1>3, <1>4, <1>5, <1>6, <1>7 DEF w, t

LEMMA StreamGrows ==
  ASSUME NEW s \in Seq(Bytes), NEW cmds \in Seq(Commands), NEW m \in Commands,
         StreamOf(s, cmds)
  PROVE  StreamOf(s \o Wire(m), Append(cmds, m))
<1> DEFINE t == s \o Wire(m)
           more == Append(cmds, m)
           n == Len(s)
           l == Len(m)
<1>1. /\ n \in Nat /\ l \in Nat /\ t \in Seq(Bytes) /\ Len(t) = n + l + 1
      /\ \A k \in 1..n : t[k] = s[k]
      /\ \A k \in 1..l : t[n + k] = m[k]
      /\ t[n + l + 1] = NUL
  BY StreamThenWire
<1>2. \A k \in 1..n + l + 1 : t[k] \in Bytes
  BY <1>1, ElementOfSeq
<1>3. /\ s # <<>> => s[n] = NUL
      /\ (n = 0) <=> (s = <<>>)
  BY EmptySeq DEF StreamOf
<1>4. /\ \A str : PieceOf(str, cmds) => PieceOf(str, more)
      /\ \A a, b \in 0..l : PieceOf(SubSeq(m, a + 1, b), more)
      /\ PieceOf(<<>>, more)
  BY PieceGrows
<1>5. \A i, j \in 0..n : s # <<>> /\ i <= j /\ (\A k \in i + 1..j : s[k] # NUL)
        => PieceOf(SubSeq(s, i + 1, j), cmds)
  BY DEF StreamOf
<1> HIDE DEF t, more, n, l
<1>6. ASSUME NEW i \in 0..n + l + 1, NEW j \in 0..n + l + 1, i <= j,
             \A k \in i + 1..j : t[k] # NUL
      PROVE  PieceOf(SubSeq(t, i + 1, j), more)
  <2> i \in Nat /\ j \in Nat
    BY <1>1
  <2>1. CASE i = j
    <3>1. SubSeq(t, i + 1, j) = <<>>
      BY <2>1, SubSeqEmpty
    <3> QED BY <3>1, <1>4
  <2>2. CASE i < j /\ j <= n
    <3>1. s # <<>> /\ i \in 0..n /\ j \in 0..n
      BY <2>2, <1>1, <1>3
    <3>2. \A k \in i + 1..j : k \in 1..n /\ s[k] # NUL
      BY <3>1, <1>1, <1>6
    <3>3. \A k \in 1..j - i : t[i + k] = s[i + k] /\ t[i + k] \in Bytes
      <4> TAKE k \in 1..j - i
      <4>1. i + k \in 1..n /\ i + k \in 1..n + l + 1
        BY <2>2, <1>1
      <4> QED BY <4>1, <1>1, <1>2
    <3>4. SubSeq(t, i + 1, j) = SubSeq(s, i + 1, j)
      BY <3>3, <2>2, SameStretch
    <3>5. PieceOf(SubSeq(s, i + 1, j), cmds)
      BY <3>1, <3>2, <1>5, <2>2
    <3> QED BY <3>4, <3>5, <1>4
  <2>3. CASE i < j /\ n < j
    <3>1. n <= i
      <4> SUFFICES ASSUME i < n PROVE FALSE
        BY <1>1
      <4>1. s # <<>> /\ n \in i + 1..j /\ n \in 1..n
        BY <2>3, <1>1, <1>3
      <4> QED BY <4>1, <1>1, <1>3, <1>6
    <3>2. j <= n + l
      <4> SUFFICES ASSUME j = n + l + 1 PROVE FALSE
        BY <1>1
      <4>1. n + l + 1 \in i + 1..j
        BY <2>3
      <4> QED BY <4>1, <1>1, <1>6
    <3> DEFINE p == i - n
               q == j - n
    <3>3. p \in 0..l /\ q \in 0..l /\ p \in Nat /\ q \in Nat /\ q - p = j - i
      BY <3>1, <3>2, <2>3, <1>1
    <3>4. \A k \in 1..j - i : t[i + k] = m[p + k] /\ t[i + k] \in Bytes
      <4> TAKE k \in 1..j - i
      <4>1. p + k \in 1..l /\ n + (p + k) = i + k /\ i + k \in 1..n + l + 1
        BY <3>1, <3>2, <2>3, <1>1
      <4>2. t[n + (p + k)] = m[p + k]
        BY <4>1, <1>1
      <4> QED BY <4>1, <4>2, <1>2
    <3> HIDE DEF p, q
    <3>5. SubSeq(t, i + 1, j) = SubSeq(m, p + 1, q)
      BY <3>3, <3>4, <2>3, SameStretch
    <3>6. PieceOf(SubSeq(m, p + 1, q), more)
      BY <3>3, <1>4, Zenon
    <3> QED BY <3>5, <3>6, Zenon
  <2> QED BY <2>1, <2>2, <2>3, <1>1, <1>6
<1>7. t[Len(t)] = NUL
  BY <1>1
<1>8. StreamOf(t, more)
  BY <1>1, <1>6, <1>7 DEF StreamOf
<1> QED BY <1>8 DEF t, more

\* A stretch of what is left is a stretch of the whole.
LEMMA StretchOfRest ==
  ASSUME NEW S, NEW s, NEW k \in Nat, NEW n \in Nat, \A x \in 1..n : s[x] \in S,
         NEW i \in Nat, NEW j \in Nat, i <= j, j <= n - k
  PROVE  SubSeq(SubSeq(s, k + 1, n), i + 1, j) = SubSeq(s, (k + i) + 1, k + j)
<1> DEFINE rest == SubSeq(s, k + 1, n)
<1>1. \A x \in 1..n - k : rest[x] = s[k + x]
  <2>1. \A x \in k + 1..n : s[x] \in S
    OBVIOUS
  <2>2. \A x \in 1..n - (k + 1) + 1 : rest[x] = s[k + 1 + x - 1]
    BY <2>1, SubSeqProperties
  <2> QED BY <2>2
<1> HIDE DEF rest
<1>2. \A x \in 1..j - i : rest[i + x] = s[(k + i) + x] /\ rest[i + x] \in S
  <2> TAKE x \in 1..j - i
  <2>1. i + x \in 1..n - k /\ k + (i + x) = (k + i) + x /\ k + (i + x) \in 1..n
    OBVIOUS
  <2> QED BY <2>1, <1>1
<1>3. k + i \in Nat /\ k + j \in Nat /\ (k + j) - (k + i) = j - i
  OBVIOUS
<1>4. SubSeq(rest, i + 1, j) = SubSeq(s, (k + i) + 1, k + j)
  BY <1>2, <1>3, SameStretch
<1> QED BY <1>4 DEF rest

\* What one recv() takes, as the C string it becomes, and what it leaves.
LEMMA StreamCut ==
  ASSUME NEW s \in Seq(Bytes), NEW cmds \in Seq(Commands), StreamOf(s, cmds),
         NEW k \in 1..Len(s)
  PROVE  /\ PieceOf(CString(SubSeq(s, 1, k)), cmds)
         /\ StreamOf(SubSeq(s, k + 1, Len(s)), cmds)
<1> DEFINE n == Len(s)
<1>1. n \in Nat /\ s # <<>> /\ \A i \in 1..n : s[i] \in Bytes
  BY ElementOfSeq
<1> HIDE DEF n
<1>2. k \in 1..n
  BY DEF n
<1>3. PieceOf(CString(SubSeq(s, 1, k)), cmds)
  <2> DEFINE got == SubSeq(s, 1, k)
  <2>1. /\ got \in Seq(Bytes) /\ Len(got) = k
        /\ \A i \in 1..k : got[i] = s[i]
    <3>1. /\ SubSeq(s, 1, k) \in Seq(Bytes)
          /\ Len(SubSeq(s, 1, k)) = IF 1 <= k THEN k - 1 + 1 ELSE 0
          /\ \A i \in 1..k - 1 + 1 : SubSeq(s, 1, k)[i] = s[1 + i - 1]
      BY <1>1, <1>2, SubSeqProperties
    <3> QED BY <3>1, <1>1, <1>2
  <2>2. got # <<>>
    BY <2>1, <1>2, EmptySeq
  <2> HIDE DEF got
  <2>3. PICK e \in 0..k - 1 :
          CString(got) = SubSeq(got, 1, e) /\ \A i \in 1..e : got[i] # NUL
    BY <2>1, <2>2, CStringIsPrefix
  <2>4. e \in Nat /\ e \in 0..n /\ 0 \in 0..n /\ \A i \in 0 + 1..e : s[i] # NUL
    BY <2>1, <2>3, <1>1, <1>2
  <2>5. SubSeq(got, 0 + 1, e) = SubSeq(s, 0 + 1, e)
    <3>1. \A i \in 1..e - 0 : got[0 + i] = s[0 + i] /\ got[0 + i] \in Bytes
      BY <2>1, <2>3, <1>1, <1>2
    <3> QED BY <3>1, <2>4, SameStretch
  <2>6. PieceOf(SubSeq(s, 0 + 1, e), cmds)
    BY <2>4, <1>1 DEF StreamOf, n
  <2>7. CString(got) = SubSeq(s, 0 + 1, e)
    BY <2>3, <2>5
  <2> QED BY <2>6, <2>7 DEF got
<1>4. StreamOf(SubSeq(s, k + 1, n), cmds)
  <2> DEFINE rest == SubSeq(s, k + 1, n)
  <2>1. /\ rest \in Seq(Bytes) /\ Len(rest) = n - k
        /\ \A i \in 1..n - k : rest[i] = s[k + i]
    <3>1. /\ SubSeq(s, k + 1, n) \in Seq(Bytes)
          /\ Len(SubSeq(s, k + 1, n)) = IF k + 1 <= n THEN n - (k + 1) + 1 ELSE 0
          /\ \A i \in 1..n - (k + 1) + 1 : SubSeq(s, k + 1, n)[i] = s[k + 1 + i - 1]
      BY <1>1, <1>2, SubSeqProperties
    <3> QED BY <3>1, <1>1, <1>2
  <2> HIDE DEF rest
  <2>2. rest # <<>> => rest[n - k] = NUL
    <3> SUFFICES ASSUME rest # <<>> PROVE rest[n - k] = NUL
      OBVIOUS
    <3>1. n - k \in 1..n - k /\ k + (n - k) = n
      BY <2>1, <1>1, <1>2, EmptySeq
    <3>2. s[n] = NUL
      BY <1>1 DEF StreamOf, n
    <3> QED BY <2>1, <3>1, <3>2
  <2>3. ASSUME NEW i \in 0..n - k, NEW j \in 0..n - k, i <= j,
               \A x \in i + 1..j : rest[x] # NUL
        PROVE  PieceOf(SubSeq(rest, i + 1, j), cmds)
    <3> DEFINE p == k + i
               q == k + j
    <3>1. /\ i \in Nat /\ j \in Nat /\ p \in Nat /\ q \in Nat /\ q - p = j - i
          /\ p \in 0..n /\ q \in 0..n /\ p <= q /\ i <= j
      BY <2>3, <1>1, <1>2
    <3>2. \A x \in p + 1..q : s[x] # NUL
      <4> TAKE x \in p + 1..q
      <4>1. x - k \in i + 1..j /\ x - k \in 1..n - k /\ k + (x - k) = x
        BY <2>3, <1>1, <1>2
      <4>2. rest[x - k] = s[k + (x - k)]
        BY <4>1, <2>1
      <4> QED BY <4>1, <4>2, <2>3
    <3>3. SubSeq(rest, i + 1, j) = SubSeq(s, p + 1, q)
      BY <2>3, <1>1, <1>2, StretchOfRest DEF rest
    <3> HIDE DEF p, q
    <3>4. PieceOf(SubSeq(s, p + 1, q), cmds)
      BY <3>1, <3>2, <1>1 DEF StreamOf, n
    <3> QED BY <3>3, <3>4, Zenon
  <2>4. StreamOf(rest, cmds)
    BY <2>1, <2>2, <2>3 DEF StreamOf
  <2> QED BY <2>4 DEF rest
<1> QED BY <1>3, <1>4 DEF n

\* The part of PieceInv that is about one client.
LEMMA PiecesOfClient ==
  ASSUME PieceInv, NEW c \in Clients
  PROVE  /\ StreamOf(c2s[c], sent[c])
         /\ \A i \in DOMAIN ran[c] : ran[c][i] # NotRun => PieceOf(ran[c][i], sent[c])
  BY DEF PieceInv

LEMMA EmptyStream == \A cmds : StreamOf(<<>>, cmds)
  BY DEF StreamOf

\* Steps that neither send nor run, and at most lose what is on the way.
LEMMA PiecesKept ==
  ASSUME PieceInv, UNCHANGED <<sent, ran>>,
         \A c \in Clients : c2s'[c] \in {c2s[c], <<>>},
         spc' = "run" => spc = "run" /\ UNCHANGED <<cmd, cur>>
  PROVE  PieceInv'
<1>1. \A c \in Clients : StreamOf(c2s'[c], sent'[c])
  BY PiecesOfClient, EmptyStream
<1>2. spc' = "run" => PieceOf(cmd', sent'[cur'])
  BY DEF PieceInv
<1> QED BY <1>1, <1>2 DEF PieceInv

LEMMA SendCmdPieces ==
  ASSUME StreamInv, NEW c \in Clients, NEW m \in Commands, SendCmd(c, m)
  PROVE  PieceInv'
<1>1. /\ sent' = [sent EXCEPT ![c] = Append(@, m)]
      /\ c2s' = [c2s EXCEPT ![c] = @ \o Wire(m)] \/ UNCHANGED c2s
      /\ UNCHANGED <<spc, cmd, cur, ran>>
  BY DEF SendCmd, serverVars
<1>2. /\ c2s[c] \in Seq(Bytes) /\ sent[c] \in Seq(Commands)
      /\ sent'[c] = Append(sent[c], m)
      /\ c2s'[c] = c2s[c] \o Wire(m) \/ UNCHANGED c2s
      /\ \A d \in Clients \ {c} : sent'[d] = sent[d] /\ c2s'[d] = c2s[d]
      /\ spc = "run" => cur \in Clients
  BY <1>1, ClientsAssumption DEF StreamInv, BaseInv, TypeOK, Serving, Bytes
<1>3. \A d \in Clients : \A str : PieceOf(str, sent[d]) => PieceOf(str, sent'[d])
  BY <1>2, PieceGrows
<1>4. StreamOf(c2s[c], sent[c])
  BY PiecesOfClient DEF StreamInv
<1>5. StreamOf(c2s'[c], sent'[c])
  <2>1. CASE c2s'[c] = c2s[c] \o Wire(m)
    BY <2>1, <1>2, <1>4, StreamGrows
  <2>2. CASE UNCHANGED c2s
    <3>1. \A str : PieceOf(str, sent[c]) => PieceOf(str, sent'[c])
      BY <1>3
    <3> QED BY <2>2, <3>1, <1>4 DEF StreamOf
  <2> QED BY <2>1, <2>2, <1>2
<1>6. \A d \in Clients : StreamOf(c2s'[d], sent'[d])
  BY <1>2, <1>5, PiecesOfClient DEF StreamInv
<1>7. \A d \in Clients : \A i \in DOMAIN ran'[d] :
        ran'[d][i] # NotRun => PieceOf(ran'[d][i], sent'[d])
  BY <1>1, <1>3, PiecesOfClient DEF StreamInv
<1>8. spc' = "run" => PieceOf(cmd', sent'[cur'])
  BY <1>1, <1>2, <1>3 DEF StreamInv, PieceInv
<1> QED BY <1>6, <1>7, <1>8 DEF PieceInv

LEMMA ServerRecvPieces ==
  ASSUME StreamInv, ServerRecv
  PROVE  PieceInv'
<1>1. PICK k \in 1..Len(c2s[cur]) :
        /\ c2s' = [c2s EXCEPT ![cur] = SubSeq(@, k + 1, Len(@))]
        /\ \/ LeaveClient
           \/ cmd' = CString(SubSeq(c2s[cur], 1, k)) /\ UNCHANGED cur
  BY ServerRecvTakes DEF StreamInv
<1>2. cur \in Clients /\ UNCHANGED <<sent, ran>>
  BY ServerRecvTakes DEF StreamInv, ServerRecv
<1>3. c2s[cur] \in Seq(Bytes) /\ sent[cur] \in Seq(Commands)
  BY <1>2 DEF StreamInv, BaseInv, TypeOK, Bytes
<1>4. StreamOf(c2s[cur], sent[cur])
  BY <1>2, PiecesOfClient DEF StreamInv
<1>5. /\ PieceOf(CString(SubSeq(c2s[cur], 1, k)), sent[cur])
      /\ StreamOf(SubSeq(c2s[cur], k + 1, Len(c2s[cur])), sent[cur])
  BY <1>3, <1>4, StreamCut
<1>6. /\ c2s'[cur] = SubSeq(c2s[cur], k + 1, Len(c2s[cur]))
      /\ \A d \in Clients \ {cur} : c2s'[d] = c2s[d]
  BY <1>1, <1>2 DEF StreamInv, BaseInv, TypeOK
<1>7. \A d \in Clients : StreamOf(c2s'[d], sent'[d])
  BY <1>2, <1>5, <1>6, PiecesOfClient DEF StreamInv
<1>8. spc' = "run" => PieceOf(cmd', sent'[cur'])
  BY <1>1, <1>2, <1>5 DEF LeaveClient
<1> QED BY <1>2, <1>7, <1>8 DEF StreamInv, PieceInv

LEMMA RunCmdPieces ==
  ASSUME StreamInv, RunCmd
  PROVE  PieceInv'
<1>1. PICK r \in {cmd, NotRun} : ran' = [ran EXCEPT ![cur] = Append(@, r)]
  BY DEF RunCmd
<1>2. spc = "run" /\ spc' = "send" /\ UNCHANGED <<sent, c2s>>
  BY DEF RunCmd
<1>3. cur \in Clients /\ PieceOf(cmd, sent[cur])
  BY <1>2, ClientsAssumption DEF StreamInv, PieceInv, BaseInv, TypeOK, Serving
<1>4. /\ \A i \in DOMAIN ran'[cur] : ran'[cur][i] = r \/ (i \in DOMAIN ran[cur] /\ ran'[cur][i] = ran[cur][i])
      /\ \A d \in Clients \ {cur} : ran'[d] = ran[d]
  <2>1. ran[cur] \in Seq(Seq(Letters) \cup {NotRun}) /\ r \in Seq(Letters) \cup {NotRun}
    BY <1>3 DEF StreamInv, BaseInv, TypeOK
  <2>2. ran'[cur] = Append(ran[cur], r) /\ \A d \in Clients \ {cur} : ran'[d] = ran[d]
    BY <1>1, <1>3 DEF StreamInv, BaseInv, TypeOK
  <2>3. /\ DOMAIN ran'[cur] = 1..Len(ran[cur]) + 1 /\ Len(ran[cur]) \in Nat
        /\ DOMAIN ran[cur] = 1..Len(ran[cur])
    BY <2>1, <2>2
  <2>4. \A i \in 1..Len(ran[cur]) + 1 : i \in 1..Len(ran[cur]) \/ i = Len(ran[cur]) + 1
    BY <2>3
  <2> QED BY <2>1, <2>2, <2>3, <2>4, AppendProperties
<1>5. \A d \in Clients : \A i \in DOMAIN ran'[d] :
        ran'[d][i] # NotRun => PieceOf(ran'[d][i], sent'[d])
  <2> SUFFICES ASSUME NEW d \in Clients, NEW i \in DOMAIN ran'[d], ran'[d][i] # NotRun
               PROVE  PieceOf(ran'[d][i], sent'[d])
    OBVIOUS
  <2>1. CASE d = cur
    BY <2>1, <1>1, <1>2, <1>3, <1>4, PiecesOfClient DEF StreamInv
  <2>2. CASE d # cur
    BY <2>2, <1>2, <1>4, PiecesOfClient DEF StreamInv
  <2> QED BY <2>1, <2>2
<1> QED BY <1>2, <1>5 DEF StreamInv, PieceInv

LEMMA NextPieces ==
  ASSUME StreamInv, [Next]_vars
  PROVE  StreamInv'
<1>1. BaseInv'
  BY NextBase DEF StreamInv
<1>2. PieceInv'
  <2>1. CASE ServerRecv
    BY <2>1, ServerRecvPieces
  <2>2. CASE RunCmd
    BY <2>2, RunCmdPieces
  <2>3. ASSUME NEW c \in Clients, NEW m \in Commands, SendCmd(c, m)
        PROVE  PieceInv'
    BY <2>3, SendCmdPieces
  <2>4. ASSUME NEW how, ServerEnds(how), how \in {"down", "sigpipe"}
        PROVE  PieceInv'
    BY <2>4, PiecesKept DEF StreamInv, ServerEnds
  <2>5. CASE \/ Boot \/ Accept \/ ServerRecvEnd
             \/ SendEof /\ ~ServerEnds("sigpipe")
    <3>1. UNCHANGED <<sent, ran, c2s>> /\ spc' # "run"
      BY <2>5 DEF Boot, Accept, ServerRecvEnd, LeaveClient, SendEof, SendByte
    <3> QED BY <3>1, PiecesKept DEF StreamInv
  <2>6. ASSUME NEW c \in Clients,
               \/ Connect(c) \/ ConnectFails(c) \/ SendFails(c) \/ InputEnds(c)
               \/ RecvData(c) \/ RecvNothing(c) \/ KillClient(c)
        PROVE  PieceInv'
    <3>1. UNCHANGED <<sent, ran, c2s, spc, cmd, cur>>
      BY <2>6 DEF Connect, ConnectFails, SendFails, InputEnds, RecvData,
                  RecvNothing, KillClient, ClientEnds, serverVars
    <3> QED BY <3>1, PiecesKept DEF StreamInv
  <2>7. CASE UNCHANGED vars
    BY <2>7, PiecesKept DEF StreamInv, vars
  <2>8. CASE \E c \in Clients : ClientStep(c) \/ KillClient(c)
    BY <2>3, <2>6, <2>8 DEF ClientStep
  <2>9. CASE BootFails \/ AcceptFails \/ Crash \/ ServerEnds("sigpipe")
    BY <2>4, <2>9 DEF BootFails, AcceptFails, Crash
  <2> QED
    BY <2>1, <2>2, <2>5, <2>7, <2>8, <2>9 DEF Next, ServerStep
<1> QED BY <1>1, <1>2 DEF StreamInv

\* However TCP cuts the stream, each string that the server gives to system()
\* is a piece of one command of its client: two commands are never run as one.
THEOREM NoTwoCommandsAsOne == Spec => []NeverMixesCommands
<1>1. Init => StreamInv
  <2>1. Init => PieceInv
    BY EmptyStream DEF Init, PieceInv
  <2> QED BY <2>1, InitBase DEF StreamInv
<1>2. StreamInv /\ [Next]_vars => StreamInv'
  BY NextPieces
<1>3. StreamInv => NeverMixesCommands
  BY PieceInvMeans DEF StreamInv
<1> QED
  BY <1>1, <1>2, <1>3, PTL DEF Spec

-----------------------------------------------------------------------------
(***************************************************************************)
(* The two programs implement the service.                                 *)
(***************************************************************************)
\* What a step of one client is to its user.
LEMMA UserStep ==
  ASSUME TypeOK, NEW c \in Clients, NEW how, cpc' = [cpc EXCEPT ![c] = how]
  PROVE  UserStates' = [UserStates EXCEPT ![c] =
           CASE how = "start"  -> "new"
             [] how = "prompt" -> "ready"
             [] how = "recv"   -> "asking"
             [] OTHER          -> "left"]
  BY DEF TypeOK, UserStates, UserState

LEMMA UsersKept ==
  ASSUME UNCHANGED cpc
  PROVE  UNCHANGED UserStates
  BY DEF UserStates, UserState

LEMMA ServerKept ==
  ASSUME UNCHANGED spc
  PROVE  UNCHANGED ServerState
  BY DEF ServerState, Listening

LEMMA StateFacts ==
  ASSUME TypeOK, NEW c \in Clients
  PROVE  /\ UserStates[c] = "new"    <=> cpc[c] = "start"
         /\ UserStates[c] = "ready"  <=> cpc[c] = "prompt"
         /\ UserStates[c] = "asking" <=> cpc[c] = "recv"
         /\ UserStates[c] = "left"   <=> cpc[c] \in {"ok", "failed", "killed"}
  BY DEF TypeOK, UserStates, UserState

LEMMA InitService == Init => Service!Init
  BY DEF Init, Service!Init, ServerState, UserStates, UserState

LEMMA ClientService ==
  ASSUME ~Segmented, IInv, NEW c \in Clients, ClientStep(c) \/ KillClient(c)
  PROVE  Service!Next
<1> TypeOK
  BY DEF IInv, BaseInv
<1>1. CASE Connect(c)
  <2>1. Service!Join(c)
    BY <1>1, UserStep, StateFacts, ServerKept
    DEF Connect, Service!Join, Service!Become, ServerState, Listening, Gone
  <2> QED BY <2>1 DEF Service!Next
<1>2. ASSUME NEW m \in Commands, SendCmd(c, m)
      PROVE  Service!Next
  <2>1. Service!Ask(c, m)
    BY <1>2, UserStep, StateFacts, ServerKept
    DEF SendCmd, serverVars, Service!Ask, Service!Become
  <2> QED BY <2>1 DEF Service!Next
<1>3. ASSUME NEW how \in {"ok", "failed", "killed"}, ClientEnds(c, how),
             cpc[c] \in {"start", "prompt", "recv"}
      PROVE  Service!Next
  <2>1. Service!Leave(c)
    BY <1>3, UserStep, StateFacts, ServerKept
    DEF ClientEnds, serverVars, Service!Leave, Service!Become
  <2> QED BY <2>1 DEF Service!Next
<1>4. CASE ConnectFails(c) \/ SendFails(c) \/ InputEnds(c) \/ KillClient(c)
  BY <1>3, <1>4 DEF ConnectFails, SendFails, InputEnds, KillClient
<1>5. CASE RecvData(c) \/ RecvNothing(c)
  <2>1. /\ cpc[c] = "recv" /\ cpc' = [cpc EXCEPT ![c] = "prompt"]
        /\ UNCHANGED <<spc, cur, fds, sent, ran>>
    BY <1>5 DEF RecvData, RecvNothing, serverVars
  <2>2. Service!Done(c) \/ ServerState = "down"
    <3>1. spc # "boot"
      BY <2>1 DEF IInv, BaseInv, Links, Link
    <3>2. CASE Listening
      <4>1. s2c[c] \in Nat /\ s2c[c] # 0
        BY <3>2, <1>5 DEF RecvData, RecvNothing, Received,
                          IInv, BaseInv, TypeOK, Links, Link, Listening, Gone
      <4>2. Answered(c)
        BY <3>2, <4>1, PhaseFacts
        DEF Phase, Idle, AtRest, OnTheWay, Dismissed, Running, Answering, Empty
      <4> QED BY <4>2 DEF Answered, AllDone, Service!Done
    <3>3. CASE ~Listening
      BY <3>1, <3>3 DEF ServerState
    <3> QED BY <3>2, <3>3
  <2>3. Service!Answer(c)
    BY <2>1, <2>2, UserStep, StateFacts, ServerKept
    DEF Service!Answer, Service!Become, Service!Ending
  <2> QED BY <2>3 DEF Service!Next
<1> QED
  BY <1>1, <1>2, <1>4, <1>5 DEF ClientStep

\* The steps of the server that its users do not see.
LEMMA ServerStutters ==
  ASSUME spc \notin Gone, spc' \notin Gone, UNCHANGED <<cur, fds, cpc, sent, ran>>
  PROVE  UNCHANGED Service!serviceVars
  BY UsersKept DEF Service!serviceVars, ServerState, Listening, Gone

LEMMA ServerService ==
  ASSUME ~Segmented, IInv, ServerStep \/ BootFails \/ Crash
  PROVE  [Service!Next]_(Service!serviceVars)
<1> TypeOK
  BY DEF IInv, BaseInv
<1>1. CASE Boot \/ BootFails
  <2>1. cur = NoClient /\ fds = {}
    BY <1>1 DEF Boot, BootFails, IInv, BaseInv, Serving, Listening, Gone
  <2>2. Service!Start
    BY <1>1, <2>1, UsersKept
    DEF Boot, BootFails, ServerEnds, Service!Start, ServerState, Listening, Gone
  <2> QED BY <2>2 DEF Service!Next
<1>2. CASE AcceptFails \/ Crash
  <2>1. spc \notin Gone /\ ServerEnds("down")
    BY <1>2 DEF AcceptFails, Crash, Listening, Gone
  <2>2. Service!Stop
    BY <2>1, UsersKept DEF ServerEnds, Service!Stop, ServerState, Listening, Gone
  <2> QED BY <2>2 DEF Service!Next
<1>3. CASE Accept
  <2>1. queue \in Seq(Clients) /\ queue # <<>>
    BY <1>3 DEF Accept, TypeOK
  <2>2. PICK h \in Clients : h = Head(queue) /\ h = queue[1] /\ 1 \in DOMAIN queue
    BY <2>1
  <2>3. h \notin fds /\ cur = NoClient /\ cpc[h] # "start"
    BY <1>3, <2>2 DEF IInv, BaseInv, Waiting, Serving, Links, Link, Accept
  <2>4. Service!Admit(h)
    BY <1>3, <2>2, <2>3, UsersKept, StateFacts
    DEF Accept, Service!Admit, ServerState, Listening, Gone
  <2> QED BY <2>4 DEF Service!Next
<1>4. CASE ServerRecv
  <2>1. PICK c \in Clients : c = cur
    BY <1>4, WholeCommand
  <2>2. /\ spc = "recv" /\ OnTheWay(c)
        /\ \/ LastSent(c) = Exit /\ LeaveClient
           \/ spc' = "run" /\ UNCHANGED cur
        /\ UNCHANGED <<fds, cpc, sent, ran>>
    BY <1>4, <2>1, WholeCommand DEF OnTheWay, OneOpen, Waits, LastSent
  <2>3. CASE LastSent(c) = Exit /\ LeaveClient
    <3>1. ~Service!Done(c) /\ Service!NextCmd(c) = Exit
      <4>1. Len(ran[c]) \in Nat
        BY DEF TypeOK
      <4> QED BY <4>1, <2>2, <2>3
              DEF OnTheWay, OneOpen, LastSent, Service!Done, Service!NextCmd
    <3>2. Service!Dismiss(c)
      BY <2>1, <2>2, <2>3, <3>1, UsersKept
      DEF Service!Dismiss, LeaveClient, ServerState, Listening, Gone
    <3> QED BY <3>2 DEF Service!Next
  <2>4. CASE spc' = "run" /\ UNCHANGED cur
    BY <2>2, <2>4, ServerStutters DEF Gone
  <2> QED BY <2>2, <2>3, <2>4
<1>5. CASE ServerRecvEnd
  <2>1. PICK c \in Clients : c = cur
    BY <1>5, ClientsAssumption DEF ServerRecvEnd, TypeOK, IInv, BaseInv, Serving
  <2>2. /\ spc = "recv" /\ c2s[c] = <<>> /\ conn[c] \in {"cfin", "crst"}
        /\ cur' = NoClient /\ spc' = "accept" /\ UNCHANGED <<fds, cpc, sent, ran>>
    BY <1>5, <2>1 DEF ServerRecvEnd, LeaveClient
  <2>3. cpc[c] \in {"ok", "killed"}
    BY <2>2 DEF IInv, BaseInv, Links, Link
  <2>4. Service!Done(c)
    <3>1. Idle(c) /\ ~Dismissed(c)
      BY <2>1, <2>2 DEF IInv, Exchange, Phase, Dismissed, Listening, Gone
    <3>2. ~OnTheWay(c)
      <4> SUFFICES ASSUME OnTheWay(c) PROVE FALSE
        OBVIOUS
      <4>1. LastSent(c) \in Commands
        BY DEF TypeOK, OnTheWay, OneOpen, LastSent
      <4> QED BY <4>1, <2>2, CStringOfWire DEF OnTheWay
    <3> QED BY <3>1, <3>2 DEF Idle, AtRest, Answered, AllDone, Service!Done
  <2>5. Service!Dismiss(c)
    BY <2>1, <2>2, <2>3, <2>4, UsersKept, StateFacts
    DEF Service!Dismiss, ServerState, Listening, Gone
  <2> QED BY <2>5 DEF Service!Next
<1>6. CASE RunCmd
  <2>1. PICK c \in Clients, r \in {LastSent(cur), NotRun} :
          /\ c = cur /\ Running(c) /\ spc = "run" /\ spc' = "send"
          /\ r = NotRun => "fork" \in Faults
          /\ ran' = [ran EXCEPT ![c] = Append(@, r)]
          /\ UNCHANGED <<cur, cmd, queue, fds, cpc, conn, c2s, s2c, sent>>
    BY <1>6, RunsLast
  <2>2. ~Service!Done(c) /\ Service!NextCmd(c) = LastSent(c) /\ LastSent(c) # Exit
    <3>1. Len(ran[c]) \in Nat
      BY DEF TypeOK
    <3> QED BY <3>1, <2>1 DEF Running, OneOpen, LastSent, Service!Done, Service!NextCmd
  <2>3. Service!Execute(c)
    <3>1. r \in {Service!NextCmd(c)} \cup (IF "fork" \in Faults THEN {NotRun} ELSE {})
      BY <2>1, <2>2
    <3>2. UNCHANGED <<ServerState, UserStates>>
      BY <2>1, UsersKept DEF ServerState, Listening, Gone
    <3> QED BY <2>1, <2>2, <3>1, <3>2 DEF Service!Execute, Service!Ending
  <2> QED BY <2>3 DEF Service!Next
<1>7. CASE SendEof
  <2>1. spc = "send" /\ spc' = "recv" /\ UNCHANGED <<cur, fds, cpc, sent, ran>>
    BY <1>7, AnswerGoesOut
  <2> QED BY <2>1, ServerStutters DEF Gone
<1> QED
  BY <1>1, <1>2, <1>3, <1>4, <1>5, <1>6, <1>7 DEF ServerStep

\* As long as TCP delivers each command in one piece (~Segmented), the two programs
\* implement the service, whose ending commands neither of them honours: a prompt
\* comes back when the command was dealt with or the server is gone, and clients
\* are served one after the other, each to its end.
THEOREM Implements == ~Segmented => (Spec => ImplementsService)
<1> SUFFICES ASSUME ~Segmented PROVE Spec => Service!Spec
  BY DEF ImplementsService
<1>1. Init => IInv /\ Service!Init
  BY InitIInv, InitService
<1>2. IInv /\ [Next]_vars => IInv'
  BY NextIInv
<1>3. IInv /\ [Next]_vars => [Service!Next]_(Service!serviceVars)
  <2> SUFFICES ASSUME IInv, [Next]_vars
               PROVE  [Service!Next]_(Service!serviceVars)
    OBVIOUS
  <2>1. CASE \E c \in Clients : ClientStep(c) \/ KillClient(c)
    BY <2>1, ClientService
  <2>2. CASE ServerStep \/ BootFails \/ Crash
    BY <2>2, ServerService
  <2>3. CASE UNCHANGED vars
    BY <2>3, UsersKept, ServerKept DEF vars, Service!serviceVars
  <2> QED BY <2>1, <2>2, <2>3 DEF Next
<1> QED
  BY <1>1, <1>2, <1>3, PTL DEF Spec, Service!Spec

=============================================================================
