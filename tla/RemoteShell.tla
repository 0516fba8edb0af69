---------------------------- MODULE RemoteShell ----------------------------
(***************************************************************************)
(* The remote shell of RShell: clients (rsh_cli.c) that send commands over *)
(* TCP to a server (rsh_server.c) that runs them with system(), one client *)
(* after the other, and answers each with the byte RDSH_EOF_CHAR.          *)
(*                                                                         *)
(* A command is a short sequence of letters, on the wire followed by NUL.  *)
(* What the server sends is only EOF bytes, so s2c counts them.  The two   *)
(* ends of a connection are as the sockets API shows them: a peer that is  *)
(* gone is first an orderly end (fin) and, once something is sent to it, a *)
(* reset (rst), after which a send fails or raises SIGPIPE.                *)
(***************************************************************************)
EXTENDS Integers, Sequences, FiniteSets

CONSTANTS Clients,    \* the client processes, each with one connection
          Commands,   \* the lines that users type, without their newline
          Exit,       \* "exit"
          StopServer, \* "stop-server"
          NUL,        \* the byte that ends a command
          NoClient,   \* the server is serving nobody
          NotRun,     \* in ran, a command that system() could not start
          Segmented,  \* whether TCP may deliver a command in pieces
          Backlog,    \* of listen(svr_socket, 20)
          MaxFds,     \* descriptors the server may hold for its clients
          MaxCmds,    \* commands that a user types before the input ends
          Faults      \* what may go wrong: see FaultKinds

FaultKinds == {"boot", "connect", "malloc", "fork", "kill", "crash"}

Letters == UNION {{m[i] : i \in DOMAIN m} : m \in Commands}

ASSUME CommandsAssumption ==
  /\ {Exit, StopServer} \subseteq Commands
  /\ \A m \in Commands : m \in Seq(Letters)
  /\ NUL \notin Letters
ASSUME ClientsAssumption == NoClient \notin Clients /\ NotRun \notin Seq(Letters)
ASSUME BoundsAssumption ==
  Backlog \in Nat /\ MaxFds \in Nat /\ MaxCmds \in Nat
ASSUME ModesAssumption == Segmented \in BOOLEAN /\ Faults \subseteq FaultKinds

VARIABLES spc,    \* where the server is
          cur,    \* the client of cli_socket in exec_client_requests()
          cmd,    \* the string in io_buff
          queue,  \* connections that wait in the listen queue
          fds,    \* clients whose cli_socket the server holds open
          cpc,    \* where each client is
          conn,   \* state of each connection
          c2s,    \* bytes sent by a client and not received yet
          s2c,    \* EOF bytes sent to a client and not received yet
          sent,   \* history: commands each client sent
          ran     \* history: strings the server gave to system() for each client

serverVars == <<spc, cur, cmd, queue, fds>>
vars == <<spc, cur, cmd, queue, fds, cpc, conn, c2s, s2c, sent, ran>>

Gone      == {"boot", "down", "sigpipe"}
Listening == spc \notin Gone

TypeOK ==
  /\ spc \in Gone \cup {"accept", "recv", "run", "send"}
  /\ cur \in Clients \cup {NoClient}
  /\ cmd \in Seq(Letters)
  /\ queue \in Seq(Clients) /\ Len(queue) <= Backlog + 1
  /\ fds \subseteq Clients /\ Cardinality(fds) <= MaxFds
  /\ cpc \in [Clients -> {"start", "prompt", "recv", "ok", "failed", "killed"}]
  /\ conn \in [Clients -> {"none", "up", "sfin", "srst", "cfin", "crst"}]
  /\ c2s \in [Clients -> Seq(Letters \cup {NUL})]
  /\ s2c \in [Clients -> Nat]
  /\ sent \in [Clients -> Seq(Commands)]
  /\ ran \in [Clients -> Seq(Seq(Letters) \cup {NotRun})]

Init ==
  /\ spc = "boot" /\ cur = NoClient /\ cmd = <<>> /\ queue = <<>> /\ fds = {}
  /\ cpc = [c \in Clients |-> "start"]
  /\ conn = [c \in Clients |-> "none"]
  /\ c2s = [c \in Clients |-> <<>>]
  /\ s2c = [c \in Clients |-> 0]
  /\ sent = [c \in Clients |-> <<>>]
  /\ ran = [c \in Clients |-> <<>>]

-----------------------------------------------------------------------------
(***************************************************************************)
(* The byte stream.                                                        *)
(***************************************************************************)
\* Mutant: send() of strlen() bytes, without the terminator.
Wire_NoNul(m) == m

\* send(cli_socket, cmd_buff, strlen(cmd_buff) + 1, 0)
Wire(m) == Append(m, NUL)

\* How many of n pending bytes one recv() returns.
Received(n) == IF Segmented THEN 1..n ELSE {n} \ {0}

\* io_buff[received - 1] = '\0', and the C string at io_buff.
CString(bytes) ==
  LET ended == [bytes EXCEPT ![Len(bytes)] = NUL]
      len   == CHOOSE i \in 1..Len(bytes) : /\ ended[i] = NUL
                                            /\ \A j \in 1..i - 1 : ended[j] # NUL
  IN  SubSeq(ended, 1, len - 1)

-----------------------------------------------------------------------------
(***************************************************************************)
(* The client: exec_remote_cmd_loop().                                     *)
(***************************************************************************)
\* A process that ends closes its socket; unread bytes make that a reset.
ClientEnds(c, how) ==
  /\ cpc' = [cpc EXCEPT ![c] = how]
  /\ conn' = [conn EXCEPT ![c] = IF @ # "up" THEN @
                                 ELSE IF s2c[c] > 0 THEN "crst" ELSE "cfin"]
  /\ UNCHANGED <<serverVars, c2s, s2c, sent, ran>>

\* Mutant: the listen queue has no limit.
HasRoom_Always == TRUE

\* The listen queue takes one connection more than its backlog.
HasRoom == Len(queue) <= Backlog

\* start_client(): the kernel completes the connection, accepted or not.
Connect(c) ==
  /\ cpc[c] = "start"
  /\ Listening /\ HasRoom
  /\ cpc' = [cpc EXCEPT ![c] = "prompt"]
  /\ conn' = [conn EXCEPT ![c] = "up"]
  /\ queue' = Append(queue, c)
  /\ UNCHANGED <<spc, cur, cmd, fds, c2s, s2c, sent, ran>>

\* Nobody listens, the queue stays full, or malloc() or socket() failed.
ConnectFails(c) ==
  /\ cpc[c] = "start"
  /\ ~Listening \/ ~HasRoom \/ "connect" \in Faults
  /\ ClientEnds(c, "failed")

\* Mutant: the client does not wait for the answer.
SendCmd_NoWait(c, m) ==
  /\ cpc[c] = "prompt" /\ conn[c] = "up"
  /\ Len(sent[c]) < MaxCmds
  /\ sent' = [sent EXCEPT ![c] = Append(@, m)]
  /\ c2s' = [c2s EXCEPT ![c] = @ \o Wire(m)]
  /\ UNCHANGED <<serverVars, cpc, conn, s2c, ran>>

\* fgets() and send(): "exit" is a command like any other.  To a server that
\* is gone the first send() succeeds, and is answered by a reset.
SendCmd(c, m) ==
  /\ cpc[c] = "prompt" /\ conn[c] \in {"up", "sfin"}
  /\ Len(sent[c]) < MaxCmds
  /\ cpc' = [cpc EXCEPT ![c] = "recv"]
  /\ sent' = [sent EXCEPT ![c] = Append(@, m)]
  /\ IF conn[c] = "up"
     THEN c2s' = [c2s EXCEPT ![c] = @ \o Wire(m)] /\ UNCHANGED conn
     ELSE conn' = [conn EXCEPT ![c] = "srst"] /\ UNCHANGED c2s
  /\ UNCHANGED <<serverVars, s2c, ran>>

\* send() on a reset connection: it returns -1 and the loop is left with OK,
\* or SIGPIPE ends the process.
SendFails(c) ==
  /\ cpc[c] = "prompt" /\ conn[c] = "srst"
  /\ \E how \in {"ok", "killed"} : ClientEnds(c, how)

\* fgets() returned NULL.
InputEnds(c) == cpc[c] = "prompt" /\ ClientEnds(c, "ok")

\* recv() returned data: its last byte is always EOF.
RecvData(c) ==
  /\ cpc[c] = "recv"
  /\ \E k \in Received(s2c[c]) : s2c' = [s2c EXCEPT ![c] = @ - k]
  /\ cpc' = [cpc EXCEPT ![c] = "prompt"]
  /\ UNCHANGED <<serverVars, conn, c2s, sent, ran>>

\* Mutant: recv() does not wait.
RecvNothing_NoWait(c) ==
  /\ cpc[c] = "recv" /\ s2c[c] = 0
  /\ cpc' = [cpc EXCEPT ![c] = "prompt"]
  /\ UNCHANGED <<serverVars, conn, c2s, s2c, sent, ran>>

\* recv() returned 0 or -1: the client prints its buffer and prompts again.
RecvNothing(c) ==
  /\ cpc[c] = "recv" /\ s2c[c] = 0 /\ conn[c] \in {"sfin", "srst"}
  /\ cpc' = [cpc EXCEPT ![c] = "prompt"]
  /\ UNCHANGED <<serverVars, conn, c2s, s2c, sent, ran>>

\* A signal ends the client at its prompt or while it waits.
KillClient(c) ==
  /\ "kill" \in Faults
  /\ cpc[c] \in {"prompt", "recv"}
  /\ ClientEnds(c, "killed")

ClientStep(c) ==
  \/ Connect(c) \/ ConnectFails(c)
  \/ \E m \in Commands : SendCmd(c, m)
  \/ SendFails(c) \/ InputEnds(c) \/ RecvData(c) \/ RecvNothing(c)

-----------------------------------------------------------------------------
(***************************************************************************)
(* The server: start_server() and what it calls.                           *)
(***************************************************************************)
\* The process ends and the kernel closes its sockets: a peer with unread data
\* or that was never accepted is reset.
ServerEnds(how) ==
  /\ spc' = how
  /\ cur' = NoClient /\ cmd' = <<>> /\ queue' = <<>> /\ fds' = {}
  /\ conn' = [c \in Clients |->
                IF conn[c] # "up" THEN conn[c]
                ELSE IF c \in fds /\ c2s[c] = <<>> THEN "sfin" ELSE "srst"]
  /\ c2s' = [c \in Clients |-> <<>>]
  /\ UNCHANGED <<cpc, s2c, sent, ran>>

Boot ==
  /\ spc = "boot"
  /\ spc' = "accept"
  /\ UNCHANGED <<cur, cmd, queue, fds, cpc, conn, c2s, s2c, sent, ran>>

BootFails == "boot" \in Faults /\ spc = "boot" /\ ServerEnds("down")

HasFd == Cardinality(fds) < MaxFds

\* accept(), then exec_client_requests() up to its loop; without its buffer it
\* returns at once.
Accept ==
  /\ spc = "accept" /\ queue # <<>> /\ HasFd
  /\ fds' = fds \cup {Head(queue)}
  /\ queue' = Tail(queue)
  /\ \/ spc' = "recv" /\ cur' = Head(queue)
     \/ "malloc" \in Faults /\ UNCHANGED <<spc, cur>>
  /\ UNCHANGED <<cmd, cpc, conn, c2s, s2c, sent, ran>>

\* accept() wants a descriptor before it looks at the queue: without one it
\* returns -1, and process_cli_requests() and main() return.
AcceptFails == spc = "accept" /\ ~HasFd /\ ServerEnds("down")

\* The break of exec_client_requests(): cli_socket is not closed.
LeaveClient == spc' = "accept" /\ cur' = NoClient /\ cmd' = <<>>

\* recv() returned data.
ServerRecv ==
  /\ spc = "recv"
  /\ \E k \in Received(Len(c2s[cur])) :
       LET str == CString(SubSeq(c2s[cur], 1, k)) IN
         /\ c2s' = [c2s EXCEPT ![cur] = SubSeq(@, k + 1, Len(@))]
         /\ IF str = Exit THEN LeaveClient
            ELSE spc' = "run" /\ cmd' = str /\ UNCHANGED cur
  /\ UNCHANGED <<queue, fds, cpc, conn, s2c, sent, ran>>

\* Mutant: the loop goes on after a failed recv().
ServerRecvEnd_Ignored ==
  /\ spc = "recv" /\ c2s[cur] = <<>> /\ conn[cur] \in {"cfin", "crst"}
  /\ UNCHANGED vars

\* recv() returned 0 or -1.
ServerRecvEnd ==
  /\ spc = "recv" /\ c2s[cur] = <<>> /\ conn[cur] \in {"cfin", "crst"}
  /\ LeaveClient
  /\ UNCHANGED <<queue, fds, cpc, conn, c2s, s2c, sent, ran>>

\* system(io_buff): the value it returns is not looked at.
RunCmd ==
  /\ spc = "run"
  /\ spc' = "send"
  /\ \/ ran' = [ran EXCEPT ![cur] = Append(@, cmd)]
     \/ "fork" \in Faults /\ ran' = [ran EXCEPT ![cur] = Append(@, NotRun)]
  /\ UNCHANGED <<cur, cmd, queue, fds, cpc, conn, c2s, s2c, sent>>

\* send() of one byte: to a client that is gone it succeeds and is answered by
\* a reset; once that has come it raises SIGPIPE.
SendByte(next) ==
  \/ /\ spc' = next /\ cmd' = <<>>
     /\ s2c' = IF conn[cur] = "up" THEN [s2c EXCEPT ![cur] = @ + 1] ELSE s2c
     /\ conn' = IF conn[cur] = "cfin" THEN [conn EXCEPT ![cur] = "crst"] ELSE conn
     /\ UNCHANGED <<cur, queue, fds, cpc, c2s, sent, ran>>
  \/ conn[cur] = "crst" /\ ServerEnds("sigpipe")

\* Mutants: the answer goes out in several send() calls, as send_message_string()
\* does it.
SendEof_Twice == spc = "send" /\ \E next \in {"send", "recv"} : SendByte(next)

\* send_message_eof(): its return value is not looked at.
SendEof == spc = "send" /\ SendByte("recv")

ServerStep ==
  \/ Boot \/ Accept \/ AcceptFails \/ ServerRecv \/ ServerRecvEnd
  \/ RunCmd \/ SendEof

\* The server is killed.
Crash == "crash" \in Faults /\ Listening /\ ServerEnds("down")

-----------------------------------------------------------------------------

Next ==
  \/ \E c \in Clients : ClientStep(c) \/ KillClient(c)
  \/ ServerStep \/ BootFails \/ Crash

Spec == Init /\ [][Next]_vars

\* Users type on or end their input, system() returns, the kernel delivers.
Fairness == WF_vars(ServerStep) /\ \A c \in Clients : WF_vars(ClientStep(c))

FairSpec == Spec /\ Fairness
-----------------------------------------------------------------------------
(***************************************************************************)
(* Properties.                                                             *)
(***************************************************************************)
LastSent(c) == sent[c][Len(sent[c])]

\* When a client that still has its server is back at its prompt, the server
\* has dealt with everything it sent and nothing is on the way: RDSH_EOF_CHAR
\* marks the end of an answer only as long as each end waits for the other
\* (rshlib.h:24-30), even when system() fails.
Lockstep ==
  \A c \in Clients : cpc[c] = "prompt" /\ conn[c] = "up"
    => Len(ran[c]) = Len(sent[c]) /\ c2s[c] = <<>> /\ s2c[c] = 0

\* What the server ran for a client is what it sent, each command once and in
\* order, but for those that system() could not start, whoever is killed at
\* any moment (questions.md:7).
RunsWhatWasSent ==
  \A c \in Clients :
    /\ Len(ran[c]) <= Len(sent[c])
    /\ \A k \in DOMAIN ran[c] : ran[c][k] \in {sent[c][k], NotRun}

\* A client that is killed, even while the server runs its command, does not
\* take the server with it: the loop notices before it sends a second byte.
ServerSurvivesClients == spc # "sigpipe"

\* However TCP cuts the stream, a string that the server runs is a piece of
\* one command: bytes of two commands are never run as one, since the NUL of
\* the first ends the string.
NeverMixesCommands ==
  \A c \in Clients : \A i \in {n \in DOMAIN ran[c] : ran[c][n] # NotRun} :
    \E j \in 1..Len(sent[c]) : \E a \in 0..Len(sent[c][j]) :
      \E b \in 0..Len(sent[c][j]) : ran[c][i] = SubSeq(sent[c][j], a + 1, b)

\* The server had no memory for this client, and has forgotten it.
TurnedAway(c) == c \in fds \ {cur} /\ ran[c] = <<>>

\* Every command but "exit" is answered, or the client learns that the server
\* is gone: a client that waits in the queue behind others is not forgotten,
\* and one that the server does forget was not served before.
CommandsAnswered ==
  \A c \in Clients :
    cpc[c] = "recv" /\ LastSent(c) # Exit ~> cpc[c] # "recv" \/ TurnedAway(c)

Asking(c, m) == cpc[c] = "recv" /\ LastSent(c) = m

\* rsh_cli.c:70-73: "exit" terminates the client, "stop-server" terminates both
\* the client and the server.  Only one of the two is asked for here, so that a
\* behaviour which violates this shows both sentences wrong.
EndingCommandsEnd ==
  \/ \A c \in Clients : Asking(c, Exit) ~> cpc[c] # "recv"
  \/ \A c \in Clients : Asking(c, StopServer) ~> ~Listening

(***************************************************************************)
(* As long as TCP delivers each command in one piece, the two programs     *)
(* implement the service of module ShellService, but for its ending        *)
(* commands: neither "exit" nor "stop-server" does what rsh_cli.c:70-73    *)
(* says (EndingCommandsEnd is violated), so both are exempt.               *)
(***************************************************************************)
UserState(c) ==
  CASE cpc[c] = "start"  -> "new"
    [] cpc[c] = "prompt" -> "ready"
    [] cpc[c] = "recv"   -> "asking"
    [] OTHER             -> "left"

UserStates == [c \in Clients |-> UserState(c)]

ServerState == IF spc = "boot" THEN "new" ELSE IF Listening THEN "up" ELSE "down"

Service == INSTANCE ShellService WITH
             server    <- ServerState,
             serving   <- cur,
             admitted  <- fds,
             state     <- UserStates,
             Honoured  <- {},
             CanRefuse <- "malloc" \in Faults,
             CanFail   <- "fork" \in Faults

\* A prompt that comes back means to the user that the command was dealt with
\* or that the server is gone, and a client is served to its end: a command
\* whose client was killed is still run, one behind "exit" is not, and
\* "stop-server" is run as any command is.
ImplementsService == Service!Spec
=============================================================================
