---------------------------- MODULE ShellService ----------------------------
(***************************************************************************)
(* What the remote shell of RShell promises its users, as the comments of  *)
(* rsh_cli.c and rshlib.h tell it: a client asks for one command at a time *)
(* and is ready for the next when that one was executed, or when there is  *)
(* no server any more; the server takes its clients one after the other    *)
(* and stays with each until it leaves.  Two commands end something        *)
(* (rsh_cli.c:70-73): "exit" the client, "stop-server" the client and the  *)
(* server.  Those of them that programs are held to are in Honoured: a     *)
(* client that asked for one is not ready again, it can only leave, and    *)
(* the server executes none, so that after "stop-server" it can only stop. *)
(* Nothing is said here of bytes, sockets, queues or descriptors.          *)
(***************************************************************************)
EXTENDS Integers, Sequences

CONSTANTS Clients,    \* the client processes
          Commands,   \* the lines that users type
          Exit,       \* "exit"
          StopServer, \* "stop-server"
          Honoured,   \* the ending commands, Exit or StopServer, that do end
          NoClient,   \* the server is serving nobody
          NotRun,     \* what became of a command that system() could not start
          CanRefuse,  \* whether the server may have no memory for a client
          CanFail     \* whether system() may fail

VARIABLES server,   \* "new", "up" or "down"
          serving,  \* the client that is served
          admitted, \* the clients that the server has taken
          state,    \* "new", "ready", "asking" or "left"
          sent,     \* the commands that each client asked for
          ran       \* what became of them, in the same order

serviceVars == <<server, serving, admitted, state, sent, ran>>

Done(c)     == Len(ran[c]) = Len(sent[c])
NextCmd(c)  == sent[c][Len(ran[c]) + 1]
LastCmd(c)  == sent[c][Len(sent[c])]
Ending      == {Exit, StopServer} \cap Honoured
Become(c, s) == state' = [state EXCEPT ![c] = s]

Init ==
  /\ server = "new" /\ serving = NoClient /\ admitted = {}
  /\ state = [c \in Clients |-> "new"]
  /\ sent = [c \in Clients |-> <<>>]
  /\ ran = [c \in Clients |-> <<>>]

-----------------------------------------------------------------------------

Join(c) ==
  /\ server = "up" /\ state[c] = "new"
  /\ Become(c, "ready")
  /\ UNCHANGED <<server, serving, admitted, sent, ran>>

Ask(c, m) ==
  /\ state[c] = "ready"
  /\ Become(c, "asking")
  /\ sent' = [sent EXCEPT ![c] = Append(@, m)]
  /\ UNCHANGED <<server, serving, admitted, ran>>

\* The client is told that its command is done, or that the server is gone.
Answer(c) ==
  /\ state[c] = "asking" /\ LastCmd(c) \notin Ending
  /\ Done(c) \/ server = "down"
  /\ Become(c, "ready")
  /\ UNCHANGED <<server, serving, admitted, sent, ran>>

Leave(c) ==
  /\ state[c] # "left"
  /\ Become(c, "left")
  /\ UNCHANGED <<server, serving, admitted, sent, ran>>

-----------------------------------------------------------------------------

Start ==
  /\ server = "new" /\ server' \in {"up", "down"}
  /\ UNCHANGED <<serving, admitted, state, sent, ran>>

Stop ==
  /\ server = "up" /\ server' = "down"
  /\ serving' = NoClient /\ admitted' = {}
  /\ UNCHANGED <<state, sent, ran>>

Admit(c) ==
  /\ server = "up" /\ serving = NoClient
  /\ state[c] # "new" /\ c \notin admitted
  /\ admitted' = admitted \cup {c}
  /\ serving' = c \/ (CanRefuse /\ UNCHANGED serving)
  /\ UNCHANGED <<server, state, sent, ran>>

\* The next command of the client that is served.
Execute(c) ==
  /\ serving = c /\ ~Done(c) /\ NextCmd(c) \notin {Exit} \cup Ending
  /\ \E r \in {NextCmd(c)} \cup (IF CanFail THEN {NotRun} ELSE {}) :
       ran' = [ran EXCEPT ![c] = Append(@, r)]
  /\ UNCHANGED <<server, serving, admitted, state, sent>>

\* The client has left, or asks to: what it sent before is done.
Dismiss(c) ==
  /\ serving = c
  /\ IF Done(c) THEN state[c] = "left" ELSE NextCmd(c) = Exit
  /\ serving' = NoClient
  /\ UNCHANGED <<server, admitted, state, sent, ran>>

-----------------------------------------------------------------------------

Next ==
  \/ Start \/ Stop
  \/ \E c \in Clients :
       \/ Join(c) \/ Answer(c) \/ Leave(c)
       \/ \E m \in Commands : Ask(c, m)
       \/ Admit(c) \/ Execute(c) \/ Dismiss(c)

Spec == Init /\ [][Next]_serviceVars
=============================================================================
