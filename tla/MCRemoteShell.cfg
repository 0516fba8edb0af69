SPECIFICATION FairSpec
CONSTANTS
  c1 = c1
  c2 = c2
  e = e
  x = x
  s = s
  l = l
  NUL = NUL
  NoClient = NoClient
  NotRun = NotRun
  Clients = {c1, c2}
  Commands <- FewCommands
  Exit <- exit
  StopServer <- stopServer
  Segmented = FALSE
  Backlog = 0
  MaxFds = 2
  MaxCmds = 2
  Faults = {"boot", "connect", "malloc", "fork", "kill", "crash"}
CHECK_DEADLOCK FALSE
INVARIANT TypeOK
INVARIANT Lockstep
INVARIANT RunsWhatWasSent
INVARIANT ServerSurvivesClients
PROPERTY CommandsAnswered
 
