SPECIFICATION FairSpec
CONSTANTS
  c1 = c1
  e = e
  x = x
  s = s
  l = l
  NUL = NUL
  NoClient = NoClient
  NotRun = NotRun
  Clients = {c1}
  Commands <- FewCommands
  Exit <- exit
  StopServer <- stopServer
  Segmented = FALSE
  Backlog = 1
  MaxFds = 2
  MaxCmds = 2
  Faults = {}
CHECK_DEADLOCK FALSE
PROPERTY EndingCommandsEnd
