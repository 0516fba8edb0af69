SPECIFICATION Spec
CONSTANTS
  c1 = c1
  e = e
  x = x
  s = s
  l = l
  NUL = NUL
  NoClient = NoClient
  NotRun = NotRun
  Clients = {c1}
  Commands <- ManyCommands
  Exit <- exit
  StopServer <- stopServer
  Segmented = TRUE
  Backlog = 1
  MaxFds = 2
  MaxCmds = 2
  Faults = {"malloc", "fork", "kill"}
CHECK_DEADLOCK FALSE
INVARIANT NeverMixesCommands
