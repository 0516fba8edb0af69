SPECIFICATION FairSpec
CONSTANTS
  Shell = Shell
  CmdMax = 3
  Lines = 2
  PipeCap = 1
  Items = 2
  Faults = {"pipe", "fork", "exec"}
CHECK_DEADLOCK FALSE
INVARIANTS TypeOK AllReaped NoStrayEnds
PROPERTIES PipelineReturns StagesEndWithShell
