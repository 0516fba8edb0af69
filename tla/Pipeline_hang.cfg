SPECIFICATION FairSpec
CONSTANTS
  Shell = Shell
  CmdMax = 3
  Lines = 1
  PipeCap = 1
  Items = 1
  Faults = {"fork"}
CHECK_DEADLOCK FALSE
PROPERTY StagesEnd
