SPECIFICATION Spec
CONSTANTS
  Letters = {"a", "b"}
  MaxLine = 6
  CmdMax = 2
  ArgvMax = 3
  Argv2Max = 4
  ExeMax = 3
  ArgMax = 4
INVARIANT QuotedIsOneArgument
CHECK_DEADLOCK FALSE
