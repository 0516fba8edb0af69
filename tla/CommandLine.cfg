SPECIFICATION Spec
CONSTANTS
  Letters = {"a", "b"}
  MaxLine = 6
  CmdMax = 2
  ArgvMax = 3
  Argv2Max = 4
  ExeMax = 3
  ArgMax = 4
INVARIANTS TypeOK P1AgreesWithP3 P3KeepsWords P2KeepsWords P2AgreesWithP3
CHECK_DEADLOCK FALSE
