SPECIFICATION Spec
CONSTANTS
  Letters = {"a"}
  BufSize = 4
  MaxInput = 5
  MaxArg = 2
INVARIANTS TypeOK SetupCollapses WordsRight ReverseRight ReplaceKeepsRest
CHECK_DEADLOCK FALSE
