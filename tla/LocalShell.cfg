SPECIFICATION FairSpec
CONSTANTS
  Shells = {"P2", "P3"}
  LineKinds = {"empty", "blank", "exit", " exit", "cd", "toomany", "cmd", "nocmd", "nocmd|", "reader|"}
  MaxLines = 3
  BufLines = 2
  MaxRan = 5
  Faults = {"malloc", "pipe", "fork"}
INVARIANTS TypeOK InOrderOnPipe NoLineSkipped ReplayNeedsMissing SaidOnce
PROPERTY LoopEnds
CHECK_DEADLOCK FALSE
