SPECIFICATION FairScanSpec
CONSTANTS
  p1 = p1
  p2 = p2
  Procs = {p1, p2}
  MaxId = 2
  MaxGpa = 0
  Options = {"a", "c", "d", "f", "p", "z"}
  AskIds <- AnyId
  Faults = {"open", "read", "write", "kill"}
INVARIANT TypeOK
INVARIANT RecordsInPlace
PROPERTY AbsentMeansNotKept
PROPERTY PresentMeansSeen
PROPERTY CountWithinInterval
PROPERTY PrintWithinInterval
PROPERTY CommandsFinish
