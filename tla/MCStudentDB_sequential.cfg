SPECIFICATION StoreSpec
CONSTANTS
  p1 = p1
  Procs = {p1}
  MaxId = 3
  MaxGpa = 1
  Options <- NoDelete
  AskIds <- PositiveIds
  Faults = {"open", "write", "kill"}
PROPERTY ImplementsStore
