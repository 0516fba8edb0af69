SPECIFICATION Spec
CONSTANTS
  p1 = p1
  Procs = {p1}
  MaxId = 2
  MaxGpa = 0
  Options <- OptionLetters
  AskIds <- AnyId
  Faults = {}
PROPERTY DeleteRemovesThatStudent
