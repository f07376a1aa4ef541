CONSTANTS
  Func = {f, g}
  NoFunc = NoFunc
  MaxItems = 2
  CallSeqs <- MCCallSeqs
  MaxOps = 5
  MaxCalls = 3
SYMMETRY MCSymmetry
SPECIFICATION Spec
INVARIANTS ProfileSound Conservation
CHECK_DEADLOCK FALSE
