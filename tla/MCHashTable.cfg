CONSTANTS
  Key <- MCKey
  Val = {v1, v2}
  NULL = NULL
  CAPACITY = 2
  SizeMod = 16
  Hash <- MCHash
SPECIFICATION FairSpec
INVARIANTS TableSound ReportComplete
PROPERTIES RefinesMap CallsReturn
