CONSTANTS
  NULL = NULL
  DTypes = {t1}
  Names = {a}
  Numbers <- MCNumbers
  MaxCalls = 3
SPECIFICATION Spec
PROPERTY DepthStays
CHECK_DEADLOCK FALSE
