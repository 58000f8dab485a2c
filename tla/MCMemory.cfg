CONSTANTS
  NULL = NULL
  DTypes = {t1, t2}
  Names = {a, b}
  Numbers <- MCNumbers
  MaxCalls = 5
SPECIFICATION Spec
INVARIANTS TypeOK SetOnce GettersAgree LatencyIsTheDepth PortsNeedType
SYMMETRY Symmetry
\* A memory is finished when the calls are used up, and never after a crash.
CHECK_DEADLOCK FALSE
