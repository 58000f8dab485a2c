\* The comment of HandleNewline read as a promise for every input.
CONSTANTS
  MaxLines = 2
  MaxLevel = 1
  MaxDeepLines = 2
  MaxDeepLevel = 1
  Documents <- MCDocuments
SPECIFICATION Spec
INVARIANT EveryInputCloses
CHECK_DEADLOCK FALSE
