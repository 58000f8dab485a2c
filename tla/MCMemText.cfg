CONSTANTS
  Texts <- MemTexts
  MaxLength = 40
  MaxLevel = 3
SPECIFICATION MemSpec
INVARIANT MemClosed
CHECK_DEADLOCK FALSE
