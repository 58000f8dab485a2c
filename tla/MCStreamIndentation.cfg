CONSTANTS
  Texts <- MCTexts
  MaxLength = 9
  MaxLevel = 2
SPECIFICATION UseSpec
INVARIANTS TypeOK OnlyBlanksBehind AtLevel
PROPERTY ImplementsLineWriter
CHECK_DEADLOCK FALSE
