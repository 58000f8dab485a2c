CONSTANTS
  MaxLines = 3
  MaxLevel = 2
  MaxDeepLines = 5
  MaxDeepLevel = 3
  Documents <- MCDocuments
SPECIFICATION FairSpec
INVARIANTS TypeOK OpenLevels Balanced TerminatedInputCloses
PROPERTIES Termination ImplementsLayout
\* The lexer stops at the end of the input and at every error.
CHECK_DEADLOCK FALSE
