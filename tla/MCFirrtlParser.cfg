CONSTANTS
  NULL = NULL
  Kinds = {}
  MaxNodes = 80
  Inputs <- AllTexts
  MaxDepth = 26
SPECIFICATION FairSpec
INVARIANTS TypeOK AcceptedIsRead ReadOnce TreeComplete OverflowAtType NeverRead
           StatementsKept SuitesStay
PROPERTY Termination
\* The frontend returns.
CHECK_DEADLOCK FALSE
