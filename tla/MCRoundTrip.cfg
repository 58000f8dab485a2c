CONSTANTS
  NULL = NULL
  Kinds = {}
  MaxNodes = 80
  Inputs <- Designs
  MaxDepth = 22
SPECIFICATION RoundSpec
INVARIANTS SurvivesUnless NotTwice
CHECK_DEADLOCK FALSE
