CONSTANTS
  NULL = NULL
  Kinds <- AllKinds
  MaxNodes = 13
  Runs <- AllVisitors
  Annotated <- FrontendAnnotated
SPECIFICATION MCSpec
INVARIANTS VisitedOnce EverythingVisited LevelsBalance CompleteIsSafe
           StripComplete NoThenNoEnd 
PROPERTY EdgesNameNodes
\* A traversal ends, or stops at a null pointer.
CHECK_DEADLOCK FALSE
