CONSTANTS
  NULL = NULL
  Filetypes <- MCFiletypes
  FrontendOf <- MCFrontendOf
  BackendOf <- MCBackendOf
  Passes = {stripinfo, another}
  Unknown = unknown
  MaxPasses = 3
SPECIFICATION Spec
INVARIANTS TypeOK ExitZeroMeansWritten FailureKeepsTheFile
\* The program ends.
CHECK_DEADLOCK FALSE
