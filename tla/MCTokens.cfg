CONSTANTS
  NULL = NULL
  MaxSource = 8
  Sources <- QuotedTexts
  Behind <- Rests
SPECIFICATION MCSpec
INVARIANTS TablesAgree ReadAs StringSurvives
\* A node or a string that was read again, or could not be, is not used any more.
CHECK_DEADLOCK FALSE
