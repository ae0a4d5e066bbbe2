CONSTANTS
  Chars <- MCChars
  Devices <- MCDevices
  MaxDevices = 2
  MaxChunks = 4
SPECIFICATION Spec
INVARIANTS
  ParsedBack
  CleanedOnce
  WholeLines
\* The reply has arrived.
CHECK_DEADLOCK FALSE
