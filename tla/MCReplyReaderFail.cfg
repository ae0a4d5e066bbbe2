\* A FAIL whose message arrives in a chunk of its own.
CONSTANTS
  Cases <- NoDevice
  BufSize = 32
SPECIFICATION FairSpec
INVARIANTS
  FailIsReported

\* A conversation ends.
CHECK_DEADLOCK FALSE
