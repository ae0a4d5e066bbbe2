\* The layout of a message against the way it is read.
CONSTANTS
  Cases <- TwoDevices
  BufSize = 32
SPECIFICATION FairSpec
INVARIANTS
  LayoutIsRead

\* A conversation ends.
CHECK_DEADLOCK FALSE
