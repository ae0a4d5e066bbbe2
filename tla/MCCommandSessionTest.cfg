\* The three commands of HostCommandTest and a network without faults.
\* The posted functors go first and no command overtakes a callback, so neither
\* of these orders is to blame.
CONSTANTS
  Script <- HostCommandTest
  Faults = {}
  FunctorsFirst = TRUE
  Overtakes = FALSE
SPECIFICATION FairSpec
INVARIANTS
  TestExpectsReply
\* The program ends when its client object does.
CHECK_DEADLOCK FALSE
