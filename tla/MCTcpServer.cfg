CONSTANTS
  ThreadNum = 2
  MaxStarts = 2
  Waits = {TRUE}
  Conns = {c1, c2, c3}
  max_connections = 1
  Policies = {"RoundRobin", "LeastConnections"}
SPECIFICATION FairSpec
INVARIANTS
  StatusTrue
  LimitHeld
  CountersExact
  StopCleans
  OnlyStopLoses
PROPERTIES
  CallsReturn
\* A stopped server stays down, and clients need not connect.
CHECK_DEADLOCK FALSE
