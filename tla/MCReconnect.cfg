CONSTANTS
  MaxTimers = 2
  INFINITE = 1000
  Repeats <- MCRepeats
  Budgets <- MCBudgets
  MaxRetries <- MCMaxRetries
  MaxDelay = 10
SPECIFICATION FairSpec
INVARIANTS
  BooksAgree
  AllCallbacksGiven
  OneChainPerStart
  StillTrying
  BacksOff
PROPERTIES
  KilledStaysDead
  KeepsTrying
  ClosedRunsOut
\* When nobody calls any more and no timer is armed, nothing happens.
CHECK_DEADLOCK FALSE
