\* One user, as in main.cpp and the tests; the client is not restarted, and is
\* stopped when a command has returned.
CONSTANTS
  Users = {caller}
  Creator = caller
  MaxCalls = 5
  Restart = FALSE
  Hasty = FALSE
SPECIFICATION FairSpec
INVARIANTS
  Sound
  StartedRuns
  StopBlocks
PROPERTIES
  CallsReturn
  ImplementsLoopThread
\* The calls are used up, or the object is gone.
CHECK_DEADLOCK FALSE
