\* Three calls and every fault; the object may be ended after any of them,
\* with or without stop().
CONSTANTS
  Script <- ThreeCalls
  Faults = {"nosocket", "refused", "dropped"}
  FunctorsFirst = FALSE
  Overtakes = TRUE
SPECIFICATION FairSpec
INVARIANTS
  OwnReply
  AtMostOnce
  NoUndefined
  NoStuck
  SuccessIsAnswered
PROPERTIES
  CallReturns
  StopReturns
\* The program ends when its client object does.
CHECK_DEADLOCK FALSE
