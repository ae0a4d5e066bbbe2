\* The loop of main.cpp; the connection may fail at any time.
CONSTANTS
  Updates = 3
  OkayAlone = FALSE
  Looping = TRUE
  CanDrop = TRUE
SPECIFICATION FairSpec
INVARIANTS
  FirstListSeen
  StaleOnlyIfOvertaken
PROPERTIES
  ListIsSeen
\* After the last list the caller waits.
CHECK_DEADLOCK FALSE
