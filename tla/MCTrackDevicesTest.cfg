\* HostCommandTest with HOST_TRACK_DEVICE_TEST; OKAY arrives first.
CONSTANTS
  Updates = 1
  OkayAlone = TRUE
  Looping = FALSE
  CanDrop = FALSE
SPECIFICATION FairSpec
INVARIANTS
  TestTracksDevices
\* The test ends.
CHECK_DEADLOCK FALSE
