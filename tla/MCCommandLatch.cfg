\* weak_up() is called at most three times and waits() at most four times:
\* each caller can wait, be woken, clear the flag and wait again.
CONSTANTS
  Callers = {c1, c2}
  Loops = {l1}
  MaxWakes = 3
  MaxWaits = 4
SPECIFICATION FairSpec
INVARIANTS
  NoLostWakeup
PROPERTIES
  WaitersReturn
  ImplementsLatch
\* When every weak_up() has been used up a caller may wait for ever.
CHECK_DEADLOCK FALSE
