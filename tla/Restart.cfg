SPECIFICATION FairSpec
CONSTANTS
  Val = {1, 2}
  WORK_COUNT = 2
  UPDATES = 1
  ERRORS = 1
  SLEEPS = 2
CHECK_DEADLOCK FALSE
INVARIANTS
  Inv
  AsleepStopped
  RestartReadsConfig
PROPERTIES
  PauseAcknowledged
