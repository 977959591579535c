SPECIFICATION FairSpec
CONSTANTS
  Val = {1, 2}
  WORK_COUNT = 2
  UPDATES = 1
  ERRORS = 1
  SLEEPS = 0
CHECK_DEADLOCK FALSE
PROPERTY
  QualityUpdateEnds
