SPECIFICATION KernelSpec
CONSTANTS
  CORE_COUNT = 1
  WORK_COUNT = 2
  IMG_WORK_COUNT = 2
  FRAME_ID_COUNT = 2
  CAPTURED = {"top", "bot"}
  RELIABLE = FALSE
  DMA_TIMEOUT = FALSE
  UPDATES = 0
  RESETS = TRUE
INVARIANTS
  RowsMatchHeader
PROPERTIES
  SentInOrder
  ResetStops
CHECK_DEADLOCK FALSE
