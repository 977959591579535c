SPECIFICATION KernelSpec
CONSTANTS
  CORE_COUNT = 2
  WORK_COUNT = 2
  IMG_WORK_COUNT = 1
  FRAME_ID_COUNT = 1
  CAPTURED = {"top"}
  RELIABLE = TRUE
  DMA_TIMEOUT = FALSE
  UPDATES = 1
  RESETS = TRUE
INVARIANT
  TablesStable
PROPERTY
  UpdateCompletes
CHECK_DEADLOCK FALSE
