SPECIFICATION KernelSpec
CONSTANTS
  CORE_COUNT = 2
  WORK_COUNT = 2
  IMG_WORK_COUNT = 2
  FRAME_ID_COUNT = 2
  CAPTURED = {"top"}
  RELIABLE = FALSE
  DMA_TIMEOUT = FALSE
  UPDATES = 0
  RESETS = FALSE
INVARIANTS
  TypeOK
  LeaderAlone
  SameFrame
  SourceIsCaptured
  NoTearing
  ScreenOwnsWork
  NoLostPermit
PROPERTIES
  FramesKeepFlowing
