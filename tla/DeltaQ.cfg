SPECIFICATION FairSpec
CONSTANTS
  CORE_COUNT = 2
  WORK_COUNT = 2
  TOP_ROWS = 4
  BOT_ROWS = 1
  RANGE = 2
  EVEN_ODD = {"bot"}
  DELTA_Q_COUNT = 2
INVARIANTS
  SharesTile
  RowsOwned
  PrevAtLevel
  LevelKept
  NoLeftover
PROPERTY
  FramesFinish
