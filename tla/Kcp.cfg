SPECIFICATION FairSpec
CONSTANTS
  PID_SPACE = 8
  FID_SPACE = 8
  RSND_COUNT = 2
  WINDOW = 2
  EXTRA = 1
  TERM_PERMITS = 1
  MAX_TERMS = 2
  AUDIO_BUFS = 1
  INTERVAL = 2
  CUR_BUFS = 1
  MAX_SPAN = 6
  MAX_ACKS = 1
  MAX_LOSS = 1
INVARIANT
  BuffersAccounted
PROPERTY
  DeliveredOrReset
