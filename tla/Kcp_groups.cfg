SPECIFICATION Spec
CONSTANTS
  PID_SPACE = 16
  FID_SPACE = 8
  RSND_COUNT = 1
  WINDOW = 3
  EXTRA = 0
  TERM_PERMITS = 0
  MAX_TERMS = 1
  AUDIO_BUFS = 1
  INTERVAL = 2
  CUR_BUFS = 1
  MAX_SPAN = 12
  MAX_ACKS = 1
  MAX_LOSS = 1
INVARIANT
  IdsDistinct
PROPERTIES
  FreedOnlyReceived
  RecoveryBuffers
