SPECIFICATION FairSpec
CONSTANTS
  FC_MOD = 4
  SEQ_MOD = 4
  IDX_MOD = 4
  AUDIO_Q_LEN = 2
  SEQ_GAP_SAFE = 3
  BUF_COUNT = 2
  STAGING_MAX = 2
  DELAY = 1
  MAX_MIX = 7
INVARIANTS
  PacketContinues
  PoolSuffices
PROPERTIES
  SentForward
  StreamContinues
  RingDrains
