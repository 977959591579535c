SPECIFICATION Spec
CONSTANTS
  MCUS = 2
  WE = 1
  HE = 1
  COUNT = 2
  DELTA_Q_COUNT = 3
  STEP = 2
  LOG2 = {1, 4}
  COEF_MAX = 5
  W = 2
  BITS = {1, 2}
  BH = {1, 2}
  STEPS = 3
  WIDTH = 2
  CHUNK = 1
  PALETTE <- Palette
INVARIANTS
  ReceiverAgrees
  LosslessExact
