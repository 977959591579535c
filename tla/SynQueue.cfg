SPECIFICATION FairSpec
CONSTANTS
  Producer = {p1, p2, p3}
  Data = {d1, d2}
  Null = Null
  COUNT = 3
  SEG_COUNT = 3
INVARIANTS
  Inv
  NeverNull
  NeverOverwrites
PROPERTIES
  IsFifo
  PutCompletes
