SPECIFICATION FairSpec
CONSTANTS
  Pair = {1, 2, 3}
  FreeFunc = TRUE
  Key = {k1, k2}
  Value = {v1, v2}
  MaxDisplaced = 1
  NULL = NULL
INVARIANTS
  TypeOK
  Accounted
PROPERTIES
  MultimapSpec
  LoopEnds
