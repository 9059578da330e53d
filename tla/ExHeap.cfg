SPECIFICATION Spec
CONSTANTS
  NULL = NULL
  Textures = {a, b, c, d}
  Sizes = {2, 3, 5, 7}
  Total = 16
  MinFree = 2
  SmallThreshold = 4
INVARIANTS TypeOK Tiled Coalesced
CHECK_DEADLOCK FALSE
