SPECIFICATION FairSpec
CONSTANTS
  NULL = NULL
  Lists = {a, b}
  Paths = {p, q}
  MaxDots = 1
  DirSize = 1
  MaxNodes = 2
  MaxSem = 1
INVARIANTS TypeOK RefCounts Handshake OnePath
PROPERTIES LoadReturned LoadEnds
