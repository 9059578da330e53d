CONSTANTS
  Size = 4
  BakMax = 4
  MaxWrite = 2
  MaxRead = 2
  MaxBak = 2
  Samples = 5
  ReaderFirst = TRUE
  FlushOverlaps = TRUE
SPECIFICATION Spec
INVARIANT IndexOrder
