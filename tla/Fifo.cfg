CONSTANTS
  Size = 8
  BakMax = 8
  MaxWrite = 2
  MaxRead = 2
  MaxBak = 2
  Samples = 10
  ReaderFirst = TRUE
  FlushOverlaps = FALSE
SPECIFICATION FairSpec
INVARIANTS TypeOK IndexOrder
PROPERTIES InOrder RoomReturns
