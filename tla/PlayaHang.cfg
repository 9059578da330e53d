CONSTANTS
  Drivers = {d1}
  NoDriver = NoDriver
  Frqs = {1}
  FirstFrq = 1
  FifoMax = 1
  MaxBlock = 1
  Chunk = 1
  MaxSignals = 2
SPECIFICATION FairSpec
PROPERTY AlwaysReturns
CHECK_DEADLOCK FALSE
