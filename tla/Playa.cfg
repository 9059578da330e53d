CONSTANTS
  Drivers = {d1}
  NoDriver = NoDriver
  Frqs = {1, 2}
  FirstFrq = 1
  FifoMax = 3
  MaxBlock = 1
  Chunk = 2
  MaxSignals = 2
SPECIFICATION FairSpec
INVARIANTS TypeOK Alone RefsBalance AliveDriver NoLostWakeup
PROPERTIES NeverEarly CallReturns
CHECK_DEADLOCK FALSE
