CONSTANTS
  Drivers = {d1}
  NoDriver = NoDriver
  Frqs = {1, 2}
  FirstFrq = 1
  FifoMax = 3
  MaxBlock = 2
  Chunk = 2
  MaxSignals = 2
SPECIFICATION Spec
INVARIANT InTune
CHECK_DEADLOCK FALSE
