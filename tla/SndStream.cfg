CONSTANTS
  r1 = r1
  r2 = r2
  v1 = v1
  Rates = {r1, r2}
  Rate0 = r1
  Volumes = {v1}
  Volume0 = v1
  HalfTicks = 4
  ArmTicks = 1
  PollTicks = 1
  RefillTicks = 1
  NumBlocks = 4
  PostPreempted = FALSE
SPECIFICATION FairSpec
INVARIANTS TypeOK Untouched LastServed
PROPERTIES InSequence CommandArrives Streams
