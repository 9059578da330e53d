CONSTANTS
  sound = sound
  video = video
  c1 = c1
  c2 = c2
  c3 = c3
  Clients = {sound, video}
  Kind <- KindOf
  Batch <- BatchOf
  Chains = {c1, c2, c3}
  NULL = NULL
  Frames = 3
SPECIFICATION FairSpec
INVARIANTS TypeOK Accounted PoolSuffices Apart
PROPERTIES InOrder NoStart Shown WaitReturns
