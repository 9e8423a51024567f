SPECIFICATION ChecksSpec
CONSTANTS
  GPUs = {g1, g2}
  NvlinkErrorCounters <- MCCounters
  NvlinkErrorTotals <- MCTotals
  Healthy <- MCHealthy
  Values <- MCValues
  Failing <- MCFailing
  MaxUint32 = 3
  Renotify = 1
  InforomInterval = 1
  RetryInterval = 1
  Xids = {31, 79}
  MaxChanges = 2
SYMMETRY MCSymmetry
INVARIANTS
  CountersExact
  HealthyGpuIsQuiet
  XidsAccounted
