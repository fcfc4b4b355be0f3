SPECIFICATION FairSpec
CONSTANTS
  j1 = j1
  j2 = j2
  Jobs = {j1, j2}
  Policy = "rule_based"
  WithDeadline = {}
  WithContext = {j1, j2}
  Layers <- UnevenLayers
  PartitionFails = TRUE
  Hysteresis = 1
  MaxClock = 0
  Work = 1
  Deadline = 2
  Patience = 2
  MinGpus = 1
  MaxGpus = 2
  CurveMax = 2
  Throughput <- MCThroughput
  MinFloor = 1
  InfeasibleFloor = 2
PROPERTY PausedReleasesPool EveryJobServed
CHECK_DEADLOCK FALSE
