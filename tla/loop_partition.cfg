SPECIFICATION Spec
CONSTANTS
  j1 = j1
  j2 = j2
  Jobs = {j1}
  Policy = "power_aware"
  WithDeadline = {j1}
  WithContext = {j1}
  Layers <- MCLayers
  PartitionFails = FALSE
  Hysteresis = 3
  MaxClock = 1
  Work = 1
  Deadline = 2
  Patience = 2
  MinGpus = 1
  MaxGpus = 4
  CurveMax = 2
  Throughput <- MCThroughput
  MinFloor = 1
  InfeasibleFloor = 2
INVARIANTS PartitionMatchesWidth
PROPERTIES HysteresisSpansTicks
CHECK_DEADLOCK FALSE
