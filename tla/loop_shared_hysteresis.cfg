SPECIFICATION Spec
CONSTANTS
  j1 = j1
  j2 = j2
  Jobs = {j1, j2}
  Policy = "power_aware"
  WithDeadline = {}
  WithContext = {}
  Layers <- DeepLayers
  PartitionFails = FALSE
  Hysteresis = 2
  MaxClock = 0
  Work = 1
  Deadline = 2
  Patience = 2
  MinGpus = 1
  MaxGpus = 3
  CurveMax = 2
  Throughput <- MCThroughput
  MinFloor = 1
  InfeasibleFloor = 2
PROPERTY HysteresisSpansTicks
CHECK_DEADLOCK FALSE
