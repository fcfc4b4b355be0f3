SPECIFICATION Spec
CONSTANTS
  j1 = j1
  j2 = j2
  Jobs = {j1, j2}
  Policy = "steering"
  WithDeadline = {j1}
  WithContext = {}
  Layers <- DeepLayers
  PartitionFails = FALSE
  Hysteresis = 1
  MaxClock = 2
  Work = 2
  Deadline = 2
  Patience = 2
  MinGpus = 1
  MaxGpus = 2
  CurveMax = 3
  Throughput <- MCThroughput
  MinFloor = 1
  InfeasibleFloor = 3
INVARIANTS TypeOK WorklistOnce FloorHeld
PROPERTY FinishedStaysFinished
CHECK_DEADLOCK FALSE
