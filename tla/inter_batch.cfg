SPECIFICATION FairSpec
CONSTANTS
  N = 2
  Unit = 3
  Capacity <- MCCapacity
  MaxBatches = 5
INVARIANTS NothingLostOrRepeated DispatchProportional
PROPERTIES BackwardFollows Drains
CHECK_DEADLOCK FALSE
