SPECIFICATION FairSpec
CONSTANTS
  WarmupIters = 1
  Chunk = 2
  Schedules <- MCSchedules
  Thresholds = {1, 2}
  TotalIters = 6
  MaxTicks = 24
  MaxBurst = 5
  MaxRuns = 2
INVARIANT BilledWhereSpent
PROPERTIES ImplementsTraining Completes
CHECK_DEADLOCK FALSE
