SPECIFICATION RunSpec
CONSTANTS
  MaxGpus = 4
  Curves <- MCCurves
  Profiles <- MCProfiles
  CleanSets <- MCCleanSets
  MaxIters = 6
  MaxDeadline = 3
  MaxBudget = 6
  PowerPerGpu = 1
INVARIANTS SmallestShare SmallestFit BehindOnlyByIdling
PROPERTY Terminates
CHECK_DEADLOCK FALSE
