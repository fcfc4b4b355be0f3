SPECIFICATION Spec
CONSTANTS
  Window = 1
  Unthrottled = 10
  Parts = 4
  Knobs = 4
  LambdaHi = 200
  MinGpus = 1
  MaxGpus = 5
  Hysteresis = 1
  Problems <- MCProblems
INVARIANTS PlansAreOptimal MarginalSharesAreBest SteeringIsSteady DeadlinesAreKept CarbonIsAccounted PausePaysBeyondBreakEven VerdictsAreSound
CHECK_DEADLOCK FALSE
