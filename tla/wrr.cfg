SPECIFICATION WrrSpec
CONSTANTS
  N = 3
  Unit = 60
  Capacity <- MCCapacity
  Efficiencies = {0, 2}
  Derate = 0
  RefreshPeriod = 2
  MaxPicks = 5
INVARIANTS PaidWhatEarned FewEmptyPicks
CHECK_DEADLOCK FALSE
