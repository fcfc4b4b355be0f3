SPECIFICATION FairSpec
CONSTANTS
  j1 = j1
  j2 = j2
  s1 = s1
  s2 = s2
  Jobs = {j1, j2}
  Services = {s1, s2}
  Setups <- MCSetups
  MaxPods = 3
  MaxEvictions = 1
INVARIANTS ListMatchesDaemon DrainIsFinal
PROPERTIES PoolConverges
CHECK_DEADLOCK FALSE
