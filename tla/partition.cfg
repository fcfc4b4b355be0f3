SPECIFICATION FairSpec
CONSTANTS
  Workloads <- Various
  Window = 1
  MaxWidth = 4
  Patience = 2
  MinDelta = 0
  MaxDrifts = 1
INVARIANTS FullIsOptimal
PROPERTIES WindowIsOptimal EventuallyOptimal ImplementsCache
CHECK_DEADLOCK FALSE
