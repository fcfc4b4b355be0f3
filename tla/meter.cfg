SPECIFICATION Spec
CONSTANTS
  Powers = {1, 3}
  Backgrounds = {0, 2}
  Pollers = {p1, p2}
  JoinTimeout = 1
  MaxClock = 3
  MaxTraced = 1
  MaxRange = 4
  MaxSpent = 14
  MaxMarks = 2
INVARIANTS NothingBilledUnmetered LedgerBalances TraceMatchesMeter WrapsAreCounted
CHECK_DEADLOCK FALSE
