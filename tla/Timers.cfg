SPECIFICATION FairSpec
CONSTANTS
  Callers = {c1, c2}
  MaxTimers = 3
  MaxTicks = 2
INVARIANTS
  NoLeakedEntry
  OneShotExact
PROPERTIES
  CancelEnds
CHECK_DEADLOCK FALSE
