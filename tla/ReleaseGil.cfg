SPECIFICATION FairSpec
CONSTANTS
  Actors = {a1, a2}
  MaxThreads = 1
  PoolSize = 2
  Strict = FALSE
  MaxUser = 2
  MaxSwap = 1
INVARIANTS
  CountExact
  ThreadBound
  SwapsInOrder
  OnlyPoolSticks
PROPERTIES
  TakenIsRun
  ThreadIsReturned
CHECK_DEADLOCK FALSE
