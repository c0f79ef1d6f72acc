SPECIFICATION FairSpec
CONSTANTS
  Msgs = {m1, m2, m3}
  MaxConns = 5
  Cap = 1
  Faults = {"refuse", "break", "idle", "stall"}
  MaxDown = 2
INVARIANTS
  AtMostOnce
  NoDeadEntry
PROPERTIES
  SendReturns
  AcceptedIsDelivered
CHECK_DEADLOCK FALSE
