CONSTANTS
  s1 = s1
  s2 = s2
  u = u
  v = v
  x = x
  Senders = {s1, s2}
  UserBody = {u}
  SysBody = {x}
  Matchers = {}
  MaxUser = 3
  MaxSys = 2
SPECIFICATION LoopSpec
PROPERTIES
  StopEndsLoop
  QueuedIsServed
CHECK_DEADLOCK FALSE
