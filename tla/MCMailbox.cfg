CONSTANTS
  s1 = s1
  s2 = s2
  u = u
  v = v
  x = x
  Senders = {s1, s2}
  UserBody = {u, v}
  SysBody = {x}
  Matchers <- MCMatchers
  MaxUser = 3
  MaxSys = 2
SPECIFICATION Spec
INVARIANTS
  CounterExact
PROPERTIES
  ImplementsQueues
  SystemPassedOnce
SYMMETRY MCSymmetry
CHECK_DEADLOCK FALSE
