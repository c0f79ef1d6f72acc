SPECIFICATION Spec
CONSTANTS
  MaxPid = 6
  MaxPath = 0
  Scenarios <- WaveScenes
INVARIANT
  AtMostOneRestart
CHECK_DEADLOCK FALSE
