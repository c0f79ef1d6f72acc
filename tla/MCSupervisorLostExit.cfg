SPECIFICATION Spec
CONSTANTS
  MaxPid = 3
  MaxPath = 0
  Scenarios <- LostExitScenes
INVARIANT
  LinkedAreTold
CHECK_DEADLOCK FALSE
