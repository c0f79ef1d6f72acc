SPECIFICATION FairSpec
CONSTANTS
  MaxPid = 4
  MaxPath = 2
  Scenarios <- LiveScenes
PROPERTIES
  SupervisionSettles
CHECK_DEADLOCK FALSE
