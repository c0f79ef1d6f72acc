SPECIFICATION Spec
CONSTANTS
  MaxPid = 4
  MaxPath = 1
  Scenarios <- SafetyScenes
INVARIANTS
  NoLeakedMark
  RestartOneDebounced
  ChildrenNeverLost
  NoDeadChild
  RunningIsSupervised
  UnsupervisedLinkedAreTold
  LinksSettle
CHECK_DEADLOCK FALSE
