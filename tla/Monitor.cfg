SPECIFICATION MonitorFairSpec
CONSTANTS
  Threshold = 8
  MaxBackoff = 5
  Flaky = TRUE
INVARIANTS
  NotifiedAfterStreak
PROPERTIES
  MonitorEnds
