SPECIFICATION LimiterSpec
CONSTANTS
  Ip = {a, b}
  Rpm = 2
  Minute = 5
  IdlePruneAge = 10
  MaxNow = 16
SYMMETRY Symmetry
INVARIANTS
  WithinBudget
  PollingNotStarved
PROPERTY PruneInvisible
CHECK_DEADLOCK FALSE
