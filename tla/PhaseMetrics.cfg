SPECIFICATION Spec
CHECK_DEADLOCK FALSE
CONSTANTS
  Calls = 2
  JoinStages = 2
  MaxAbandoned = 1
INVARIANTS
  MetricsAreOwn
