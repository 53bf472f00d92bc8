\* Every kind of benchmark, two runs sharing a run_id.
SPECIFICATION Spec
CONSTANTS
  Runs = 2
  Warmups = 1
  Ceiling = 3
  Kinds = {"query", "join", "notebook"}
  MinIterations = 2
  MinWindow = 5
  MaxTimedWindow = 6
  MaxFixedWindow = 5
  MaxIteration = 4
  MaxConsecutive = 2
  Durations <- TwoLengths
  CostComponents <- AciAndBlob
INVARIANTS
  CostsExcludeWarmup
CHECK_DEADLOCK FALSE
