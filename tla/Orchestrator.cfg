SPECIFICATION FairSpec
CHECK_DEADLOCK FALSE
CONSTANTS
  duckdb = duckdb
  postgis = postgis
  knn = knn
  Experiments <- PairAndSingle
  Related <- RelatedJoins
  RunsLimit <- SingleLimited
  Runs = 2
  Leftover <- PairAndSingle
  MaxWorkers = 2
INVARIANTS
  LaunchedOncePerRun
  OneBatchInFlight
  CleanedUp
  SuccessIsOfThisRun
PROPERTIES
  ImplementsSchedule
  SuiteEnds
