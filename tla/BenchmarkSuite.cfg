SPECIFICATION SuiteSpec
CHECK_DEADLOCK FALSE
CONSTANTS
  duckdb = duckdb
  postgis = postgis
  knn = knn
  Experiments <- PairAndSingle
  Related <- RelatedJoins
  RunsLimit <- SingleLimited
  Runs = 1
  Leftover = {knn}
  MaxDoubtful = 1
  MaxWorkers = 2
  Entrypoints <- AllButPostgis
  Skipped <- OnlyPostgis
INVARIANTS
  SuccessIsRecorded
  BatchLeavesRow
PROPERTIES
  ImplementsStore
