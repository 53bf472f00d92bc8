SPECIFICATION Spec
CONSTANTS
  knn = knn
  join = join
  Experiments <- OneShortOneLong
  LongIds <- OnlyJoin
  Configurations <- OfEntrypoints
  BucketLength = 2
  IngestionDelay = 3
  ServiceDelay = 2
  Bytes = {0, 1}
  MaxStart = 2
  MaxEnd = 4
  MaxLag = 3
INVARIANTS
  UsageIsOfTheBenchmark
CHECK_DEADLOCK FALSE
