SPECIFICATION FairSpec
CHECK_DEADLOCK FALSE
CONSTANTS
  sedona = sedona
  geopandas = geopandas
  Libraries <- TwoLibraries
  Warmups = 1
  Ceiling = 3
  MaxConsecutive = 2
INVARIANTS
  OnlyAbandonedRunsOverlap
  NoOrphan
  ReadyBeforeRun
  TimedOnWarmCluster
PROPERTIES
  EveryClusterTornDown
  ProcessEnds
