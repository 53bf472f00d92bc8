-------------------------- MODULE MCBenchmarkSuite --------------------------
\* Two batches: two joins that run together, one of them skipped, and a single
\* experiment.
EXTENDS BenchmarkSuite

CONSTANTS duckdb, postgis, knn

PairAndSingle == {duckdb, postgis, knn}

RelatedJoins ==
  [e \in Experiments |-> IF e = knn THEN {} ELSE {duckdb, postgis} \ {e}]

SingleLimited == [e \in Experiments |-> IF e = knn THEN 1 ELSE 2]

AllButPostgis == {duckdb, knn}
OnlyPostgis   == {postgis}
=============================================================================
