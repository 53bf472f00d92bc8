--------------------------- MODULE MCOrchestrator ---------------------------
\* Two batches: two joins that run together, and a single experiment that is
\* limited to the first of two runs.
EXTENDS Orchestrator

CONSTANTS duckdb, postgis, knn

PairAndSingle == {duckdb, postgis, knn}

RelatedJoins ==
  [e \in Experiments |-> IF e = knn THEN {} ELSE {duckdb, postgis} \ {e}]

SingleLimited == [e \in Experiments |-> IF e = knn THEN 1 ELSE 2]
=============================================================================
