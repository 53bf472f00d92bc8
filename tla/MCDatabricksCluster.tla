------------------------ MODULE MCDatabricksCluster ------------------------
\* One cluster with two libraries, a warmup call and up to three timed calls.
EXTENDS DatabricksCluster

CONSTANTS sedona, geopandas

TwoLibraries == {sedona, geopandas}
=============================================================================
