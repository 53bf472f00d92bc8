-------------------------- MODULE MCSetupPipeline --------------------------
\* Two counties with two conflated files each, and up to two setups on two
\* days, each of which may fail at every step.
EXTENDS SetupPipeline, TLC

CONSTANTS oslo, rogaland

TwoRegions == {oslo, rogaland}

\* The second of the two components of the shapefile may be missing.
SecondOnly == {2}

\* The counties are interchangeable.
Symmetry == Permutations(TwoRegions)

=============================================================================
