--------------------------- MODULE MCPhaseMetrics ---------------------------
\* Two runs whose joins have two stages: the second finds a listener and a view of
\* the first, and its own stages can be interleaved with late events of it.
EXTENDS PhaseMetrics
=============================================================================
