---------------------------- MODULE MCConflation ----------------------------
\* Two buildings of each source, two grid cells, two regions: chains of
\* partners, duplicates inside a source and buildings on the border.
EXTENDS Conflation, TLC

CONSTANTS f1, f2, o1, o2, oslo, akershus

TwoFkb == {f1, f2}
TwoOsm == {o1, o2}
TwoRegions == {oslo, akershus}

\* Touching, exactly at the threshold, above it.
TouchingToEqual == {0, 70, 71}

Symmetry == Permutations(TwoFkb) \cup Permutations(TwoOsm) \cup Permutations(TwoRegions)
=============================================================================
