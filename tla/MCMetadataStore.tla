-------------------------- MODULE MCMetadataStore --------------------------
\* A suite of three batches in any order: a lone experiment, three members that
\* record concurrently, and two.
EXTENDS MetadataStore, TLC

CONSTANTS first, left, middle, right, last, late

AllWriters == {first, left, middle, right, last, late}

ThreeBatches ==
  [w \in AllWriters |-> IF w = first THEN 1 ELSE IF w \in {last, late} THEN 3 ELSE 2]

Symmetric == Permutations({left, middle, right}) \cup Permutations({last, late})
=============================================================================
