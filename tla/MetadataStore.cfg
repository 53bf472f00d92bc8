\* Concurrent appends to the metadata table, batch after batch.
SPECIFICATION Spec
CONSTANTS
  first = first
  left = left
  middle = middle
  right = right
  last = last
  late = late
  Writers <- AllWriters
  Batch <- ThreeBatches
SYMMETRY Symmetric
INVARIANTS
  OnlyPeersLoseRows
  SomeRowOfBatchSurvives
PROPERTIES
  SettledRowsStay
CHECK_DEADLOCK FALSE
