\* Lost rows against README.md:247-249.
SPECIFICATION Spec
CONSTANTS
  first = first
  left = left
  middle = middle
  right = right
  last = last
  late = late
  Writers <- AllWriters
  Batch <- ThreeBatches
INVARIANTS
  RowsArePersisted
CHECK_DEADLOCK FALSE
