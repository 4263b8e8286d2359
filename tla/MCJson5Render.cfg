SPECIFICATION Spec
CONSTANTS
  Scalars = {"a", "1"}
  Keys = {"a"}
  MaxEvents = 8
INVARIANTS
  NothingHeldBetweenRecords
  ReadsBack
  WholeRecords
PROPERTY
  WritesTheTree
CHECK_DEADLOCK FALSE
