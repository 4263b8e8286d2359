SPECIFICATION Spec
CONSTANTS
  MaxPieces = 2
  Sources <- MCSources
  Readers <- MCReaders
INVARIANT
  RowsAreTheSources
CHECK_DEADLOCK FALSE
