SPECIFICATION Spec
CONSTANTS
  Boards = {b1}
  MaxStrokes = 4
  MaxLosses = 2
INVARIANTS
  SavedWasStored
  AloneNeverStale
PROPERTIES
  ImplementsDocument
CHECK_DEADLOCK FALSE
