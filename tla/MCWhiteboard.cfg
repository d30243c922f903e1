SPECIFICATION FairSpec
CONSTANTS
  Boards = {b1, b2}
  MaxStrokes = 4
  MaxLosses = 0
INVARIANTS
  SavedMeansStored
PROPERTIES
  Settles
CHECK_DEADLOCK FALSE
