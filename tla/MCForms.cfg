SPECIFICATION FairSpec
CONSTANTS
  MaxEdits = 2
  MaxBlurs = 2
  MaxAsides = 1
  MaxLosses = 1
INVARIANTS
  EnteredStays
  SavedIsStored
PROPERTIES
  ItemStays
  ChangesSettle
CHECK_DEADLOCK FALSE
