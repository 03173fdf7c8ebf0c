SPECIFICATION Spec
CONSTANTS
  LateChanges = TRUE
  MaxItems = 3
  MaxUpdates = 1
  MaxPatches = 3
INVARIANTS NativeShowsItems
CHECK_DEADLOCK FALSE
