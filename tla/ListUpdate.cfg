SPECIFICATION Spec
CONSTANTS
  LateChanges = FALSE
  MaxItems = 4
  MaxUpdates = 1
  MaxPatches = 3
INVARIANTS TypeOK NativeShowsItems UpdatesReachTheirItem
CHECK_DEADLOCK FALSE
