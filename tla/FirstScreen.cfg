SPECIFICATION FairSpec
CONSTANTS
  Timings <- AllTimings
  Apps <- AllApps
  MaxUpdates = 2
  MaxReloads = 2
  MaxEvents = 2
  MaxCommits = 1
INVARIANTS HandedOverOnce EventsFindTheirHandler AcceptedPatchesMatchRoot HydrationCompletes
PROPERTY EventuallyHydrated
CHECK_DEADLOCK FALSE
