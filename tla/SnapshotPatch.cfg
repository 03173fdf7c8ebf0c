SPECIFICATION FairSpec
CONSTANTS
  MaxNodes = 3
  FirstScreen = 2
  Values <- OneValue
  MaxOps = 6
  MaxCommits = 3
INVARIANTS TypeOK MirrorsBackground InstancesInStep
PROPERTIES
  ImplementsMirror
  RemovedInstancesFreed
CHECK_DEADLOCK FALSE
