SPECIFICATION FairSpec
CONSTANTS
  Items <- TwoItems
  Types <- SameTypes
  ReuseIds <- NoneOrSome
  Deferred = {"a"}
  MaxUpdates = 2
  MaxEvents = 2
INVARIANTS TypeOK ElementsFollowItems PoolsAreIdle KeptContentIsShown
PROPERTY AskedIsAnswered
CHECK_DEADLOCK FALSE
