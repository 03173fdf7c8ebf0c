SPECIFICATION FairSpec
CONSTANTS
  c1 = c1
  c2 = c2
  c3 = c3
  c4 = c4
  g1 = g1
  g2 = g2
  NoGroup = NoGroup
  NoWorker = NoWorker
  Cards = {c1, c2, c3, c4}
  Groups = {g1, g2}
  group <- TwoGroups
INVARIANTS RunningCardsHaveWorkers WorkersFollowCards DestroyedFirst
PROPERTY DisposeReturns
CHECK_DEADLOCK FALSE
