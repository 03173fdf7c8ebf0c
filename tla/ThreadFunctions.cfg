SPECIFICATION FairSpec
CONSTANTS
  Apps <- ThreeApps
  MaxExecIds = 3
  MaxRenders = 1
  MaxMainCalls = 2
  MaxBackgroundCalls = 2
  MaxCalls = 3
INVARIANTS HandlesKeepTheirFunction NoContextLeaks CallsRunInOrder
PROPERTY CallsReturn
CHECK_DEADLOCK FALSE
