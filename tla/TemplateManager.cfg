SPECIFICATION LoaderFairSpec
CONSTANTS
  BundleUrls = {u1}
  Requests = {r1, r2, r3}
  Sections <- EncoderOrder
  MaxLoads = 2
INVARIANTS LoaderTypeOK FetchedOnce CompleteWhenPrompt
PROPERTY EveryFetchEnds
CHECK_DEADLOCK FALSE
