SPECIFICATION LoaderSpec
CONSTANTS
  BundleUrls = {u1}
  Requests = {r1, r2}
  Sections <- EncoderOrder
  MaxLoads = 2
INVARIANT NoPartialBundle
CHECK_DEADLOCK FALSE
