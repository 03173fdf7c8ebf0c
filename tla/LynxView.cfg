SPECIFICATION FairViewSpec

CONSTANTS
  Urls = {u1, u2, u3}
  NoUrl = NoUrl
  None = None

INVARIANTS
  FreshStart
  ShowsItsUrl

PROPERTY EventuallyShown

