SPECIFICATION FairSpec
CONSTANTS
  e1 = e1
  e2 = e2
  Goroutines = {g1, g2}
  Ids = {e1, e2}
  Share <- Shares
  Buckets = 4
  CacheTTL = 2
  None = None
  Failed = Failed
INVARIANTS TypeOK OneFetchPerExpiry SharesAreHonoured
PROPERTIES StaleBeatsError CallsReturn
