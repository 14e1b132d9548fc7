SPECIFICATION Spec
CONSTANTS
  Workers = {w1}
  Dashboard = dash
  Posts = {1, 2}
  NoPost = none
  Products = {r1, r2}
  Buckets = {b1}
  ProductOf <- TwoProducts
  BucketOf <- OneBucket
  TypeOf <- OneType
  r1 = r1
  r2 = r2
  b1 = b1
  b2 = b2
  Limits = {0, 1}
  MaxAttempts = 2
  MaxRetries = 0
  MaxCrashes = 1
INVARIANTS
  TypeOK
  SlotsAccounted
  WithinLimit
PROPERTIES
  ImplementsSlotPool
