SPECIFICATION Spec
CONSTANTS
  Workers = {w1, w2}
  Dashboard = dash
  Posts = {1, 2}
  NoPost = none
  Products = {r1}
  Buckets = {b1, b2}
  ProductOf <- OneProduct
  BucketOf <- TwoBuckets
  TypeOf <- OneType
  r1 = r1
  r2 = r2
  b1 = b1
  b2 = b2
  Limits = {0, 2}
  MaxAttempts = 2
  MaxRetries = 1
  MaxCrashes = 1
INVARIANTS
  ClaimExclusive
  ProcessingIsOwned
  ConfirmedIsDone
  OnlyConfirmedIsPublished
  AttemptBudget
  LiveAccounted
PROPERTIES
  CancelSticks
