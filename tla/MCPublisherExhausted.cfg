SPECIFICATION Spec
CONSTANTS
  Workers = {w1}
  Dashboard = dash
  Posts = {1}
  NoPost = none
  Products = {r1}
  Buckets = {b1}
  ProductOf <- OneProduct
  BucketOf <- OneBucket
  TypeOf <- OneType
  r1 = r1
  r2 = r2
  b1 = b1
  b2 = b2
  Limits = {1}
  MaxAttempts = 2
  MaxRetries = 1
  MaxCrashes = 0
INVARIANTS
  ExhaustedNeverCalled
