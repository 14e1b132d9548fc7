SPECIFICATION FairSpec
CONSTANTS
  Products = {1}
  Preferred <- PostsOnly
  HasVideo <- Videos
  Score <- Equal
  DefaultType = "POST"
  DefaultLimit = 2
  Limits = {2}
  LastDay = 1
  MaxRetries = 0
  MaxKills = 0
  MaxChanges = 0
  Concurrent = TRUE
PROPERTIES
  PublisherIsReached
