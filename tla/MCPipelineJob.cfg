SPECIFICATION FairSpec
CONSTANTS
  Products = {1, 2}
  Preferred <- Preferences
  HasVideo <- Videos
  Score <- Equal
  DefaultType = "POST"
  DefaultLimit = 1
  Limits = {0, 1}
  LastDay = 2
  MaxRetries = 1
  MaxKills = 1
  MaxChanges = 1
  Concurrent = FALSE
INVARIANTS
  TypeOK
  OneActiveRow
  NotOverbooked
  NoConflict
PROPERTIES
  FinalForTheWorker
  PublisherIsReached
