SPECIFICATION FairSpec
CONSTANTS
  worker = worker
  runner = runner
  Products = {1}
  Worker = worker
  Runners = {runner}
  MaxAttempts = 2
  Cooldown = 1
  DayLength = 1
  DefaultLimit = 1
  Limits = {0, 1}
  LastTick = 1
  MaxRuns = 1
  MaxChanges = 1
  MaxKills = 1
INVARIANTS
  TypeOK
  ProcessingExplained
  StoriesTakeTurns
  StorySlotsExact
PROPERTIES
  SkipIsHeeded
  StoriesEnd
