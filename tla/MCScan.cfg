SPECIFICATION Spec
CONSTANTS
  Channels = {1}
  Monitors = {1, 2, 3}
  Prepared = {1, 2}
  Histories <- Pasts
  Start = 1
  InitialSpan = 1
  CatchupGap = 0
  LastId = 2
  LastTick = 3
  MaxFaults = 1
INVARIANTS
  TypeOK
  CursorHonest
PROPERTIES
  OldOnlyIfLeftOut
  ScanIsComplete
