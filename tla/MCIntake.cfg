SPECIFICATION FairSpec
CONSTANTS
  Manual = {1, 2}
  Scanned = {3, 4}
  Contents <- Photos
  Captured = {1}
  MaxArrivals = 3
INVARIANTS
  TypeOK
  QueuedHasContent
  CaptionAnswersItsQuestion
  CaptureAccounted
PROPERTIES
  EveryUpdateIsServed
