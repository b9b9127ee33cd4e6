SPECIFICATION FairSpec
CONSTANTS
  p1 = p1
  p2 = p2
  p3 = p3
  None = None
  Presentations = {p1, p2, p3}
  Place <- ThreePlaces
  WithMedia = {p1}
  RelayEnabled = TRUE
  MaxRetries = 1
  MaxDismissals = 2
  MaxCacheEntries = 1
  MaxStarts = 2
  MaxQueued = 2
  MaxFaults = 1
INVARIANTS ShowsTheFirst DismissalsLast TimerFits
PROPERTY ChecksInAgain
CHECK_DEADLOCK FALSE
