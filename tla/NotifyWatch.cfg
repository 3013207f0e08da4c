SPECIFICATION WatchFairSpec
CONSTANTS
  Capacity = 2
  MaxSeen = 2
  MaxMsgs = 5
  MaxId = 3
INVARIANTS LiveWatchNeverPanics InOrderNoGaps
PROPERTIES CancelCloses
CHECK_DEADLOCK FALSE
