SPECIFICATION FairSpec
CONSTANTS
  Committer = {c1}
  Pusher = {h1}
  Catchup = catchup
  MaxRid = 2
  MaxFaults = 1
  MaxStarts = 2
INVARIANTS InRidOrder WatermarkSettled NoLostCommit
PROPERTY BacklogDrains
CHECK_DEADLOCK FALSE
