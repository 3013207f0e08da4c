SPECIFICATION Spec
CONSTANTS
  Committer = {c1}
  Pusher = {h1}
  Catchup = catchup
  MaxRid = 2
  MaxFaults = 1
  MaxStarts = 2
INVARIANT WatermarkEmitted
CHECK_DEADLOCK FALSE
