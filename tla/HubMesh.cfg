SPECIFICATION FairSpec
CONSTANTS
  Hub = {a, b}
  Commit = {u, v}
  Named = {a}
  NoNote = NoNote
  MaxLosses = 1
  MaxCrashes = 1
INVARIANTS NoteBacked
PROPERTIES Replicates PullCatchesUp PullEnds GossipEnds Converges
CHECK_DEADLOCK FALSE
