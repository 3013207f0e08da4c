SPECIFICATION FairSpec
CONSTANTS
  Leaf = {a, b}
  CanServe = {a}
  Server = {fossil}
  Commit = {c, d}
  MaxRounds = 3
  MaxFailures = 1
  MaxFlaps = 1
INVARIANTS SentMeansHeld
PROPERTIES EveryLeafConverges SessionEnds
