SPECIFICATION Spec
CONSTANTS
  Agent = {a, b}
  Mode = {"off", "on", "pullOnly"}
  Bypass = {"none", "branch"}
  MaxCommits = 3
  MaxDirect = 2
  MaxFailures = 1
SYMMETRY Symmetry
INVARIANTS NoSilentCommit ForkHasCause
CHECK_DEADLOCK FALSE
