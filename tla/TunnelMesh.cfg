SPECIFICATION MeshSpec
CONSTANTS
    Agent = {1, 2, 3}
    MaxDrops = 1
    MaxStarts = 2
INVARIANTS
    OneLink
CHECK_DEADLOCK FALSE
