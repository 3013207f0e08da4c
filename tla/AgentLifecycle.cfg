SPECIFICATION FairSpec
CONSTANT MaxLives = 3
INVARIANTS
    StopReleases
    FailedSpawnReaped
    LoopOffRepo
PROPERTIES
    SyncNowServed
    StopTerminates
    TermStops
    AlarmIsReal
CHECK_DEADLOCK FALSE
