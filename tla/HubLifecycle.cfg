SPECIFICATION FairSpec
CONSTANTS
    Stopper = {main, s2}
    Main = main
    Request = {r1}
    Code = {p, q}
    NoCode = NoCode
    NoFile = NoFile
    MaxLives = 2
INVARIANTS
    NoLeak
    RightProject
    RepoUnused
    StopComplete
PROPERTIES
    StopTerminates
    SignalStops
CHECK_DEADLOCK FALSE
