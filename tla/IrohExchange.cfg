SPECIFICATION ExchangeFairSpec
CONSTANTS
    Request = {r1, r2, r3}
    Peer = {p, q}
    Nobody = Nobody
    MaxConns = 3
INVARIANTS
    OneConnection
    FailureHasCause
PROPERTIES
    LockPassedOn
CHECK_DEADLOCK FALSE
