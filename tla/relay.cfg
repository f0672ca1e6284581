SPECIFICATION RelaySpec
CONSTANTS
    SockCap = 1
    MaxRequests = 3
    StallGuard = TRUE
INVARIANTS
    PumpsJoined
    HalfCloseServedOut
    CausalResult
PROPERTIES
    DepartedClientEndsSession
    EndedPumpEndsSession
    ReplyGoesOut
CHECK_DEADLOCK FALSE
