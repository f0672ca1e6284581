SPECIFICATION Spec
CONSTANTS
    Conns = {c1, c2, c3}
    NoConn = NoConn
    MaxConns = 2
    DrainTimeout = TRUE
    MaxFailures = 1
INVARIANTS
    SlotsMatchSessions
    ForceCloseMissesNone
    NothingLeftBehind
    SessionsDetached
PROPERTIES
    KeepsPromise
    ServeReturns
    NobodyQueues
CHECK_DEADLOCK FALSE
