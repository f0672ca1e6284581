SPECIFICATION Spec
CONSTANTS
    Total = 5
    ChunkSize = 2
    SockCap = 3
    Timeout = 3
INVARIANTS
    ProgressSurvives
PROPERTIES
    TransferEnds
CHECK_DEADLOCK FALSE
