SPECIFICATION Spec
CONSTANTS
    Total = 5
    ChunkSize = 2
    SockCap = 3
    Timeout = 3
INVARIANT StallIsTheClients
CHECK_DEADLOCK FALSE
