SPECIFICATION FairSession
CONSTANTS
    PolicyReadOnly = FALSE
    MaxHeldBytes = 12
    ScratchMax = 4
    WireCap = 1
    ClientMessages <- MCMessages
    MaxExchanges = 3
    Window = 2
    Interrupts = FALSE
INVARIANTS
    Transparent
CHECK_DEADLOCK FALSE
