SPECIFICATION SessionSpec
CONSTANTS
    PolicyReadOnly = TRUE
    MaxHeldBytes = 12
    ScratchMax = 4
    WireCap = 1
    ClientMessages <- MCMessages
    MaxExchanges = 3
    Window = 1
    Interrupts = TRUE
INVARIANT BackendResynced
CHECK_DEADLOCK FALSE
