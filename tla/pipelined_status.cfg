SPECIFICATION SessionSpec
CONSTANTS
    PolicyReadOnly = TRUE
    MaxHeldBytes = 12
    ScratchMax = 4
    WireCap = 1
    ClientMessages <- MCMessages
    MaxExchanges = 3
    Window = 2
    Interrupts = FALSE
INVARIANT TruthfulReady
CHECK_DEADLOCK FALSE
