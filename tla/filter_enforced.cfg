SPECIFICATION FilterSpec
CONSTANTS
    PolicyReadOnly = TRUE
    MaxHeldBytes = 12
    ScratchMax = 4
    WireCap = 1
    ClientMessages <- MCMessages
    MaxExchanges = 2
INVARIANTS
    NothingRefusedForwarded
    PrefixTracksWire
    DenySettlesRight
    HeldWithinBudget
    TornIsLast
PROPERTIES
    GateSpec
CHECK_DEADLOCK FALSE
