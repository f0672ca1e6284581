SPECIFICATION Spec
CONSTANTS
    LengthValues = 16
    MaxStartup = 9
    MaxMessage = 14
    Chunk = 2
    ScratchMax = 1
    MaxHeld = 3
    MaxSent = 32
INVARIANTS
    InStep
    CleanCloseOnlyBetweenMessages
    BufferFollowsBytes
PROPERTIES
    ReaderEnds
CHECK_DEADLOCK FALSE
