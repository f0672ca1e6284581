SPECIFICATION Spec
CONSTANTS
    MaxStartupReads = 3
    MaxPackets = 4
INVARIANTS
    NoDeadlineOnRelay
    UpstreamReleased
    AnswersMatchRequests
PROPERTIES
    StartupEnds
    ForcedStartupEnds
CHECK_DEADLOCK FALSE
