CONSTANTS
    Commands <- MCCommands16K
    Slots = 2
    MinContext <- MCMinContext
    AdvertisedMax = 16384
    Faults = TRUE
    MaxSessions = 3
    MaxVersion = 2

SPECIFICATION Spec

INVARIANTS
    CompletedIsWhole

PROPERTIES
    CommandReturns

CHECK_DEADLOCK FALSE
