CONSTANTS
    Commands <- MCSamplingCommands
    Slots = 2
    MinContext <- MCMinContext
    AdvertisedMax = 16384
    Faults = FALSE
    MaxSessions = 4
    MaxVersion = 1

SPECIFICATION Spec

INVARIANT DriversNeverPooled

CHECK_DEADLOCK FALSE
