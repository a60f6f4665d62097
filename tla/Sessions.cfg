CONSTANTS
    Commands <- MCCommands
    Slots = 2
    MinContext <- MCMinContext
    AdvertisedMax = 16384
    Faults = TRUE
    MaxSessions = 3
    MaxVersion = 2

SPECIFICATION Spec

INVARIANTS
    TypeOK
    RecordedOnce
    OneVersionPerFile
    ReportCountsOnce
    NeverRedone
    
    EnvironmentIsTheRuns

PROPERTIES
    ImplementsLedger

CHECK_DEADLOCK FALSE
