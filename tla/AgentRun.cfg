CONSTANTS
    Calls <- MCCalls
    HistoryModes <- BothModes
    MissingIds = FALSE
    Directories <- MCDirectories
    MaxSteps = 4
    IdenticalLimit = 3
    MalformedLimit = 5
    MaxFragments = 2

SPECIFICATION Spec

INVARIANTS
    TypeOK
    CountersAgree
    RequestsAnswered
    RecordAddsUp

PROPERTIES
    EndsByTable
    RunEnds

CHECK_DEADLOCK FALSE
