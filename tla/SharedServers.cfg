CONSTANTS
    p1 = p1
    p2 = p2
    m1 = m1
    m2 = m2
    Processes <- MCProcesses
    Models <- MCModels
    Faults = TRUE
    MaxSessions = 3

SPECIFICATION Spec

INVARIANTS
    TypeOK
    StageHasItsModel
    ContainerIsThere
    LeaksOnlyByFaults

PROPERTIES
    BodyStrandsNothing
    SessionsEnd

CHECK_DEADLOCK FALSE
