SPECIFICATION Spec
CONSTANTS
    Kinds <- BothKinds
    Faults = TRUE
    MaxCommands = 2
INVARIANTS
    TypeOK
    ResultIsHonest
    SurvivorsKnown
PROPERTIES
    SpawnDies
    CallReturns
CHECK_DEADLOCK FALSE
