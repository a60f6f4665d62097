CONSTANTS
    Drivers = {"native", "pi"}
    Lists <- MCLists
    Standalone <- MCStandalone
    TaskCount <- MCTaskCount
    Repetitions <- MCRepetitions
    MinPasses = 1
    Outcomes <- MCOutcomes

SPECIFICATION Spec

INVARIANTS
    TypeOK
    GatedEvidence
    VerdictStands

CHECK_DEADLOCK FALSE
