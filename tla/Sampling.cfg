CONSTANTS
    Levels = {1, 2}
    Swaps = {0, 1}
    Candidates = {"backend", "helper"}
    Backend = "backend"
    Footprint <- MCFootprint
    Rss <- MCRss
    MinPlausible = 2

SPECIFICATION Spec

INVARIANTS
    TypeOK
    RecordIsOneAttempt

PROPERTY ProcessExits

CHECK_DEADLOCK FALSE
