CONSTANTS
    r1 = r1
    r2 = r2
    Runs = {r1, r2}
    Grader <- MCGrader
    Background <- MCBackground
    Driver <- MCDriver

SPECIFICATION Spec

INVARIANTS
    TypeOK
    LiveTreeIsWhole
    GradesAgree
    NothingLeftBehind

CHECK_DEADLOCK FALSE
