CONSTANTS
    r1 = r1
    r2 = r2
    Runs = {r1, r2}
    Grader <- MCGrader
    Background <- MCBackground
    Driver <- MCDriver

SPECIFICATION Spec

INVARIANT CountedIsGone

CHECK_DEADLOCK FALSE
