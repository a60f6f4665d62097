CONSTANTS
    Content = 0
    Reasoning = 1
    Arguments <- MCArguments
    MaxChunks = 1
    MaxTurns = 2
    MaxCalls = 1
    Separators = TRUE

SPECIFICATION Spec

INVARIANT EndIsAuthoritative

CHECK_DEADLOCK FALSE
