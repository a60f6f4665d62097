CONSTANTS
    Content = 2
    Reasoning = 1
    Arguments <- MCArguments
    MaxChunks = 7
    MaxTurns = 2
    MaxCalls = 2
    Separators = FALSE

SPECIFICATION Spec

INVARIANTS
    TypeOK
    TurnIsWhatWasSent
    LogIsTheConversation

CHECK_DEADLOCK FALSE
