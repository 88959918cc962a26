SPECIFICATION PullSpec
CONSTANTS
    MaxAttempts = 2
    Path = {"plain"}
    MaxPush = 3
    PageSize = 1
    NULL = NULL
INVARIANTS
    PullComplete
PROPERTIES
    AckIsFinal
