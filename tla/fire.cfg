SPECIFICATION Spec
CONSTANTS
    MaxAttempts = 2
    Path = {"plain", "hook"}
    MaxPush = 2
    MaxRounds = 1
    MaxRetries = 1
    MaxFaults = 1
    MaxConfirmed = 1
    NULL = NULL
VIEW WhatIsRead
CHECK_DEADLOCK FALSE
INVARIANTS
    RecordedAsSent
    MarksTruthful
    SettledOnce
    RowTruthful
    TwiceOnlyIfOverlapped
