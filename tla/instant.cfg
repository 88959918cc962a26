SPECIFICATION FairSpec
CONSTANTS
    MaxRounds = 2
    MaxBatch = 2
    Parts = 1
    Wraps = {"blob"}
    MaxItems = 3
    Timeout = 2
    Grace = 2
    MaxBuild = 1
INVARIANTS OutcomeTrue AnswerTrue CleanMeansHandled ReportedOnce
PROPERTY Resolves
VIEW WhatIsRead
CHECK_DEADLOCK FALSE
