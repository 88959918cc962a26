SPECIFICATION FairSpec
CONSTANTS
    InitRequest = {i1, i2}
    UserRequest = {q1, q2}
    NULL = NULL
    MaxFaults = 2
    MaxAttempts = 3
    MaxChanges = 2
INVARIANT NoZombie
PROPERTY EventuallyReached
CHECK_DEADLOCK FALSE
