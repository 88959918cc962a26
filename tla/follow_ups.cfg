SPECIFICATION Spec
CONSTANTS
    a = a
    b = b
    c = c
    d = d
    NULL = NULL
    Task = {a, b, d}
    Root = {a}
    Parent <- ParentOf
    Depth <- DepthOf
    Slot = {s1, s2}
    Call = {c1, c2}
    Quota = 1
    Lead = 1
    Backoff = 1
    MaxRetries = 1
    MaxFaults = 1
    MaxTime = 1
    Ahead = 1
SYMMETRY SlotSymmetry
CHECK_DEADLOCK FALSE
INVARIANTS
    QuotaHolds
    ChainIsSlow
