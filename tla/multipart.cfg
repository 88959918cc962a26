SPECIFICATION Spec
CHECK_DEADLOCK FALSE
SYMMETRY ArrivalSymmetry
CONSTANTS
    a1 = a1
    a2 = a2
    a3 = a3
    a4 = a4
    Arrival = {a1, a2, a3, a4}
    Total = 2
    Limits = {1, 2}
    TTL = 1
    MaxTime = 2
    MaxFaults = 1
INVARIANTS
    HandedOnce
    CompleteWhenReceived
