\* Three arrivals of one message, within its TTL or after, one fault.
SPECIFICATION Spec
CONSTANTS
    NULL = NULL
    Delivery = {d1, d2, d3}
    TTL = 1
    Renders = {TRUE, FALSE}
    ShowMayFail = TRUE
    MaxTime = 1
    MaxFaults = 1
SYMMETRY DeliverySymmetry
INVARIANTS FailureRemembered PendingMeansUnderWay
PROPERTIES OneFirst RerunOnlyAfterFailure AnswersHonest
CHECK_DEADLOCK FALSE
