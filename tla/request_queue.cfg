SPECIFICATION FairSpec
CHECK_DEADLOCK FALSE
CONSTANTS
    Malformed = Malformed
    NoHandle = NoHandle
    Request = {r1, r2}
    Event = {e1, e2}
    Handles = 2
    MaxFaults = 1
INVARIANTS
    SurvivesOneDeath
PROPERTIES
    RemovedOnlySettled
    ProcessedInOrder
    EventuallySent
