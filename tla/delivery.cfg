\* One task alone, one-off or recurring, two overlapping ticks, two faults,
\* payloads that may not decrypt, an update at any moment of a delivery.
SPECIFICATION Spec
CONSTANTS
    r1 = r1
    r2 = r2
    g1 = g1
    NULL = NULL
    Row = {r1, r2}
    Group = {g1}
    Tick = {t1, t2}
    Edit = {e1}
    RecurringRow = {r2}
    InitialTables = {{r1}, {r2}}
    SchedulableRow = {}
    CancellableRow = {}
    GroupOf <- NoGroups
    FirstAt <- AllDueAtStart
    Period = 3
    LeaseTTL = 2
    BackoffStep = 1
    MaxRetries = 1
    StaleAfter = 2
    PoolSize = 2
    FetchLimit = 2
    MaxTime = 3
    MaxFaults = 2
    MaxSend = 9
    ReschedulePeriod = 1
    TimelyHeartbeats = TRUE
    PromptCron = FALSE
    PayloadsReadable = FALSE
SYMMETRY TickSymmetry
INVARIANTS RowExclusive NoGhostLease GiveUpEarned UpdateKept FailedNotDelivered RemovedOnlyIfDelivered
PROPERTY NoUnprovokedResend
CHECK_DEADLOCK FALSE
