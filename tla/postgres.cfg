\* Two tasks of one serializeBy group on Postgres: one due at once, and one
\* that the user schedules beside it or in its place; two ticks, one fault, a
\* prompt cron, deliveries that end in the minute they were begun in.
SPECIFICATION PgFairSpec
CONSTANTS
    r1 = r1
    r2 = r2
    g1 = g1
    NULL = NULL
    Row = {r1, r2}
    Group = {g1}
    Tick = {t1, t2}
    Edit = {}
    RecurringRow = {r2}
    InitialTables = {{r1}}
    SchedulableRow = {r2}
    CancellableRow = {r1}
    GroupOf <- OneGroup
    FirstAt <- SecondLater
    Period = 20
    LeaseTTL = 2
    BackoffStep = 1
    MaxRetries = 1
    StaleAfter = 4
    PoolSize = 2
    FetchLimit = 2
    MaxTime = 9
    MaxFaults = 1
    MaxSend = 0
    ReschedulePeriod = 1
    TimelyHeartbeats = TRUE
    PromptCron = TRUE
    PayloadsReadable = TRUE
VIEW WithoutHistory
INVARIANT GroupExclusive
PROPERTY EventuallySettled
CHECK_DEADLOCK FALSE
