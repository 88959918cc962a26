------------------------------- MODULE RunTick -------------------------------
(***************************************************************************)
(* The delivery loop of the amsg server (lib/run-tick.js).                 *)
(*                                                                         *)
(* A tick is one invocation of runScheduledTick (cron, or the HTTP         *)
(* send-notifications endpoint) or of runTask (a queue consumer).  Ticks   *)
(* overlap freely: cron starts one every minute whether or not the         *)
(* previous one has finished.  A tick reads due rows once, keeps that      *)
(* snapshot in memory, and works through it with a bounded pool: it claims *)
(* a row by writing a lease, delivers it while a heartbeat renews the      *)
(* lease, and finally writes the outcome back.  job[t][r] is what tick t   *)
(* holds of row r: its snapshot and how far it has come.                   *)
(***************************************************************************)
EXTENDS TaskStore

CONSTANTS
    Tick,            \* invocations that may be running at the same time
    LeaseTTL,        \* a claim or a heartbeat leases the row for this long
    BackoffStep,     \* unit of the retry backoff
    MaxRetries,      \* retry_count at which the next failure is final
    StaleAfter,      \* staleAfterMs
    PoolSize,        \* MAX_CONCURRENT
    FetchLimit,      \* argument of getPendingTasks
    MaxTime,         \* bound: the clock stops here
    MaxFaults,       \* bound: crashes and failing writes in one behaviour
    TimelyHeartbeats,\* assumption: a live delivery never lets its lease lapse
    MaxSend,         \* assumption: a delivery takes at most this long
    PromptCron,      \* assumption: the clock waits for due work to be started
    PayloadsReadable \* assumption: every payload decrypts

ASSUME TickConstants ==
    /\ LeaseTTL \in Nat \ {0}
    /\ BackoffStep \in Nat \ {0}
    /\ MaxRetries \in Nat
    /\ StaleAfter \in Nat
    /\ PoolSize \in Nat
    /\ FetchLimit \in Nat
    /\ MaxTime \in Nat
    /\ MaxFaults \in Nat
    /\ MaxSend \in Nat
    /\ {TimelyHeartbeats, PromptCron, PayloadsReadable} \subseteq BOOLEAN

VARIABLES
    job,        \* job[t][r]: tick t's snapshot of row r and its progress
    beat,       \* beat[t][r]: lease_until of a renewal under way, or NULL
    cronRan,    \* under PromptCron: 1 + the last instant cron fired
    faults,     \* faults injected so far
    delivered,  \* history: <<row, occurrence>> whose pushes went out
    faulted,    \* history: deliveries whose outcome could not be recorded
    attempts,   \* history: attempts on a row since it was last (re)started
    settled,    \* history: how each occurrence was settled, after how many
    abandoned   \* history: rows left with a lease nobody will release

historyVars == <<delivered, faulted, attempts, settled, abandoned>>
tickVars == <<job, beat, cronRan, faults>>
runTickVars == <<storeVars, tickVars, historyVars>>

(* A job of a tick: what getPendingTasks or getTaskByUuidOnly returned for *)
(* the row, and when its delivery began.                                   *)
Progress == {"none", "queued", "sending", "stale", "unreadable", "sent"}
Job == [pc           : Progress,
        readable     : BOOLEAN,
        next_send_at : Time,
        retry_count  : Nat,
        retry_after  : Time \cup {NULL},
        payload      : SUBSET Edit,
        began        : Time]

NoJob == [pc |-> "none", readable |-> TRUE, next_send_at |-> 0, retry_count |-> 0,
          retry_after |-> NULL, payload |-> {}, began |-> 0]

Snapshot(r, readable) ==
    [pc |-> "queued", readable |-> readable,
     next_send_at |-> table[r].next_send_at,
     retry_count |-> table[r].retry_count,
     retry_after |-> table[r].retry_after,
     payload |-> table[r].payload, began |-> 0]

Outcome == [id : Row, occurrence : Time, attempts : Nat,
            how : {"delivered", "exhausted", "permanent", "stale"}]

RunTickTypeOK ==
    /\ TableTypeOK
    /\ job \in [Tick -> [Row -> Job]]
    /\ beat \in [Tick -> [Row -> Time \cup {NULL}]]
    /\ cronRan \in Nat
    /\ faults \in Nat
    /\ delivered \subseteq Row \X Time
    /\ faulted \subseteq Row \X Time
    /\ attempts \in [Row -> Nat]
    /\ settled \subseteq Outcome
    /\ abandoned \subseteq Row

RunTickInit ==
    /\ job = [t \in Tick |-> [r \in Row |-> NoJob]]
    /\ beat = [t \in Tick |-> [r \in Row |-> NULL]]
    /\ cronRan = 0
    /\ faults = 0
    /\ delivered = {}
    /\ faulted = {}
    /\ attempts = [r \in Row |-> 0]
    /\ settled = {}
    /\ abandoned = {}

-----------------------------------------------------------------------------
(* Reading a batch                                                         *)

Idle(t) == \A r \in Row : job[t][r].pc = "none"
Active(t, r) == job[t][r].pc \in {"sending", "stale", "unreadable", "sent"}
InFlight(t) == Cardinality({r \in Row : Active(t, r)})

(* The pre-scan of deliverTasks: of the readable tasks of one group only   *)
(* the earliest goes on, the others wait for a later tick.                 *)
Reserved(S) ==
    {K \in SUBSET S : \A r \in S :
        LET rivals == {q \in S : GroupOf[q] = GroupOf[r]} IN
        IF GroupOf[r] = NULL THEN r \in K
        ELSE \E k \in rivals :
                /\ K \cap rivals = {k}
                /\ \A q \in rivals : table[k].next_send_at <= table[q].next_send_at}

UnreadablePayloads(S) == IF PayloadsReadable THEN {{}} ELSE SUBSET S

(* Fetch due rows, decrypt each, reserve the groups.                       *)
Fetched(t) ==
    \E batch \in PendingTasks(FetchLimit) \ {{}} :
    \E unreadable \in UnreadablePayloads(batch) :
    \E readable \in Reserved(batch \ unreadable) :
       job' = [job EXCEPT ![t] = [r \in Row |->
                 IF r \in readable \cup unreadable
                 THEN Snapshot(r, r \in readable) ELSE NoJob]]

(* runScheduledTick.                                                       *)
FetchBatch(t) ==
    /\ Idle(t)
    /\ PromptCron => cronRan <= now
    /\ cronRan' = IF PromptCron THEN now + 1 ELSE cronRan
    /\ Fetched(t)
    /\ UNCHANGED <<storeVars, beat, faults, historyVars>>

(* runTask: one row by uuid, unless it is not due or in its backoff.  A    *)
(* host without a queue never calls it: PromptCron is about such a host.   *)
RunTask(t, r) ==
    /\ ~PromptCron
    /\ Idle(t)
    /\ Pending(r)
    /\ table[r].next_send_at <= now
    /\ BackoffOver(r)
    /\ \E readable \in {TRUE, PayloadsReadable} :
          job' = [job EXCEPT ![t][r] = Snapshot(r, readable)]
    /\ UNCHANGED <<storeVars, beat, cronRan, faults, historyVars>>

-----------------------------------------------------------------------------
(* Claiming a row                                                          *)

(* The queue is served in next_send_at order while the pool has room; the  *)
(* claims of the tasks taken from it together may land in any order.       *)
NextInQueue(t, r) ==
    /\ job[t][r].pc = "queued"
    /\ LET earlier == {q \in Row : /\ job[t][q].pc = "queued"
                                    /\ job[t][q].next_send_at < job[t][r].next_send_at}
       IN InFlight(t) + Cardinality(earlier) < PoolSize

(* An unreadable payload has no group.                                     *)
JobGroup(t, r) == IF job[t][r].readable THEN GroupOf[r] ELSE NULL

ClaimSucceeds(t, r) == Claimable(r, job[t][r].next_send_at, JobGroup(t, r))

(* The staleness guard, which reads the snapshot and not the row.          *)
TooOld(j) == /\ now - j.next_send_at > StaleAfter
             /\ j.retry_count > 0 => /\ j.retry_after # NULL
                                     /\ now - j.retry_after > StaleAfter

FirstStep(j) == IF ~j.readable THEN "unreadable"
                ELSE IF TooOld(j) THEN "stale" ELSE "sending"

ClaimGranted(t, r) ==
    /\ NextInQueue(t, r)
    /\ ClaimSucceeds(t, r)
    /\ ClaimTask(r, now + LeaseTTL, JobGroup(t, r))
    /\ job' = [job EXCEPT ![t][r] =
                 [job[t][r] EXCEPT
                    !.pc = FirstStep(job[t][r]),
                    !.began = IF PromptCron THEN now ELSE 0]]
    /\ attempts' = [attempts EXCEPT ![r] =
                       IF FirstStep(job[t][r]) = "stale" THEN @ ELSE @ + 1]
    /\ abandoned' = abandoned \ {r}
    /\ UNCHANGED <<now, beat, cronRan, faults, delivered, faulted, settled>>

(* Somebody else has the row or its group, or the row has changed: skip.   *)
ClaimRefused(t, r) ==
    /\ NextInQueue(t, r)
    /\ ~ClaimSucceeds(t, r)
    /\ job' = [job EXCEPT ![t][r] = NoJob]
    /\ UNCHANGED <<storeVars, beat, cronRan, faults, historyVars>>

(* The claim throws, with or without having reached the database: the task *)
(* is not delivered ("rather not send").                                   *)
ClaimThrows(t, r) ==
    /\ faults < MaxFaults
    /\ faults' = faults + 1
    /\ NextInQueue(t, r)
    /\ job' = [job EXCEPT ![t][r] = NoJob]
    /\ \/ UNCHANGED <<table, abandoned>>
       \/ /\ ClaimSucceeds(t, r)
          /\ ClaimTask(r, now + LeaseTTL, JobGroup(t, r))
          /\ abandoned' = abandoned \cup {r}
    /\ UNCHANGED <<now, beat, cronRan, delivered, faulted, attempts, settled>>

-----------------------------------------------------------------------------
(* Heartbeat                                                               *)

(* A slip: the renewal carries the instant it was sent.                    *)
SendBeatWithoutTTL(t, r) ==
    /\ Active(t, r)
    /\ beat[t][r] = NULL
    /\ beat' = [beat EXCEPT ![t][r] = now]
    /\ UNCHANGED <<storeVars, job, cronRan, faults, historyVars>>

(* The timer fires: the request carries a lease computed from the clock of *)
(* that moment, and names the row by id only.                              *)
SendBeat(t, r) ==
    /\ Active(t, r)
    /\ beat[t][r] = NULL
    /\ beat' = [beat EXCEPT ![t][r] = now + LeaseTTL]
    /\ UNCHANGED <<storeVars, job, cronRan, faults, historyVars>>

(* The renewal reaches the database, perhaps after the delivery is over.   *)
LandBeat(t, r) ==
    /\ beat[t][r] # NULL
    /\ RenewTaskLease(r, beat[t][r])
    /\ beat' = [beat EXCEPT ![t][r] = NULL]
    /\ UNCHANGED <<now, job, cronRan, faults, historyVars>>

-----------------------------------------------------------------------------
(* Delivering a claimed row                                                *)

Released(row) == [row EXCEPT !.lease_until = NULL, !.retry_after = NULL]

(* A slip: the row is written back with the payload it was created with.   *)
FinalFailureDroppingUpdates(r, j) ==
    IF r \in RecurringRow /\ j.readable
    THEN [Released(table[r]) EXCEPT
            !.next_send_at = NextFutureOccurrence(j.next_send_at),
            !.retry_count = 0, !.payload = {}]
    ELSE [Released(table[r]) EXCEPT !.status = "failed"]

(* What is written when a delivery has failed.  The new column values come *)
(* from the snapshot; an unreadable payload has no recurrence type, so the *)
(* row is treated as a one-off task.                                       *)
FinalFailure(r, j) ==
    IF r \in RecurringRow /\ j.readable
    THEN [Released(table[r]) EXCEPT
            !.next_send_at = NextFutureOccurrence(j.next_send_at),
            !.retry_count = 0, !.payload = j.payload]
    ELSE [Released(table[r]) EXCEPT
            !.status = "failed",
            !.payload = IF j.readable THEN j.payload ELSE @]

ScheduledRetry(r, j) ==
    [table[r] EXCEPT !.retry_after = now + (j.retry_count + 1) * BackoffStep,
                     !.retry_count = j.retry_count + 1,
                     !.lease_until = NULL]

Settle(r, j, how) ==
    settled' = settled \cup {[id |-> r, occurrence |-> j.next_send_at,
                              attempts |-> attempts[r], how |-> how]}

(* The last permitted attempt has failed.                                  *)
GivesUp(j) == j.retry_count >= MaxRetries

(* handleDeliveryFailure with a database that answers.                     *)
DeliveryFailure(t, r, permanent) ==
    LET j == job[t][r] IN
    /\ IF permanent \/ GivesUp(j)
       THEN /\ UpdateTaskById(r, FinalFailure(r, j))
            /\ Settle(r, j, IF permanent THEN "permanent" ELSE "exhausted")
            /\ attempts' = [attempts EXCEPT ![r] = 0]
       ELSE /\ UpdateTaskById(r, ScheduledRetry(r, j))
            /\ UNCHANGED <<settled, attempts>>
    /\ job' = [job EXCEPT ![t][r] = NoJob]
    /\ UNCHANGED <<now, beat, cronRan, faults, delivered, faulted, abandoned>>

SendFails(t, r) ==
    /\ job[t][r].pc = "sending"
    /\ \E permanent \in BOOLEAN : DeliveryFailure(t, r, permanent)

DecryptFailed(t, r) ==
    /\ job[t][r].pc = "unreadable"
    /\ DeliveryFailure(t, r, FALSE)

(* All pushes of the occurrence are out.                                   *)
SendSucceeds(t, r) ==
    /\ job[t][r].pc = "sending"
    /\ job' = [job EXCEPT ![t][r].pc = "sent"]
    /\ delivered' = delivered \cup {<<r, job[t][r].next_send_at>>}
    /\ UNCHANGED <<storeVars, beat, cronRan, faults, faulted, attempts, settled, abandoned>>

(* Too old to be sent: a one-off task fails, a recurring one moves on.     *)
SkipStale(t, r) ==
    LET j == job[t][r] IN
    /\ j.pc = "stale"
    /\ UpdateTaskById(r, FinalFailure(r, j))
    /\ Settle(r, j, "stale")
    /\ attempts' = [attempts EXCEPT ![r] = 0]
    /\ job' = [job EXCEPT ![t][r] = NoJob]
    /\ UNCHANGED <<now, beat, cronRan, faults, delivered, faulted, abandoned>>

(* A slip: the recurring row is closed like a one-off one.                 *)
AdvancedAndClosed(r, j) ==
    [Released(table[r]) EXCEPT
        !.next_send_at = NextFutureOccurrence(j.next_send_at),
        !.status = "sent", !.retry_count = 0]

(* What a delivered recurring row becomes.                                 *)
Advanced(r, j) ==
    [Released(table[r]) EXCEPT
        !.next_send_at = NextFutureOccurrence(j.next_send_at), !.retry_count = 0]

(* Delete a one-off task, move a recurring one to its next occurrence.     *)
FinishSent(t, r) ==
    LET j == job[t][r] IN
    /\ j.pc = "sent"
    /\ IF r \in RecurringRow THEN UpdateTaskById(r, Advanced(r, j))
                              ELSE DeleteTaskById(r)
    /\ Settle(r, j, "delivered")
    /\ attempts' = [attempts EXCEPT ![r] = 0]
    /\ job' = [job EXCEPT ![t][r] = NoJob]
    /\ UNCHANGED <<now, beat, cronRan, faults, delivered, faulted, abandoned>>

(* The second attempt to record a delivery; and a slip, the one-off task   *)
(* reported as failed although its pushes went out.                        *)
RecordedAsFailed(r, j) ==
    IF r \in RecurringRow THEN Advanced(r, j)
    ELSE [Released(table[r]) EXCEPT !.status = "failed", !.retry_count = 0]
RecordedAsSent(r, j) ==
    IF r \in RecurringRow THEN Advanced(r, j)
    ELSE [Released(table[r]) EXCEPT !.status = "sent", !.retry_count = 0]

(* handlePostSendPersistenceFailure: the write after the send throws; a    *)
(* second write follows, and may throw as well.                            *)
FinishSentThrows(t, r) ==
    LET j == job[t][r] IN
    /\ faults < MaxFaults
    /\ faults' = faults + 1
    /\ j.pc = "sent"
    /\ \/ /\ UpdateTaskById(r, RecordedAsSent(r, j))
          /\ Settle(r, j, "delivered")
          /\ attempts' = [attempts EXCEPT ![r] = 0]
          /\ UNCHANGED <<faulted, abandoned>>
       \/ /\ faulted' = faulted \cup {<<r, j.next_send_at>>}
          /\ abandoned' = abandoned \cup {r}
          /\ UNCHANGED <<table, settled, attempts>>
    /\ job' = [job EXCEPT ![t][r] = NoJob]
    /\ UNCHANGED <<now, beat, cronRan, delivered>>

(* The write after a failed, undecryptable or stale delivery throws: it is *)
(* only noted in the summary, and the lease stays until it runs out.       *)
OutcomeWriteThrows(t, r) ==
    /\ faults < MaxFaults
    /\ faults' = faults + 1
    /\ job[t][r].pc \in {"sending", "unreadable", "stale"}
    /\ job' = [job EXCEPT ![t][r] = NoJob]
    /\ abandoned' = abandoned \cup {r}
    /\ UNCHANGED <<storeVars, beat, cronRan, delivered, faulted, attempts, settled>>

(* The isolate is reclaimed: everything the tick held in memory is gone,   *)
(* what it wrote stays, a renewal already under way may still land.        *)
Crash(t) ==
    /\ faults < MaxFaults
    /\ faults' = faults + 1
    /\ ~Idle(t)
    /\ job' = [job EXCEPT ![t] = [r \in Row |-> NoJob]]
    /\ abandoned' = abandoned \cup {r \in Row : Active(t, r)}
    /\ faulted' = faulted \cup
          {<<r, job[t][r].next_send_at>> : r \in {q \in Row : job[t][q].pc = "sent"}}
    /\ UNCHANGED <<storeVars, beat, cronRan, delivered, attempts, settled>>

-----------------------------------------------------------------------------
(* Time                                                                    *)

(* The heartbeat contract (30 s beats against a 90 s lease): no live       *)
(* delivery is starved until its lease lapses, and no renewal stays under  *)
(* way so long that the instant it carries has passed.                     *)
HeartbeatsKeepUp ==
    \A t \in Tick, r \in Row :
        /\ Active(t, r) /\ Pending(r) /\ table[r].lease_until # NULL
              => table[r].lease_until > now + 1
        /\ beat[t][r] # NULL => beat[t][r] > now + 1

(* Cron fires every minute and a delivery is cut off by its timeouts: due  *)
(* rows are fetched and tried before the clock moves on, and no delivery   *)
(* outlives MaxSend.                                                       *)
CronKeepsUp ==
    /\ \/ cronRan > now
       \/ \A t \in Tick : ~Idle(t)
       \/ \A r \in Row : ~Due(r)
    /\ \A t \in Tick, r \in Row :
          /\ ~NextInQueue(t, r)
          /\ job[t][r].pc \notin {"stale", "unreadable", "sent"}
          /\ job[t][r].pc = "sending" => now < job[t][r].began + MaxSend

Advance ==
    /\ now < MaxTime
    /\ TimelyHeartbeats => HeartbeatsKeepUp
    /\ PromptCron => CronKeepsUp
    /\ now' = now + 1
    /\ UNCHANGED <<table, tickVars, historyVars>>

TickStep(t) ==
    \/ FetchBatch(t)
    \/ Crash(t)
    \/ \E r \in Row :
          \/ RunTask(t, r)
          \/ ClaimGranted(t, r)
          \/ ClaimRefused(t, r)
          \/ ClaimThrows(t, r)
          \/ SendBeat(t, r)
          \/ LandBeat(t, r)
          \/ SendSucceeds(t, r)
          \/ SendFails(t, r)
          \/ DecryptFailed(t, r)
          \/ SkipStale(t, r)
          \/ FinishSent(t, r)
          \/ FinishSentThrows(t, r)
          \/ OutcomeWriteThrows(t, r)
=============================================================================
