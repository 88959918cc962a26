--------------------------- MODULE PostgresService ---------------------------
(***************************************************************************)
(* The scheduled-message service over Postgres (adapters/pg-shared.js, the *)
(* one implementation behind pg.js and neon.js).  D1 has one writer, and a *)
(* claim is one atomic change; Postgres runs the statements of several     *)
(* ticks side by side under READ COMMITTED.  The UPDATE of a claim sees    *)
(* its own row as it is when the row is locked, the rows of its group as   *)
(* they were when the statement began, so that two claims of one group may *)
(* both succeed; each then looks again, and gives its lease back if it     *)
(* finds another.  All other statements of the service concern one row,    *)
(* found by its key, and are atomic as in TaskStore.                       *)
(***************************************************************************)
EXTENDS TaskService

VARIABLE
    claim    \* claim[t][r]: how far tick t has come in claiming row r

pgVars == <<vars, claim>>

Claim == [at   : {"none", "updating", "checking", "yielding"},
          sent : Time]    \* NOW() of the UPDATE, and the tick's clock
NoClaim == [at |-> "none", sent |-> 0]

PgTypeOK == TypeOK /\ claim \in [Tick -> [Row -> Claim]]

PgInit == Init /\ claim = [t \in Tick |-> [r \in Row |-> NoClaim]]

Claiming(t, r) == claim[t][r].at # "none"
Checked(t, r) == claim[t][r].at \in {"checking", "yielding"}
ClaimAt(t, r, at) == claim' = [claim EXCEPT ![t][r].at = at]
ClaimOver(t, r) == claim' = [claim EXCEPT ![t][r] = NoClaim]
Forget(t, r) == job' = [job EXCEPT ![t][r] = NoJob]

Others == <<now, beat, cronRan, delivered, faulted, settled, handlerVars>>

-----------------------------------------------------------------------------
(* The UPDATE begins: its snapshot decides about the group.  A row that    *)
(* does not qualify in the snapshot is not updated (ClaimRefused).         *)
PgClaimBegins(t, r) ==
    /\ ~Claiming(t, r)
    /\ JobGroup(t, r) # NULL
    /\ NextInQueue(t, r)
    /\ ClaimSucceeds(t, r)
    /\ claim' = [claim EXCEPT ![t][r] = [at |-> "updating", sent |-> now]]
    /\ UNCHANGED vars

(* The row is locked and looked at once more, the group is not.            *)
OwnRowQualifies(t, r) ==
    /\ Pending(r)
    /\ table[r].next_send_at = job[t][r].next_send_at
    /\ table[r].lease_until # NULL => table[r].lease_until <= claim[t][r].sent

Leased(t, r) == ClaimTask(r, claim[t][r].sent + LeaseTTL, JobGroup(t, r))

PgClaimCommits(t, r) ==
    /\ claim[t][r].at = "updating"
    /\ OwnRowQualifies(t, r)
    /\ Leased(t, r)
    /\ ClaimAt(t, r, "checking")
    /\ abandoned' = abandoned \ {r}
    /\ UNCHANGED <<job, faults, attempts, Others>>

PgClaimLost(t, r) ==
    /\ claim[t][r].at = "updating"
    /\ ~OwnRowQualifies(t, r)
    /\ Forget(t, r)
    /\ ClaimOver(t, r)
    /\ UNCHANGED <<table, abandoned, faults, attempts, Others>>

(* A slip: a claim that has succeeded is not looked at again.              *)
PgConflictIgnored(t, r) == FALSE

(* The second query: does another row of the group hold a live lease now?  *)
PgConflict(t, r) == GroupBusy(r, JobGroup(t, r))

PgClaimGranted(t, r) ==
    /\ claim[t][r].at = "checking"
    /\ ~PgConflict(t, r)
    /\ job' = [job EXCEPT ![t][r] =
                 [job[t][r] EXCEPT
                    !.pc = FirstStep(job[t][r]),
                    !.began = IF PromptCron THEN now ELSE 0]]
    /\ attempts' = [attempts EXCEPT ![r] =
                       IF FirstStep(job[t][r]) = "stale" THEN @ ELSE @ + 1]
    /\ ClaimOver(t, r)
    /\ UNCHANGED <<table, abandoned, faults, Others>>

PgClaimConflicts(t, r) ==
    /\ claim[t][r].at = "checking"
    /\ PgConflict(t, r)
    /\ ClaimAt(t, r, "yielding")
    /\ UNCHANGED vars

(* The lease is given back, by id alone, whatever has become of the row.   *)
PgClaimYields(t, r) ==
    /\ claim[t][r].at = "yielding"
    /\ table' = [table EXCEPT ![r].lease_until = IF Exists(r) THEN NULL ELSE @]
    /\ Forget(t, r)
    /\ ClaimOver(t, r)
    /\ UNCHANGED <<abandoned, faults, attempts, Others>>

(* A statement throws, having reached the database or not: no delivery,    *)
(* and a lease that has been written stays until it runs out.              *)
PgClaimThrows(t, r) ==
    /\ faults < MaxFaults
    /\ faults' = faults + 1
    /\ Claiming(t, r)
    /\ \/ UNCHANGED table
       \/ claim[t][r].at = "updating" /\ OwnRowQualifies(t, r) /\ Leased(t, r)
    /\ abandoned' = IF table' # table \/ claim[t][r].at # "updating"
                    THEN abandoned \cup {r} ELSE abandoned
    /\ Forget(t, r)
    /\ ClaimOver(t, r)
    /\ UNCHANGED <<attempts, Others>>

(* The isolate dies; an UPDATE under way is rolled back with its session.  *)
PgCrash(t) ==
    /\ faults < MaxFaults
    /\ faults' = faults + 1
    /\ ~Idle(t)
    /\ job' = [job EXCEPT ![t] = [r \in Row |-> NoJob]]
    /\ claim' = [claim EXCEPT ![t] = [r \in Row |-> NoClaim]]
    /\ abandoned' = abandoned \cup
          {r \in Row : Active(t, r) \/ Checked(t, r)}
    /\ faulted' = faulted \cup
          {<<r, job[t][r].next_send_at>> : r \in {q \in Row : job[t][q].pc = "sent"}}
    /\ UNCHANGED <<storeVars, beat, cronRan, delivered, attempts, settled, handlerVars>>

-----------------------------------------------------------------------------
PgClaimStep(t, r) ==
    \/ PgClaimBegins(t, r)
    \/ PgClaimCommits(t, r)
    \/ PgClaimLost(t, r)
    \/ PgClaimGranted(t, r)
    \/ PgClaimConflicts(t, r)
    \/ PgClaimYields(t, r)
    \/ PgClaimThrows(t, r)

(* A task without a group is claimed by one statement on one row.          *)
PgUngroupedClaim(t, r) == JobGroup(t, r) = NULL /\ ClaimGranted(t, r)

PgDelivery(t, r) ==
    \/ ~Claiming(t, r) /\ ClaimRefused(t, r)
    \/ SendBeat(t, r)
    \/ LandBeat(t, r)
    \/ SendSucceeds(t, r)
    \/ SendFails(t, r)
    \/ DecryptFailed(t, r)
    \/ SkipStale(t, r)
    \/ FinishSent(t, r)
    \/ FinishSentThrows(t, r)
    \/ OutcomeWriteThrows(t, r)

(* The statements of a claim, which no heartbeat covers, take less time    *)
(* than the lease they ask for.                                            *)
PgAdvance ==
    /\ Advance
    /\ \A t \in Tick, r \in Row :
          /\ Claiming(t, r) => claim[t][r].sent + LeaseTTL > now + 1
          /\ Checked(t, r) /\ Pending(r) /\ table[r].lease_until # NULL
                => table[r].lease_until > now + 1

(* runTask: the SELECT that reads one row by uuid does not return          *)
(* retry_after here, so that neither its backoff nor the staleness guard   *)
(* sees when a retry is due.                                               *)
PgRunTask(t, r) ==
    /\ Pending(r)
    /\ table[r].next_send_at <= now
    /\ \E readable \in {TRUE, PayloadsReadable} :
          job' = [job EXCEPT ![t][r] =
                    [Snapshot(r, readable) EXCEPT !.retry_after = NULL]]

(* One more invocation in the minute of another: the HTTP endpoint, cron   *)
(* late, or a queue consumer.  Counted with the faults.                    *)
PgExtraTick(t) ==
    /\ faults < MaxFaults
    /\ faults' = faults + 1
    /\ Idle(t)
    /\ Fetched(t) \/ \E r \in Row : PgRunTask(t, r)
    /\ UNCHANGED <<storeVars, beat, cronRan, historyVars, handlerVars, claim>>

(* The users' statements are those of TaskHandlers.  pg.js and neon.js     *)
(* have no createTaskSuperseding: a task is replaced there by Cancel and   *)
(* then Schedule; the one-step Supersede, kept beside them for an adapter  *)
(* that has it, leads nowhere these two do not.                            *)
PgNext ==
    \/ \E t \in Tick, r \in Row : PgClaimStep(t, r)
    \/ \E t \in Tick : PgCrash(t) \/ PgExtraTick(t)
    \/ \E t \in Tick, r \in Row :
          (PgUngroupedClaim(t, r) \/ PgDelivery(t, r)) /\ UNCHANGED <<handlerVars, claim>>
    \/ \E t \in Tick : FetchBatch(t) /\ UNCHANGED <<handlerVars, claim>>
    \/ PgAdvance /\ UNCHANGED <<handlerVars, claim>>
    \/ UserStep /\ UNCHANGED <<tickVars, claim>>

PgSpec == PgInit /\ [][PgNext]_pgVars

(* Cron keeps firing, every tick step that can run eventually does, timers *)
(* fire, and nothing the program does holds the clock back for ever.       *)
(* Faults, queue consumers and users owe nothing.                          *)
PgProgress(t) ==
    \/ FetchBatch(t) /\ UNCHANGED <<handlerVars, claim>>
    \/ \E r \in Row :
          \/ PgClaimStep(t, r) /\ UNCHANGED faults
          \/ /\ PgUngroupedClaim(t, r) \/ PgDelivery(t, r)
             /\ UNCHANGED <<beat, faults, handlerVars, claim>>
PgHeartbeat(t) ==
    \E r \in Row : (SendBeat(t, r) \/ LandBeat(t, r)) /\ UNCHANGED <<handlerVars, claim>>

PgFairSpec ==
    /\ PgSpec
    /\ SF_pgVars(PgAdvance /\ UNCHANGED <<handlerVars, claim>>)
    /\ \A t \in Tick : WF_pgVars(PgProgress(t)) /\ WF_pgVars(PgHeartbeat(t))

-----------------------------------------------------------------------------
(* What keeps the exclusion of groups inductive here.  A claim under way   *)
(* is of a row still waiting in the tick's queue, and the lease it asks    *)
(* for lies in the future.                                                 *)
ClaimUnderWay(t, r) ==
    /\ claim[t][r].sent <= now
    /\ claim[t][r].sent + LeaseTTL > now
    /\ job[t][r].pc = "queued"
    /\ JobGroup(t, r) # NULL

(* Between the UPDATE and what becomes of it the lease covers the row as   *)
(* it covers a delivery: nobody delivers the row, nobody else has won it.  *)
LeaseWon(t, r) ==
    /\ table[r].status # "absent"
    /\ Pending(r) => LeaseLive(r)
    /\ table[r].serialize_group = GroupOf[r]
    /\ \A s \in Tick : ~Active(s, r) /\ (Checked(s, r) => s = t)

ClaimsHeld ==
    \A t \in Tick, r \in Row :
        /\ Claiming(t, r) => ClaimUnderWay(t, r)
        /\ Checked(t, r) => LeaseWon(t, r)

(* The inductive invariant behind GroupExclusive on Postgres.              *)
PgExclusion ==
    /\ PgTypeOK
    /\ Exclusion
    /\ ClaimsHeld
=============================================================================
