-------------------------- MODULE TaskServiceProofs --------------------------
(***************************************************************************)
(* Theorems about TaskService and PostgresService, for every number of     *)
(* rows, ticks and updates and every value of the delays, in four parts:   *)
(* what a reachable state looks like, the two exclusions of the claim,     *)
(* what becomes of a task from its creation on, and the exclusions once    *)
(* more over Postgres, whose claim takes several statements.               *)
(***************************************************************************)
EXTENDS PostgresService, TLAPS

(* planNextOccurrence never leaves the set of instants and always lands    *)
(* after the occurrence it starts from.                                    *)
LEMMA NextOccurrenceType ==
    ASSUME now \in Nat, NEW o \in Nat
    PROVE  NextFutureOccurrence(o) \in Nat /\ NextFutureOccurrence(o) > o
<1>. DEFINE k == 1 + (IF now > o THEN (now - o) \div Period ELSE 0)
<1>1. k \in Nat \ {0}
  <2>1. CASE now > o
    <3>1. now - o \in Nat
      BY <2>1
    <3>2. (now - o) \div Period \in Nat
      BY <3>1, PeriodIsPositive
    <3>. QED BY <2>1, <3>2
  <2>2. CASE ~(now > o)
    BY <2>2
  <2>. QED BY <2>1, <2>2
<1>2. Period * k \in Nat \ {0}
  BY <1>1, PeriodIsPositive
<1>. QED
  BY <1>2 DEF NextFutureOccurrence

-----------------------------------------------------------------------------
(* What the adapter writes is a table again.                               *)

LEMMA UpdateTaskByIdType ==
    ASSUME TableTypeOK, NEW r \in Row, NEW newRow \in TaskRow,
           UpdateTaskById(r, newRow)
    PROVE  table' \in [Row -> TaskRow]
BY DEF TableTypeOK, UpdateTaskById

LEMMA ClaimTaskType ==
    ASSUME TableTypeOK, NEW r \in Row, NEW until \in Time,
           NEW g \in Group \cup {NULL}, ClaimTask(r, until, g)
    PROVE  table' \in [Row -> TaskRow]
<1>. DEFINE claimed == [table[r] EXCEPT
                       !.lease_until = until,
                       !.serialize_group = IF g # NULL THEN g
                                           ELSE table[r].serialize_group]
<1>1. claimed \in TaskRow
  <2>1. table[r] \in TaskRow
    BY DEF TableTypeOK
  <2>2. CASE g = NULL
    BY <2>1, <2>2 DEF TaskRow
  <2>3. CASE g # NULL
    BY <2>1, <2>3 DEF TaskRow
  <2>. QED BY <2>2, <2>3
<1>2. table' = [table EXCEPT ![r] = claimed]
  BY DEF ClaimTask
<1>. HIDE DEF claimed
<1>. QED BY <1>1, <1>2 DEF TableTypeOK

LEMMA RenewTaskLeaseType ==
    ASSUME TableTypeOK, NEW r \in Row, NEW until \in Time, RenewTaskLease(r, until)
    PROVE  table' \in [Row -> TaskRow]
BY DEF TableTypeOK, RenewTaskLease, TaskRow

LEMMA DeleteTaskByIdType ==
    ASSUME TableTypeOK, NEW r \in Row, DeleteTaskById(r)
    PROVE  table' \in [Row -> TaskRow]
BY DEF TableTypeOK, DeleteTaskById, TaskRow, Status

LEMMA NewRowType ==
    ASSUME NEW o \in Time
    PROVE  NewRow(o) \in TaskRow
BY DEF NewRow, TaskRow, Status, Live, Time

LEMMA SendTimesType ==
    ASSUME now \in Nat, NEW r \in Row, NEW at \in SendTimes(r)
    PROVE  at \in Time
BY RowsAreTyped DEF SendTimes, Time

(* The rows the delivery loop writes back are rows.                        *)
LEMMA WrittenRowsType ==
    ASSUME TableTypeOK, NEW r \in Row, NEW j \in Job
    PROVE  /\ FinalFailure(r, j) \in TaskRow
           /\ ScheduledRetry(r, j) \in TaskRow
           /\ Advanced(r, j) \in TaskRow
<1>1. table[r] \in TaskRow /\ now \in Nat
  BY DEF TableTypeOK, Time
<1>2. /\ j.next_send_at \in Nat
      /\ j.retry_count \in Nat
      /\ j.payload \in SUBSET Edit
      /\ j.readable \in BOOLEAN
  BY DEF Job, Time
<1>3. NextFutureOccurrence(j.next_send_at) \in Nat
  BY <1>1, <1>2, NextOccurrenceType
<1>4. Released(table[r]) \in TaskRow
  BY <1>1 DEF Released, TaskRow
<1>5. FinalFailure(r, j) \in TaskRow
  <2>1. CASE r \in RecurringRow /\ j.readable
    BY <2>1, <1>2, <1>3, <1>4 DEF FinalFailure, TaskRow, Time
  <2>2. CASE ~(r \in RecurringRow /\ j.readable)
    BY <2>2, <1>2, <1>4 DEF FinalFailure, TaskRow, Status, Live
  <2>. QED BY <2>1, <2>2
<1>6. ScheduledRetry(r, j) \in TaskRow
  <2>. DEFINE at == now + (j.retry_count + 1) * BackoffStep
              count == j.retry_count + 1
  <2>1. at \in Nat /\ count \in Nat
    BY <1>1, <1>2, TickConstants
  <2>2. ScheduledRetry(r, j) =
          [table[r] EXCEPT !.retry_after = at, !.retry_count = count,
                           !.lease_until = NULL]
    BY DEF ScheduledRetry
  <2>. HIDE DEF at, count
  <2>. QED BY <2>1, <2>2, <1>1 DEF TaskRow, Time
<1>7. Advanced(r, j) \in TaskRow
  BY <1>3, <1>4 DEF Advanced, TaskRow, Time
<1>. QED BY <1>5, <1>6, <1>7

-----------------------------------------------------------------------------
(* Typing                                                                  *)

(* What a tick remembers of a row is a job.                                *)
LEMMA JobTypes ==
    ASSUME RunTickTypeOK, NEW r \in Row
    PROVE  /\ NoJob \in Job
           /\ \A readable \in BOOLEAN : Snapshot(r, readable) \in Job
           /\ \A t \in Tick : /\ job[t][r] \in Job
                             /\ job[t] \in [Row -> Job]
                             /\ JobGroup(t, r) \in Group \cup {NULL}
<1>1. table[r] \in TaskRow
  BY DEF RunTickTypeOK, TableTypeOK
<1>2. NoJob \in Job
  BY DEF NoJob, Job, Progress, Time
<1>3. ASSUME NEW readable \in BOOLEAN PROVE Snapshot(r, readable) \in Job
  BY <1>1 DEF Snapshot, Job, Progress, TaskRow, Time
<1>4. ASSUME NEW t \in Tick
      PROVE  job[t][r] \in Job /\ job[t] \in [Row -> Job]
  BY DEF RunTickTypeOK
<1>5. ASSUME NEW t \in Tick PROVE JobGroup(t, r) \in Group \cup {NULL}
  BY RowsAreTyped DEF JobGroup
<1>. QED BY <1>2, <1>3, <1>4, <1>5

LEMMA OutcomeType ==
    ASSUME RunTickTypeOK, NEW r \in Row, NEW j \in Job,
           NEW how \in {"delivered", "exhausted", "permanent", "stale"},
           Settle(r, j, how)
    PROVE  settled' \subseteq Outcome
BY DEF RunTickTypeOK, Settle, Outcome, Job

(* A claim that reaches the database writes a row.                         *)
LEMMA ClaimKeepsTable ==
    ASSUME RunTickTypeOK, NEW t \in Tick, NEW r \in Row,
           ClaimTask(r, now + LeaseTTL, JobGroup(t, r))
    PROVE  table' \in [Row -> TaskRow]
<1>1. TableTypeOK
  BY DEF RunTickTypeOK
<1>2. now + LeaseTTL \in Time
  BY <1>1, TickConstants DEF TableTypeOK, Time
<1>3. JobGroup(t, r) \in Group \cup {NULL}
  BY JobTypes
<1>. QED BY <1>1, <1>2, <1>3, ClaimTaskType

(* What a tick has fetched are jobs.                                       *)
LEMMA FetchedType ==
    ASSUME RunTickTypeOK, NEW t \in Tick, Fetched(t)
    PROVE  job' \in [Tick -> [Row -> Job]]
<1>1. PICK batch \in PendingTasks(FetchLimit) \ {{}} :
      \E unreadable \in UnreadablePayloads(batch) :
      \E readable \in Reserved(batch \ unreadable) :
         job' = [job EXCEPT ![t] = [r \in Row |->
                   IF r \in readable \cup unreadable
                   THEN Snapshot(r, r \in readable) ELSE NoJob]]
  BY DEF Fetched
<1>2. PICK unreadable \in UnreadablePayloads(batch) :
      \E readable \in Reserved(batch \ unreadable) :
         job' = [job EXCEPT ![t] = [r \in Row |->
                   IF r \in readable \cup unreadable
                   THEN Snapshot(r, r \in readable) ELSE NoJob]]
  BY <1>1
<1>3. PICK readable \in Reserved(batch \ unreadable) :
         job' = [job EXCEPT ![t] = [r \in Row |->
                   IF r \in readable \cup unreadable
                   THEN Snapshot(r, r \in readable) ELSE NoJob]]
  BY <1>2
<1>4. ASSUME NEW r \in Row
      PROVE  (IF r \in readable \cup unreadable
              THEN Snapshot(r, r \in readable) ELSE NoJob) \in Job
  <2>1. (r \in readable) \in BOOLEAN
    OBVIOUS
  <2>2. Snapshot(r, r \in readable) \in Job
    BY <2>1, JobTypes
  <2>. QED BY <2>2, JobTypes
<1>. QED BY <1>3, <1>4 DEF RunTickTypeOK

(* One step of a tick keeps the types.                                     *)
LEMMA TickStepType ==
    ASSUME RunTickTypeOK, NEW t \in Tick, TickStep(t)
    PROVE  RunTickTypeOK'
<1>. USE DEF RunTickTypeOK, storeVars, historyVars
<1>0. TableTypeOK /\ now \in Nat /\ table \in [Row -> TaskRow]
  BY DEF TableTypeOK, Time
<1>1. CASE FetchBatch(t)
  <2>1. job' \in [Tick -> [Row -> Job]]
    BY <1>1, FetchedType DEF FetchBatch
  <2>2. cronRan' \in Nat
    BY <1>0, <1>1 DEF FetchBatch
  <2>. QED BY <1>1, <2>1, <2>2, <1>0 DEF FetchBatch, TableTypeOK
<1>2. CASE Crash(t)
  <2>1. job' \in [Tick -> [Row -> Job]]
    BY <1>2, JobTypes DEF Crash
  <2>2. faulted' \subseteq Row \X Time
    <3>1. \A q \in Row : job[t][q].next_send_at \in Time
      BY JobTypes DEF Job
    <3>. QED BY <1>2, <3>1 DEF Crash
  <2>3. abandoned' \subseteq Row /\ faults' \in Nat
    BY <1>2 DEF Crash
  <2>. QED BY <1>2, <2>1, <2>2, <2>3, <1>0 DEF Crash, TableTypeOK
<1>3. ASSUME NEW r \in Row, RunTask(t, r) PROVE RunTickTypeOK'
  <2>1. job' \in [Tick -> [Row -> Job]]
    <3>1. PICK readable \in BOOLEAN :
             job' = [job EXCEPT ![t][r] = Snapshot(r, readable)]
      BY <1>3, TickConstants DEF RunTask
    <3>. QED BY <3>1, JobTypes
  <2>. QED BY <1>3, <2>1, <1>0 DEF RunTask, TableTypeOK
<1>4. ASSUME NEW r \in Row, ClaimGranted(t, r) PROVE RunTickTypeOK'
  <2>1. table' \in [Row -> TaskRow]
    BY <1>4, ClaimKeepsTable DEF ClaimGranted
  <2>2. job' \in [Tick -> [Row -> Job]]
    <3>. DEFINE begun == [job[t][r] EXCEPT
                            !.pc = FirstStep(job[t][r]),
                            !.began = IF PromptCron THEN now ELSE 0]
    <3>1. FirstStep(job[t][r]) \in Progress
      BY DEF FirstStep, Progress
    <3>2. begun \in Job
      BY <3>1, <1>0, JobTypes, ZenonT(40) DEF Job, Time
    <3>3. job' = [job EXCEPT ![t][r] = begun]
      BY <1>4 DEF ClaimGranted
    <3>. HIDE DEF begun
    <3>. QED BY <3>2, <3>3
  <2>3. attempts' \in [Row -> Nat]
    BY <1>4 DEF ClaimGranted
  <2>. QED BY <1>4, <2>1, <2>2, <2>3, <1>0 DEF ClaimGranted, TableTypeOK
<1>5. ASSUME NEW r \in Row, ClaimRefused(t, r) PROVE RunTickTypeOK'
  BY <1>5, <1>0, JobTypes DEF ClaimRefused, TableTypeOK
<1>6. ASSUME NEW r \in Row, ClaimThrows(t, r) PROVE RunTickTypeOK'
  <2>1. table' \in [Row -> TaskRow]
    BY <1>6, <1>0, ClaimKeepsTable DEF ClaimThrows
  <2>2. job' \in [Tick -> [Row -> Job]]
    BY <1>6, JobTypes DEF ClaimThrows
  <2>. QED BY <1>6, <2>1, <2>2, <1>0 DEF ClaimThrows, TableTypeOK
<1>7. ASSUME NEW r \in Row, SendBeat(t, r) PROVE RunTickTypeOK'
  <2>1. now + LeaseTTL \in Time
    BY <1>0, TickConstants DEF Time
  <2>. QED BY <1>7, <2>1, <1>0 DEF SendBeat, TableTypeOK
<1>8. ASSUME NEW r \in Row, LandBeat(t, r) PROVE RunTickTypeOK'
  <2>1. table' \in [Row -> TaskRow]
    BY <1>8, <1>0, RenewTaskLeaseType DEF LandBeat
  <2>. QED BY <1>8, <2>1, <1>0 DEF LandBeat, TableTypeOK
<1>9. ASSUME NEW r \in Row, SendSucceeds(t, r) PROVE RunTickTypeOK'
  <2>1. job' \in [Tick -> [Row -> Job]]
    <3>1. [job[t][r] EXCEPT !.pc = "sent"] \in Job
      BY JobTypes, ZenonT(40) DEF Job, Progress
    <3>2. job' = [job EXCEPT ![t][r] = [job[t][r] EXCEPT !.pc = "sent"]]
      BY <1>9, JobTypes DEF SendSucceeds
    <3>. QED BY <3>1, <3>2
  <2>2. delivered' \subseteq Row \X Time
    BY <1>9, JobTypes DEF SendSucceeds, Job
  <2>. QED BY <1>9, <2>1, <2>2, <1>0 DEF SendSucceeds, TableTypeOK
<1>10. ASSUME NEW r \in Row, NEW permanent \in BOOLEAN,
              DeliveryFailure(t, r, permanent)
       PROVE  RunTickTypeOK'
  <2>. DEFINE j == job[t][r]
  <2>1. j \in Job
    BY JobTypes
  <2>2. table' \in [Row -> TaskRow]
    BY <1>10, <1>0, <2>1, WrittenRowsType, UpdateTaskByIdType DEF DeliveryFailure
  <2>3. settled' \subseteq Outcome
    <3>1. CASE permanent \/ GivesUp(j)
      BY <3>1, <1>10, <2>1, OutcomeType DEF DeliveryFailure
    <3>2. CASE ~(permanent \/ GivesUp(j))
      BY <3>2, <1>10 DEF DeliveryFailure
    <3>. QED BY <3>1, <3>2
  <2>4. job' \in [Tick -> [Row -> Job]]
    BY <1>10, JobTypes DEF DeliveryFailure
  <2>5. attempts' \in [Row -> Nat]
    BY <1>10 DEF DeliveryFailure
  <2>. QED BY <1>10, <2>2, <2>3, <2>4, <2>5, <1>0 DEF DeliveryFailure, TableTypeOK
<1>11. ASSUME NEW r \in Row, SkipStale(t, r) PROVE RunTickTypeOK'
  <2>1. table' \in [Row -> TaskRow]
    BY <1>11, <1>0, JobTypes, WrittenRowsType, UpdateTaskByIdType DEF SkipStale
  <2>2. settled' \subseteq Outcome
    BY <1>11, JobTypes, OutcomeType DEF SkipStale
  <2>3. job' \in [Tick -> [Row -> Job]]
    BY <1>11, JobTypes DEF SkipStale
  <2>. QED BY <1>11, <2>1, <2>2, <2>3, <1>0 DEF SkipStale, TableTypeOK
<1>12. ASSUME NEW r \in Row, FinishSent(t, r) PROVE RunTickTypeOK'
  <2>1. table' \in [Row -> TaskRow]
    BY <1>12, <1>0, JobTypes, WrittenRowsType, UpdateTaskByIdType,
       DeleteTaskByIdType DEF FinishSent
  <2>2. settled' \subseteq Outcome
    BY <1>12, JobTypes, OutcomeType DEF FinishSent
  <2>3. job' \in [Tick -> [Row -> Job]]
    BY <1>12, JobTypes DEF FinishSent
  <2>. QED BY <1>12, <2>1, <2>2, <2>3, <1>0 DEF FinishSent, TableTypeOK
<1>13. ASSUME NEW r \in Row, FinishSentThrows(t, r) PROVE RunTickTypeOK'
  <2>. DEFINE j == job[t][r]
  <2>1. j \in Job
    BY JobTypes
  <2>2. RecordedAsSent(r, j) \in TaskRow
    <3>1. table[r] \in TaskRow
      BY <1>0
    <3>2. [Released(table[r]) EXCEPT !.status = "sent", !.retry_count = 0]
            \in TaskRow
      BY <3>1 DEF Released, TaskRow, Status, Live
    <3>. QED BY <3>2, <2>1, <1>0, WrittenRowsType DEF RecordedAsSent
  <2>3. table' \in [Row -> TaskRow]
    <3>1. UpdateTaskById(r, RecordedAsSent(r, j)) \/ UNCHANGED table
      BY <1>13 DEF FinishSentThrows
    <3>. QED BY <3>1, <2>2, <1>0, UpdateTaskByIdType
  <2>4. settled' \subseteq Outcome
    BY <1>13, <2>1, OutcomeType DEF FinishSentThrows
  <2>5. job' \in [Tick -> [Row -> Job]]
    BY <1>13, JobTypes DEF FinishSentThrows
  <2>6. faulted' \subseteq Row \X Time
    BY <1>13, <2>1 DEF FinishSentThrows, Job
  <2>7. attempts' \in [Row -> Nat] /\ abandoned' \subseteq Row /\ faults' \in Nat
    BY <1>13 DEF FinishSentThrows
  <2>. QED BY <1>13, <2>3, <2>4, <2>5, <2>6, <2>7, <1>0
           DEF FinishSentThrows, TableTypeOK
<1>14. ASSUME NEW r \in Row, OutcomeWriteThrows(t, r) PROVE RunTickTypeOK'
  <2>1. job' \in [Tick -> [Row -> Job]]
    BY <1>14, JobTypes DEF OutcomeWriteThrows
  <2>. QED BY <1>14, <2>1, <1>0 DEF OutcomeWriteThrows, TableTypeOK
<1>. QED
  BY <1>1, <1>2, <1>3, <1>4, <1>5, <1>6, <1>7, <1>8, <1>9, <1>10, <1>11, <1>12,
     <1>13, <1>14 DEF TickStep, SendFails, DecryptFailed

LEMMA UpdatedRowType ==
    ASSUME NEW row \in TaskRow, NEW at \in Time, NEW payload \in SUBSET Edit
    PROVE  Updated(row, payload, at) \in TaskRow
BY DEF TaskRow, Updated

(* One step of a user keeps the types.                                     *)
LEMMA UserStepType ==
    ASSUME TypeOK, UserStep, UNCHANGED tickVars
    PROVE  TypeOK'
<1>. USE DEF TypeOK, RunTickTypeOK, storeVars, tickVars, historyVars, handlerVars
<1>0. TableTypeOK /\ now \in Nat /\ table \in [Row -> TaskRow]
  BY DEF TableTypeOK, Time
<1>1. ASSUME NEW r \in Row, Schedule(r) PROVE TypeOK'
  <2>1. table' \in [Row -> TaskRow]
    BY <1>0, <1>1, NewRowType, SendTimesType DEF Schedule
  <2>. QED BY <1>1, <2>1, <1>0 DEF Schedule, TableTypeOK, HandlersTypeOK
<1>2. ASSUME NEW r \in Row, Cancel(r) PROVE TypeOK'
  <2>1. table' \in [Row -> TaskRow]
    BY <1>0, <1>2, ZenonT(40) DEF Cancel, DeleteTaskByUuid, TaskRow, Status
  <2>. QED BY <1>2, <2>1, <1>0 DEF Cancel, TableTypeOK, HandlersTypeOK
<1>3. ASSUME NEW old \in Row, NEW r \in Row, Supersede(old, r) PROVE TypeOK'
  <2>1. table' \in [Row -> TaskRow]
    <3>1. PICK at \in SendTimes(r) :
             table' = [table EXCEPT
                         ![old].status = IF Exists(old) THEN "cancelled" ELSE @,
                         ![r] = NewRow(at)]
      BY <1>3 DEF Supersede
    <3>. DEFINE status == IF Exists(old) THEN "cancelled" ELSE table[old].status
    <3>2. status \in Status
      BY <1>0 DEF TaskRow, Status
    <3>3. table' = [table EXCEPT ![old].status = status, ![r] = NewRow(at)]
      BY <3>1
    <3>5. NewRow(at) \in TaskRow
      BY <1>0, SendTimesType, NewRowType
    <3>. HIDE DEF status
    <3>4. [table[old] EXCEPT !.status = status] \in TaskRow
      BY <3>2, <1>0, ZenonT(40) DEF TaskRow
    <3>. QED BY <3>3, <3>4, <3>5, <1>0
  <2>. QED BY <1>3, <2>1, <1>0 DEF Supersede, TableTypeOK, HandlersTypeOK
<1>4. ASSUME NEW e \in Edit, NEW r \in Row, UpdateRead(e, r) PROVE TypeOK'
  <2>1. table[r].payload \cup {e} \in SUBSET Edit
    BY <1>0 DEF TaskRow
  <2>2. put' \in [Edit -> PutRequest]
    BY <1>4, <2>1 DEF UpdateRead, HandlersTypeOK, PutRequest
  <2>. QED BY <1>4, <2>2, <1>0 DEF UpdateRead, TableTypeOK, HandlersTypeOK
<1>5. ASSUME NEW e \in Edit, UpdateWrite(e) PROVE TypeOK'
  <2>. DEFINE r == put[e].row
  <2>1. put' \in [Edit -> PutRequest]
    <3>1. ASSUME NEW pc \in {"accepted", "conflict"}
          PROVE  [put[e] EXCEPT !.pc = pc] \in PutRequest
      <4>1. put[e] \in PutRequest
        BY DEF HandlersTypeOK
      <4>. QED BY <4>1 DEF PutRequest
    <3>2. PICK pc \in {"accepted", "conflict"} :
             put' = [put EXCEPT ![e] = [put[e] EXCEPT !.pc = pc]]
      BY <1>5 DEF UpdateWrite, HandlersTypeOK
    <3>. QED BY <3>1, <3>2 DEF HandlersTypeOK
  <2>2. table' \in [Row -> TaskRow]
    <3>1. CASE UNCHANGED table
      BY <3>1, <1>0
    <3>2. ASSUME NEW nextSendAt \in {table[r].next_send_at, now + ReschedulePeriod},
                 table' = [table EXCEPT ![r] =
                            Updated(table[r], put[e].payload, nextSendAt)]
          PROVE  table' \in [Row -> TaskRow]
      <4>1. CASE r \in Row
        <5>1. nextSendAt \in Time /\ put[e].payload \in SUBSET Edit
          BY <4>1, <1>0, HandlerConstants DEF HandlersTypeOK, PutRequest, TaskRow, Time
        <5>2. Updated(table[r], put[e].payload, nextSendAt) \in TaskRow
          BY <4>1, <5>1, <1>0, UpdatedRowType
        <5>. QED BY <3>2, <5>2, <1>0
      <4>2. CASE r \notin Row
        BY <3>2, <4>2, <1>0
      <4>. QED BY <4>1, <4>2
    <3>. QED BY <3>1, <3>2, <1>5 DEF UpdateWrite
  <2>3. attempts' \in [Row -> Nat] /\ raced' \subseteq Edit
    BY <1>5 DEF UpdateWrite, HandlersTypeOK
  <2>. QED BY <1>5, <2>1, <2>2, <2>3, <1>0 DEF UpdateWrite, TableTypeOK, HandlersTypeOK
<1>. QED BY <1>1, <1>2, <1>3, <1>4, <1>5 DEF UserStep

(* Every step keeps the types.                                             *)
LEMMA NextType ==
    ASSUME TypeOK, [Next]_vars
    PROVE  TypeOK'
<1>. USE DEF TypeOK, handlerVars
<1>1. ASSUME NEW t \in Tick, TickStep(t), UNCHANGED handlerVars PROVE TypeOK'
  BY <1>1, TickStepType DEF HandlersTypeOK
<1>2. CASE Advance /\ UNCHANGED handlerVars
  BY <1>2 DEF Advance, RunTickTypeOK, TableTypeOK, HandlersTypeOK, Time, tickVars,
              historyVars
<1>3. CASE UserStep /\ UNCHANGED tickVars
  BY <1>3, UserStepType
<1>4. CASE UNCHANGED vars
  BY <1>4 DEF vars, storeVars, tickVars, historyVars, RunTickTypeOK, TableTypeOK,
              HandlersTypeOK
<1>. QED BY <1>1, <1>2, <1>3, <1>4 DEF Next

LEMMA InitType == Init => TypeOK
<1>. SUFFICES ASSUME Init PROVE TypeOK
  OBVIOUS
<1>1. \A r \in Row : NewRow(FirstAt[r]) \in TaskRow
  BY NewRowType, RowsAreTyped
<1>2. \A r \in Row : [NewRow(FirstAt[r]) EXCEPT !.status = "absent"] \in TaskRow
  BY <1>1 DEF TaskRow, Status
<1>3. TableTypeOK
  BY <1>1, <1>2 DEF Init, TableTypeOK, Time
<1>4. NoJob \in Job
  BY DEF NoJob, Job, Progress, Time
<1>5. RunTickTypeOK
  BY <1>3, <1>4 DEF Init, RunTickInit, RunTickTypeOK
<1>6. HandlersTypeOK
  BY DEF Init, HandlersInit, HandlersTypeOK, NoPut, PutRequest
<1>. QED BY <1>5, <1>6 DEF TypeOK

(* Every variable keeps its type, whatever the number of rows, ticks and   *)
(* updates: in particular no write of the delivery loop or of a handler    *)
(* puts a NULL or a negative number where the readers expect an instant or *)
(* a count.                                                                *)
THEOREM TypeCorrect == Spec => []TypeOK
BY InitType, NextType, PTL DEF Spec

-----------------------------------------------------------------------------
(***************************************************************************)
(* The two mutual exclusions the claim of run-tick.js promises, for every  *)
(* number of ticks, rows and groups: one delivery per row, and one per     *)
(* serializeBy group.  The argument: what one step of a tick or of a user  *)
(* can do to a row and to a delivery is first put into three lemmas (the   *)
(* effects below); the invariant Exclusion then follows from them alone.   *)
(***************************************************************************)

(* What a tick may do to row q: never make it pending or absent, record no *)
(* group but its own, and touch the lease of a row that stays pending only *)
(* to lease it beyond the present or to end its own delivery.              *)
RowEffect(t, q) ==
    /\ Pending(q)' => Pending(q)
    /\ table'[q].status = "absent" => table[q].status = "absent"
    /\ \/ table'[q].serialize_group = table[q].serialize_group
       \/ GroupOf[q] # NULL /\ table'[q].serialize_group = GroupOf[q]
    /\ \/ table'[q].lease_until = table[q].lease_until
       \/ LeaseLive(q)'
       \/ Active(t, q) /\ ~Active(t, q)'

(* What a tick may do to the deliveries of row q: those of other ticks go  *)
(* on as they were, its own goes on, ends, or begins with a granted claim. *)
JobEffect(t, q) ==
    \A s \in Tick :
        /\ s # t => job'[s][q] = job[s][q]
        /\ Active(s, q)' =>
              /\ job'[s][q].readable = job[s][q].readable
              /\ Active(s, q) \/ (s = t /\ ClaimGranted(t, q))

(* A renewal is sent with an instant of the future or stays what it was.   *)
BeatEffect(t, q) ==
    \A s \in Tick : beat'[s][q] \in {beat[s][q], NULL, now + LeaseTTL}

(* A write of the delivery loop to the row it holds, which ends the        *)
(* delivery.                                                               *)
LEMMA WriteBackEffect ==
    ASSUME RunTickTypeOK, NEW t \in Tick, NEW r \in Row, NEW row \in TaskRow,
           row.status = "pending" => Pending(r),
           row.status # "absent",
           row.serialize_group = table[r].serialize_group,
           UpdateTaskById(r, row), Active(t, r),
           job' = [job EXCEPT ![t][r] = NoJob], now' = now,
           NEW q \in Row
    PROVE  RowEffect(t, q)
<1>1. table \in [Row -> TaskRow] /\ job \in [Tick -> [Row -> Job]]
  BY DEF RunTickTypeOK, TableTypeOK
<1>2. CASE q # r
  <2>1. table'[q] = table[q]
    BY <1>1, <1>2 DEF UpdateTaskById
  <2>. QED BY <2>1 DEF RowEffect, Pending
<1>3. CASE q = r
  <2>1. ~Active(t, q)'
    BY <1>1, <1>3 DEF Active, NoJob
  <2>2. table'[q] = row \/ table'[q] = table[q]
    BY <1>1, <1>3 DEF UpdateTaskById
  <2>. QED BY <2>1, <2>2, <1>3 DEF RowEffect, Pending
<1>. QED BY <1>2, <1>3

(* A claim leases the row beyond the present and records its own group.    *)
LEMMA ClaimEffect ==
    ASSUME RunTickTypeOK, NEW t \in Tick, NEW r \in Row, Pending(r),
           ClaimTask(r, now + LeaseTTL, JobGroup(t, r)), now' = now,
           NEW q \in Row
    PROVE  RowEffect(t, q)
<1>1. table \in [Row -> TaskRow] /\ now \in Nat
  BY DEF RunTickTypeOK, TableTypeOK, Time
<1>2. CASE q # r
  <2>1. table'[q] = table[q]
    BY <1>1, <1>2 DEF ClaimTask
  <2>. QED BY <2>1 DEF RowEffect, Pending
<1>3. CASE q = r
  <2>1. /\ table'[q].status = table[q].status
        /\ table'[q].lease_until = now + LeaseTTL
        /\ table'[q].serialize_group =
             IF JobGroup(t, q) # NULL THEN JobGroup(t, q)
             ELSE table[q].serialize_group
    BY <1>1, <1>3 DEF ClaimTask, TaskRow
  <2>2. JobGroup(t, q) \in {GroupOf[q], NULL}
    BY DEF JobGroup
  <2>3. now + LeaseTTL > now /\ now + LeaseTTL # NULL
    BY <1>1, TickConstants, NullIsFresh
  <2>4. LeaseLive(q)'
    BY <2>1, <2>3 DEF LeaseLive
  <2>. QED BY <2>1, <2>2, <2>4 DEF RowEffect, Pending
<1>. QED BY <1>2, <1>3

(* A step that leaves the table alone.                                     *)
LEMMA NoRowEffect ==
    ASSUME NEW t \in Tick, NEW q \in Row, UNCHANGED table
    PROVE  RowEffect(t, q)
BY DEF RowEffect, Pending
(* The rows the delivery loop writes back keep their group, and are        *)
(* pending only if they were.                                              *)
LEMMA WrittenRows ==
    ASSUME RunTickTypeOK, NEW r \in Row, NEW j \in Job,
           NEW row \in {FinalFailure(r, j), ScheduledRetry(r, j), Advanced(r, j)}
    PROVE  /\ row.status = "pending" => Pending(r)
           /\ Exists(r) => row.status # "absent"
           /\ row.serialize_group = table[r].serialize_group
<1>1. table[r] \in TaskRow
  BY DEF RunTickTypeOK, TableTypeOK
<1>2. CASE row = FinalFailure(r, j)
  <2>1. CASE r \in RecurringRow /\ j.readable
    BY <1>1, <1>2, <2>1 DEF FinalFailure, Released, TaskRow, Pending, Exists, Live
  <2>2. CASE ~(r \in RecurringRow /\ j.readable)
    BY <1>1, <1>2, <2>2 DEF FinalFailure, Released, TaskRow, Pending, Exists, Live
  <2>. QED BY <2>1, <2>2
<1>3. CASE row = ScheduledRetry(r, j)
  BY <1>1, <1>3 DEF ScheduledRetry, TaskRow, Pending, Exists, Live
<1>4. CASE row = Advanced(r, j)
  BY <1>1, <1>4 DEF Advanced, Released, TaskRow, Pending, Exists, Live
<1>. QED BY <1>2, <1>3, <1>4

(* Every action of a tick that may write the table.                        *)
LEMMA TickRowEffect ==
    ASSUME RunTickTypeOK, BeatsInFuture, NEW t \in Tick, TickStep(t), NEW q \in Row
    PROVE  RowEffect(t, q)
<1>. USE DEF storeVars, historyVars
<1>0. table \in [Row -> TaskRow] /\ job \in [Tick -> [Row -> Job]] /\ now \in Nat
  BY DEF RunTickTypeOK, TableTypeOK, Time
<1>1. CASE UNCHANGED table
  BY <1>1, NoRowEffect
<1>2. ASSUME NEW r \in Row, ClaimGranted(t, r) PROVE RowEffect(t, q)
  BY <1>2, ClaimEffect DEF ClaimGranted, ClaimSucceeds, Claimable
<1>3. ASSUME NEW r \in Row, ClaimThrows(t, r) PROVE RowEffect(t, q)
  BY <1>3, <1>1, ClaimEffect DEF ClaimThrows, ClaimSucceeds, Claimable
<1>4. ASSUME NEW r \in Row, LandBeat(t, r) PROVE RowEffect(t, q)
  <2>1. CASE Pending(r) /\ table[r].lease_until # NULL /\ q = r
    <3>1. table'[q] = [table[q] EXCEPT !.lease_until = beat[t][r]] /\ now' = now
      BY <1>4, <2>1, <1>0 DEF LandBeat, RenewTaskLease
    <3>2. beat[t][r] > now /\ beat[t][r] # NULL
      BY <1>4 DEF LandBeat, BeatsInFuture
    <3>. QED BY <3>1, <3>2, <2>1, <1>0 DEF RowEffect, LeaseLive, TaskRow, Pending
  <2>2. CASE ~(Pending(r) /\ table[r].lease_until # NULL /\ q = r)
    <3>1. table'[q] = table[q]
      BY <1>4, <2>2, <1>0 DEF LandBeat, RenewTaskLease
    <3>. QED BY <3>1 DEF RowEffect, Pending
  <2>. QED BY <2>1, <2>2
<1>5. ASSUME NEW r \in Row, Active(t, r), now' = now,
             job' = [job EXCEPT ![t][r] = NoJob],
             NEW row \in {FinalFailure(r, job[t][r]), ScheduledRetry(r, job[t][r]),
                          Advanced(r, job[t][r])},
             UpdateTaskById(r, row)
      PROVE  RowEffect(t, q)
  <2>1. CASE Exists(r)
    <3>1. job[t][r] \in Job
      BY <1>0
    <3>2. row \in TaskRow
      BY <3>1, WrittenRowsType DEF RunTickTypeOK
    <3>3. /\ row.status = "pending" => Pending(r)
          /\ row.status # "absent"
          /\ row.serialize_group = table[r].serialize_group
      BY <3>1, <2>1, WrittenRows
    <3>. QED BY <1>5, <3>2, <3>3, WriteBackEffect
  <2>2. CASE ~Exists(r)
    BY <2>2, <1>5, NoRowEffect DEF UpdateTaskById
  <2>. QED BY <2>1, <2>2
<1>6. ASSUME NEW r \in Row, NEW permanent \in BOOLEAN,
             Active(t, r), DeliveryFailure(t, r, permanent)
      PROVE  RowEffect(t, q)
  BY <1>5, <1>6 DEF DeliveryFailure
<1>7. ASSUME NEW r \in Row, SkipStale(t, r) PROVE RowEffect(t, q)
  BY <1>5, <1>7 DEF SkipStale, Active
<1>8. ASSUME NEW r \in Row, Active(t, r), now' = now,
             job' = [job EXCEPT ![t][r] = NoJob],
             NEW row \in TaskRow, row.status \in {"sent", "delivered"},
             row.serialize_group = table[r].serialize_group,
             UpdateTaskById(r, row)
      PROVE  RowEffect(t, q)
  BY <1>8, WriteBackEffect
<1>9. ASSUME NEW r \in Row, FinishSent(t, r) PROVE RowEffect(t, q)
  <2>1. /\ Active(t, r)
        /\ now' = now
        /\ job' = [job EXCEPT ![t][r] = NoJob]
    BY <1>9 DEF FinishSent, Active
  <2>2. CASE r \in RecurringRow
    BY <1>5, <1>9, <2>1, <2>2 DEF FinishSent
  <2>3. CASE r \notin RecurringRow
    <3>. DEFINE row == [table[r] EXCEPT !.status = "delivered"]
    <3>1. row \in TaskRow /\ row.status = "delivered"
          /\ row.serialize_group = table[r].serialize_group
      BY <1>0 DEF TaskRow, Status
    <3>2. UpdateTaskById(r, row)
      BY <1>9, <2>3, <1>0 DEF FinishSent, DeleteTaskById, UpdateTaskById
    <3>. QED BY <1>8, <2>1, <3>1, <3>2
  <2>. QED BY <2>2, <2>3
<1>10. ASSUME NEW r \in Row, FinishSentThrows(t, r), ~UNCHANGED table
       PROVE  RowEffect(t, q)
  <2>1. /\ Active(t, r)
        /\ now' = now
        /\ job' = [job EXCEPT ![t][r] = NoJob]
    BY <1>10 DEF FinishSentThrows, Active
  <2>2. CASE r \in RecurringRow
    BY <1>5, <1>10, <2>1, <2>2 DEF FinishSentThrows, RecordedAsSent
  <2>3. CASE r \notin RecurringRow
    <3>. DEFINE row == [Released(table[r]) EXCEPT !.status = "sent",
                                                  !.retry_count = 0]
    <3>1. row \in TaskRow /\ row.status = "sent"
          /\ row.serialize_group = table[r].serialize_group
      BY <1>0 DEF TaskRow, Status, Live, Released
    <3>2. UpdateTaskById(r, row)
      BY <1>10, <2>3 DEF FinishSentThrows, RecordedAsSent
    <3>. QED BY <1>8, <2>1, <3>1, <3>2
  <2>. QED BY <2>2, <2>3
<1>. QED
  BY <1>1, <1>2, <1>3, <1>4, <1>6, <1>7, <1>9, <1>10
     DEF TickStep, FetchBatch, Fetched, Crash, RunTask, ClaimRefused, SendBeat, SendSucceeds,
         OutcomeWriteThrows, SendFails, DecryptFailed, Active
(* The clock stands still while a tick takes a step.                       *)
LEMMA TickTime ==
    ASSUME NEW t \in Tick, TickStep(t)
    PROVE  now' = now
BY DEF TickStep, FetchBatch, Fetched, Crash, RunTask, ClaimGranted, ClaimRefused, ClaimThrows,
       SendBeat, LandBeat, SendSucceeds, SendFails, DecryptFailed, DeliveryFailure,
       SkipStale, FinishSent, FinishSentThrows, OutcomeWriteThrows, storeVars

(* A tick that fetches delivers nothing yet, and leaves the others alone.  *)
LEMMA FetchedEffect ==
    ASSUME RunTickTypeOK, NEW t \in Tick, Fetched(t)
    PROVE  \A s \in Tick, q \in Row : /\ s # t => job'[s][q] = job[s][q]
                                      /\ ~Active(t, q)'
<1>1. PICK f : /\ job' = [job EXCEPT ![t] = f]
               /\ \A r \in Row : f[r].pc \in {"none", "queued"}
  BY ZenonT(40) DEF Fetched, Snapshot, NoJob
<1>. QED BY <1>1 DEF RunTickTypeOK, Active

(* Every action of a tick on the deliveries.                               *)
LEMMA TickJobEffect ==
    ASSUME RunTickTypeOK, NEW t \in Tick, TickStep(t), NEW q \in Row
    PROVE  JobEffect(t, q) /\ BeatEffect(t, q)
<1>. USE DEF storeVars, historyVars, tickVars
<1>0. /\ job \in [Tick -> [Row -> Job]]
      /\ beat \in [Tick -> [Row -> Time \cup {NULL}]]
  BY DEF RunTickTypeOK
<1>1. BeatEffect(t, q)
  <2>1. CASE UNCHANGED beat
    BY <2>1 DEF BeatEffect
  <2>2. ASSUME NEW r \in Row, NEW b \in {NULL, now + LeaseTTL},
               beat' = [beat EXCEPT ![t][r] = b]
        PROVE  BeatEffect(t, q)
    BY <2>2, <1>0 DEF BeatEffect
  <2>. QED
    BY <2>1, <2>2
       DEF TickStep, FetchBatch, Fetched, Crash, RunTask, ClaimGranted, ClaimRefused,
           ClaimThrows, SendBeat, LandBeat, SendSucceeds, SendFails, DecryptFailed,
           DeliveryFailure, SkipStale, FinishSent, FinishSentThrows,
           OutcomeWriteThrows
<1>2. JobEffect(t, q)
  <2>1. CASE UNCHANGED job
    BY <2>1 DEF JobEffect, Active
  <2>2. ASSUME NEW r \in Row, job' = [job EXCEPT ![t][r] = NoJob]
        PROVE  JobEffect(t, q)
    BY <2>2, <1>0 DEF JobEffect, Active, NoJob
  <2>3. CASE FetchBatch(t)
    BY <2>3, FetchedEffect DEF FetchBatch, JobEffect, Active
  <2>4. CASE Crash(t)
    BY <2>4, <1>0 DEF Crash, JobEffect, Active, NoJob
  <2>5. ASSUME NEW r \in Row, RunTask(t, r) PROVE JobEffect(t, q)
    <3>1. PICK x : job' = [job EXCEPT ![t][r] = Snapshot(r, x)]
      BY <2>5 DEF RunTask
    <3>. QED BY <3>1, <1>0 DEF JobEffect, Active, Snapshot
  <2>6. ASSUME NEW r \in Row, ClaimGranted(t, r) PROVE JobEffect(t, q)
    <3>1. job' = [job EXCEPT ![t][r] =
                    [job[t][r] EXCEPT
                       !.pc = FirstStep(job[t][r]),
                       !.began = IF PromptCron THEN now ELSE 0]]
      BY <2>6 DEF ClaimGranted
    <3>. QED BY <3>1, <2>6, <1>0 DEF JobEffect, Active, Job
  <2>7. ASSUME NEW r \in Row, SendSucceeds(t, r) PROVE JobEffect(t, q)
    <3>1. /\ job' = [job EXCEPT ![t][r] = [job[t][r] EXCEPT !.pc = "sent"]]
          /\ Active(t, r)
      BY <2>7, <1>0 DEF SendSucceeds, Active
    <3>. QED BY <3>1, <1>0 DEF JobEffect, Active, Job
  <2>. QED
    BY <2>1, <2>2, <2>3, <2>4, <2>5, <2>6, <2>7
       DEF TickStep, ClaimRefused, ClaimThrows, SendBeat, LandBeat, SendFails,
           DecryptFailed, DeliveryFailure, SkipStale, FinishSent, FinishSentThrows,
           OutcomeWriteThrows
<1>. QED BY <1>1, <1>2

(* A user never touches a lease, a group or a delivery, and makes a row    *)
(* pending only when it was absent.                                        *)
LEMMA UserEffect ==
    ASSUME TypeOK, UserStep, UNCHANGED tickVars, NEW q \in Row
    PROVE  /\ UNCHANGED <<now, job, beat>>
           /\ table'[q].status = "absent" => table[q].status = "absent"
           /\ \/ table[q].status = "absent"
              \/ /\ Pending(q)' => Pending(q)
                 /\ table'[q].lease_until = table[q].lease_until
                 /\ table'[q].serialize_group = table[q].serialize_group
<1>. USE DEF storeVars, historyVars, tickVars, Pending
<1>0. table \in [Row -> TaskRow]
  BY DEF TypeOK, RunTickTypeOK, TableTypeOK
<1>1. ASSUME NEW r \in Row, Schedule(r)
      PROVE  \/ table'[q] = table[q]
             \/ table[q].status = "absent" /\ table'[q].status = "pending"
  BY <1>0, <1>1 DEF Schedule, NewRow
<1>2. ASSUME NEW r \in Row, Cancel(r)
      PROVE  \/ table'[q] = table[q]
             \/ table'[q] = [table[q] EXCEPT !.status = "cancelled"]
  BY <1>0, <1>2 DEF Cancel, DeleteTaskByUuid
<1>3. ASSUME NEW old \in Row, NEW r \in Row, Supersede(old, r)
      PROVE  \/ table'[q] = table[q]
             \/ table[q].status = "absent" /\ table'[q].status = "pending"
             \/ table'[q] = [table[q] EXCEPT !.status = "cancelled"]
  <2>. DEFINE status == IF Exists(old) THEN "cancelled" ELSE table[old].status
  <2>1. /\ \E at \in SendTimes(r) :
              table' = [table EXCEPT ![old].status = status, ![r] = NewRow(at)]
        /\ table[r].status = "absent"
        /\ old # r
    BY <1>3 DEF Supersede
  <2>2. status \in {"cancelled", table[old].status}
    OBVIOUS
  <2>. HIDE DEF status
  <2>3. CASE q = r
    BY <2>1, <2>3, <1>0 DEF NewRow
  <2>4. CASE q = old
    BY <2>1, <2>2, <2>4, <1>0 DEF TaskRow
  <2>5. CASE q # r /\ q # old
    BY <2>1, <2>5, <1>0
  <2>. QED BY <2>3, <2>4, <2>5
<1>4. ASSUME NEW e \in Edit, UpdateWrite(e)
      PROVE  \/ table'[q] = table[q]
             \/ /\ table'[q].status = table[q].status
                /\ table'[q].lease_until = table[q].lease_until
                /\ table'[q].serialize_group = table[q].serialize_group
  <2>. DEFINE r == put[e].row
  <2>1. CASE UNCHANGED table \/ q # r
    BY <1>0, <1>4, <2>1 DEF UpdateWrite
  <2>2. CASE ~UNCHANGED table /\ q = r
    <3>1. PICK o \in {table[q].next_send_at, now + ReschedulePeriod} :
             table' = [table EXCEPT ![q] = Updated(table[q], put[e].payload, o)]
      BY <1>4, <2>2 DEF UpdateWrite
    <3>. QED BY <1>0, <3>1 DEF TaskRow, Updated
  <2>. QED BY <2>1, <2>2
<1>5. \/ table'[q] = table[q]
      \/ table[q].status = "absent" /\ table'[q].status = "pending"
      \/ table'[q] = [table[q] EXCEPT !.status = "cancelled"]
      \/ /\ table'[q].status = table[q].status
         /\ table'[q].lease_until = table[q].lease_until
         /\ table'[q].serialize_group = table[q].serialize_group
  BY <1>1, <1>2, <1>3, <1>4 DEF UserStep, UpdateRead
<1>6. UNCHANGED <<now, job, beat>>
  BY DEF UserStep, Schedule, Cancel, Supersede, UpdateRead, UpdateWrite
<1>. QED BY <1>0, <1>5, <1>6 DEF TaskRow

-----------------------------------------------------------------------------
(* The invariant.                                                          *)

LEMMA ExclusionInit == Init => Exclusion
<1>. SUFFICES ASSUME Init PROVE Exclusion
  OBVIOUS
<1>1. \A t \in Tick, r \in Row : ~Active(t, r) /\ beat[t][r] = NULL
  BY DEF Init, RunTickInit, Active, NoJob
<1>. QED
  BY <1>1, InitType
     DEF Exclusion, BeatsInFuture, DeliveriesHaveRows, LeaseCoversDelivery,
         RowExclusive, GroupRecorded, GroupExclusive

(* What a granted claim knew of the row, and what it made of it.           *)
LEMMA ClaimFacts ==
    ASSUME RunTickTypeOK, NEW t \in Tick, NEW r \in Row, ClaimGranted(t, r)
    PROVE  /\ Pending(r)
           /\ ~LeaseLive(r)
           /\ job[t][r].pc = "queued"
           /\ \A q \in Row \ {r} : job'[t][q] = job[t][q]
           /\ LeaseLive(r)'
           /\ job[t][r].readable /\ GroupOf[r] # NULL
                => /\ ~GroupBusy(r, GroupOf[r])
                   /\ table'[r].serialize_group = GroupOf[r]
<1>1. /\ table \in [Row -> TaskRow]
      /\ job \in [Tick -> [Row -> Job]]
      /\ now \in Nat
  BY DEF RunTickTypeOK, TableTypeOK, Time
<1>2. table[r].lease_until \in Nat \cup {NULL}
  BY <1>1 DEF TaskRow, Time
<1>3. /\ Claimable(r, job[t][r].next_send_at, JobGroup(t, r))
      /\ job[t][r].pc = "queued"
      /\ ClaimTask(r, now + LeaseTTL, JobGroup(t, r))
      /\ now' = now
  BY DEF ClaimGranted, ClaimSucceeds, NextInQueue
<1>4. Pending(r) /\ ~LeaseLive(r)
  BY <1>1, <1>2, <1>3, NullIsFresh DEF Claimable, LeaseFree, LeaseLive
<1>5. \A q \in Row \ {r} : job'[t][q] = job[t][q]
  BY <1>1 DEF ClaimGranted
<1>6. /\ table'[r].lease_until = now + LeaseTTL
      /\ table'[r].serialize_group = IF JobGroup(t, r) # NULL THEN JobGroup(t, r)
                                     ELSE table[r].serialize_group
  BY <1>1, <1>3 DEF ClaimTask, TaskRow
<1>7. LeaseLive(r)'
  BY <1>1, <1>3, <1>6, TickConstants, NullIsFresh DEF LeaseLive
<1>8. job[t][r].readable /\ GroupOf[r] # NULL
        => /\ ~GroupBusy(r, GroupOf[r])
           /\ table'[r].serialize_group = GroupOf[r]
  BY <1>3, <1>6 DEF JobGroup, Claimable
<1>. QED BY <1>3, <1>4, <1>5, <1>7, <1>8

(* A step of a tick.                                                       *)
LEMMA ExclusionTick ==
    ASSUME Exclusion, NEW t \in Tick, TickStep(t), TypeOK'
    PROVE  Exclusion'
<1>. USE DEF Exclusion
<1>0. RunTickTypeOK /\ now \in Nat
  BY DEF TypeOK, RunTickTypeOK, TableTypeOK, Time
<1>1. \A q \in Row : RowEffect(t, q)
  BY <1>0, TickRowEffect
<1>2. \A q \in Row : JobEffect(t, q) /\ BeatEffect(t, q)
  BY <1>0, TickJobEffect
<1>3. now' = now
  BY TickTime
<1>4. \A q \in Row : Pending(q)' => Pending(q)
  BY <1>1 DEF RowEffect
<1>5. ASSUME NEW s \in Tick, NEW q \in Row, Active(s, q)'
      PROVE  /\ job'[s][q].readable = job[s][q].readable
             /\ Active(s, q) \/ (s = t /\ ClaimGranted(t, q))
  BY <1>2, <1>5 DEF JobEffect
<1>6. BeatsInFuture'
  <2>1. ASSUME NEW s \in Tick, NEW q \in Row, beat'[s][q] # NULL
        PROVE  beat'[s][q] > now
    BY <1>0, <1>2, <2>1, TickConstants DEF BeatEffect, BeatsInFuture
  <2>. QED BY <1>3, <2>1 DEF BeatsInFuture
<1>7. DeliveriesHaveRows'
  <2>1. ASSUME NEW s \in Tick, NEW q \in Row, Active(s, q)'
        PROVE  table'[q].status # "absent"
    <3>1. table[q].status # "absent"
      BY <1>0, <1>5, <2>1, ClaimFacts DEF DeliveriesHaveRows, Pending
    <3>. QED BY <3>1, <1>1 DEF RowEffect
  <2>. QED BY <2>1 DEF DeliveriesHaveRows
<1>8. LeaseCoversDelivery'
  <2>1. ASSUME NEW s \in Tick, NEW q \in Row, Active(s, q)', Pending(q)'
        PROVE  LeaseLive(q)'
    <3>1. CASE Active(s, q)
      <4>1. LeaseLive(q)
        BY <1>4, <2>1, <3>1 DEF LeaseCoversDelivery
      <4>2. ~(Active(t, q) /\ ~Active(t, q)')
        BY <2>1, <3>1 DEF RowExclusive
      <4>3. table'[q].lease_until = table[q].lease_until \/ LeaseLive(q)'
        BY <1>1, <4>2 DEF RowEffect
      <4>. QED BY <4>1, <4>3, <1>3 DEF LeaseLive
    <3>2. CASE s = t /\ ClaimGranted(t, q)
      BY <3>2, <1>0, ClaimFacts
    <3>. QED BY <3>1, <3>2, <1>5, <2>1
  <2>. QED BY <2>1 DEF LeaseCoversDelivery
<1>9. RowExclusive'
  <2>1. ASSUME NEW s \in Tick, NEW u \in Tick, NEW q \in Row,
               Active(s, q)', Active(u, q)', s # u
        PROVE  FALSE
    <3>1. \/ Active(s, q) /\ Active(u, q)
          \/ Active(s, q) /\ ClaimGranted(t, q)
          \/ Active(u, q) /\ ClaimGranted(t, q)
      BY <1>5, <2>1
    <3>2. ~(Active(s, q) /\ ClaimGranted(t, q)) /\ ~(Active(u, q) /\ ClaimGranted(t, q))
      BY <1>0, ClaimFacts DEF LeaseCoversDelivery
    <3>. QED BY <2>1, <3>1, <3>2 DEF RowExclusive
  <2>. QED BY <2>1 DEF RowExclusive
<1>10. GroupRecorded'
  <2>1. ASSUME NEW s \in Tick, NEW q \in Row, Active(s, q)',
               job'[s][q].readable, GroupOf[q] # NULL
        PROVE  table'[q].serialize_group = GroupOf[q]
    <3>1. CASE Active(s, q)
      <4>1. table[q].serialize_group = GroupOf[q]
        BY <3>1, <1>5, <2>1 DEF GroupRecorded
      <4>. QED BY <4>1, <1>1 DEF RowEffect
    <3>2. CASE s = t /\ ClaimGranted(t, q)
      BY <3>2, <1>0, <1>5, <2>1, ClaimFacts
    <3>. QED BY <3>1, <3>2, <1>5, <2>1
  <2>. QED BY <2>1 DEF GroupRecorded
<1>11. GroupExclusive'
  <2>1. ASSUME NEW q \in Row, NEW r \in Row, NEW s \in Tick, NEW u \in Tick,
               q # r, GroupOf[q] # NULL, GroupOf[q] = GroupOf[r],
               Active(s, q)', Active(u, r)',
               job'[s][q].readable, job'[u][r].readable,
               Pending(q)', Pending(r)'
        PROVE  FALSE
    <3>1. /\ Pending(q) /\ Pending(r)
          /\ job[s][q].readable /\ job[u][r].readable
      BY <1>4, <1>5, <2>1
    <3>2. \A x \in Row, y \in Row, v \in Tick :
            ~(/\ x # y /\ GroupOf[x] = GroupOf[y] /\ GroupOf[x] # NULL
              /\ Active(v, x) /\ job[v][x].readable /\ Pending(x)
              /\ ClaimGranted(t, y) /\ job[t][y].readable)
      <4>1. SUFFICES ASSUME NEW x \in Row, NEW y \in Row, NEW v \in Tick,
                            x # y, GroupOf[x] = GroupOf[y], GroupOf[x] # NULL,
                            Active(v, x), job[v][x].readable, Pending(x),
                            ClaimGranted(t, y), job[t][y].readable
                     PROVE  FALSE
        OBVIOUS
      <4>2. table[x].serialize_group = GroupOf[y] /\ LeaseLive(x)
        BY <4>1 DEF GroupRecorded, LeaseCoversDelivery
      <4>3. GroupBusy(y, GroupOf[y])
        BY <4>1, <4>2 DEF GroupBusy
      <4>. QED BY <4>1, <4>3, <1>0, ClaimFacts
    <3>3. ~(ClaimGranted(t, q) /\ ClaimGranted(t, r) /\ s = t /\ u = t)
      <4>1. SUFFICES ASSUME ClaimGranted(t, q), ClaimGranted(t, r), u = t PROVE FALSE
        OBVIOUS
      <4>2. job'[t][r] = job[t][r] /\ job[t][r].pc = "queued"
        BY <4>1, <1>0, <2>1, ClaimFacts
      <4>. QED BY <4>1, <4>2, <2>1 DEF Active
    <3>4. CASE Active(s, q) /\ Active(u, r)
      BY <3>4, <3>1, <2>1 DEF GroupExclusive
    <3>. QED BY <1>5, <2>1, <3>1, <3>2, <3>3, <3>4
  <2>. QED BY <2>1 DEF GroupExclusive
<1>. QED BY <1>6, <1>7, <1>8, <1>9, <1>10, <1>11

(* A step of a user.                                                       *)
LEMMA ExclusionUser ==
    ASSUME Exclusion, UserStep, UNCHANGED tickVars, TypeOK'
    PROVE  Exclusion'
<1>. USE DEF Exclusion
<1>1. \A q \in Row :
         /\ UNCHANGED <<now, job, beat>>
         /\ table'[q].status = "absent" => table[q].status = "absent"
         /\ \/ table[q].status = "absent"
            \/ /\ Pending(q)' => Pending(q)
               /\ table'[q].lease_until = table[q].lease_until
               /\ table'[q].serialize_group = table[q].serialize_group
  BY UserEffect
<1>2. \A s \in Tick, q \in Row :
         /\ Active(s, q)' => Active(s, q)
         /\ job'[s][q].readable = job[s][q].readable
  BY <1>1 DEF Active
<1>3. \A s \in Tick, q \in Row :
         Active(s, q) => /\ Pending(q)' => Pending(q)
                         /\ LeaseLive(q) => LeaseLive(q)'
                         /\ table'[q].serialize_group = table[q].serialize_group
  BY <1>1 DEF DeliveriesHaveRows, LeaseLive
<1>4. BeatsInFuture'
  BY <1>1 DEF BeatsInFuture
<1>5. DeliveriesHaveRows'
  BY <1>1, <1>2 DEF DeliveriesHaveRows
<1>6. LeaseCoversDelivery'
  BY <1>2, <1>3 DEF LeaseCoversDelivery
<1>7. RowExclusive'
  BY <1>2 DEF RowExclusive
<1>8. GroupRecorded'
  BY <1>2, <1>3 DEF GroupRecorded
<1>9. GroupExclusive'
  BY <1>2, <1>3 DEF GroupExclusive
<1>. QED BY <1>4, <1>5, <1>6, <1>7, <1>8, <1>9

(* The clock moves on.                                                     *)
LEMMA ExclusionAdvance ==
    ASSUME TimelyHeartbeats, Exclusion, Advance, TypeOK'
    PROVE  Exclusion'
<1>. USE DEF Exclusion, Active, Pending
<1>1. /\ HeartbeatsKeepUp /\ now' = now + 1
      /\ UNCHANGED <<table, job, beat>>
  BY DEF Advance, tickVars
<1>2. BeatsInFuture' /\ LeaseCoversDelivery'
  BY <1>1 DEF HeartbeatsKeepUp, BeatsInFuture, LeaseCoversDelivery, LeaseLive
<1>. QED BY <1>1, <1>2 DEF DeliveriesHaveRows, RowExclusive, GroupRecorded,
                           GroupExclusive

-----------------------------------------------------------------------------

(* As long as heartbeats are timely, Exclusion holds throughout: the       *)
(* inductive invariant of the claim protocol.                              *)
THEOREM ExclusionInvariant ==
    ASSUME TimelyHeartbeats
    PROVE  Spec => []Exclusion
<1>1. Init => Exclusion
  BY ExclusionInit
<1>2. Exclusion /\ [Next]_vars => Exclusion'
  <2>. SUFFICES ASSUME Exclusion, [Next]_vars PROVE Exclusion'
    OBVIOUS
  <2>0. TypeOK'
    BY NextType DEF Exclusion
  <2>1. ASSUME NEW t \in Tick, TickStep(t) PROVE Exclusion'
    BY <2>0, <2>1, ExclusionTick
  <2>2. CASE Advance
    BY <2>0, <2>2, ExclusionAdvance
  <2>3. CASE UserStep /\ UNCHANGED tickVars
    BY <2>0, <2>3, ExclusionUser
  <2>4. CASE UNCHANGED vars
    BY <2>0, <2>4
       DEF vars, storeVars, tickVars, Exclusion, BeatsInFuture, DeliveriesHaveRows,
           LeaseCoversDelivery, RowExclusive, GroupRecorded, GroupExclusive, Active,
           Pending, LeaseLive
  <2>. QED BY <2>1, <2>2, <2>3, <2>4 DEF Next
<1>. QED BY <1>1, <1>2, PTL DEF Spec

(* Two ticks never deliver the same row at the same time, through crashes, *)
(* failing writes, late heartbeats and user updates, as long as a live     *)
(* delivery renews its lease in time.                                      *)
THEOREM RowsExclusive ==
    ASSUME TimelyHeartbeats
    PROVE  Spec => []RowExclusive
<1>1. Exclusion => RowExclusive
  BY DEF Exclusion
<1>. QED BY <1>1, ExclusionInvariant, PTL

(* Two deliveries of one serializeBy group never run at the same time      *)
(* while both rows are pending, under the same assumption.                 *)
THEOREM GroupsExclusive ==
    ASSUME TimelyHeartbeats
    PROVE  Spec => []GroupExclusive
<1>1. Exclusion => GroupExclusive
  BY DEF Exclusion
<1>. QED BY <1>1, ExclusionInvariant, PTL

-----------------------------------------------------------------------------
(***************************************************************************)
(* What becomes of a task, for every number of ticks, rows and updates: a  *)
(* sent occurrence is not sent again, a task is given up only after its    *)
(* retries, removed only once it is out, and keeps the updates that were   *)
(* accepted.  The arguments: an accepted update that raced nobody is in    *)
(* every payload a tick or a PUT could write (Updates); and most of what   *)
(* happens to a row, and everything that happens next to it, leaves the    *)
(* part of it the outcomes depend on alone (Quiet), the few steps that do  *)
(* not being taken one by one.                                             *)
(***************************************************************************)

-----------------------------------------------------------------------------
(* Leases                                                                  *)

(* The rows the delivery loop writes back are released, and keep their     *)
(* status unless they are closed.                                          *)
LEMMA WrittenLeases ==
    ASSUME RunTickTypeOK, NEW r \in Row, NEW j \in Job,
           NEW row \in {FinalFailure(r, j), ScheduledRetry(r, j), Advanced(r, j)}
    PROVE  /\ row.lease_until = NULL
           /\ row.status = "failed" \/ row.status = table[r].status
<1>1. table[r] \in TaskRow
  BY DEF RunTickTypeOK, TableTypeOK
<1>2. CASE row = FinalFailure(r, j)
  BY <1>1, <1>2 DEF FinalFailure, Released, TaskRow
<1>3. CASE row = ScheduledRetry(r, j)
  BY <1>1, <1>3 DEF ScheduledRetry, TaskRow
<1>4. CASE row = Advanced(r, j)
  BY <1>1, <1>4 DEF Advanced, Released, TaskRow
<1>. QED BY <1>2, <1>3, <1>4

(* A step of a tick leaves a lease on a pending row only to a delivery, or *)
(* to the list of leases nobody will release.                              *)
LEMMA LeasesTick ==
    ASSUME TypeOK, LeasesOwned, NEW t \in Tick, TickStep(t)
    PROVE  LeasesOwned'
<1>. USE DEF storeVars, historyVars, tickVars, Pending
<1>0. /\ table \in [Row -> TaskRow]
      /\ job \in [Tick -> [Row -> Job]]
  BY DEF TypeOK, RunTickTypeOK, TableTypeOK
<1>1. ASSUME UNCHANGED table, abandoned \subseteq abandoned',
             \A s \in Tick, q \in Row :
                Active(s, q) => Active(s, q)' \/ q \in abandoned'
      PROVE  LeasesOwned'
  BY <1>1 DEF LeasesOwned
<1>2. ASSUME NEW r \in Row,
             \A q \in Row \ {r} : table'[q] = table[q],
             \A s \in Tick, q \in Row \ {r} : job'[s][q] = job[s][q],
             abandoned \ {r} \subseteq abandoned',
             Pending(r)' /\ table'[r].lease_until # NULL
               => r \in abandoned' \/ \E s \in Tick : Active(s, r)'
      PROVE  LeasesOwned'
  BY <1>2 DEF LeasesOwned, Active
<1>3. CASE FetchBatch(t)
  <2>1. \A s \in Tick \ {t} : job'[s] = job[s]
    BY <1>0, <1>3 DEF FetchBatch, Fetched
  <2>. QED BY <1>1, <1>3, <2>1 DEF FetchBatch, Idle, Active
<1>4. CASE Crash(t)
  BY <1>0, <1>1, <1>4 DEF Crash, Active
<1>5. ASSUME NEW r \in Row, RunTask(t, r) PROVE LeasesOwned'
  BY <1>0, <1>1, <1>5 DEF RunTask, Idle, Active
<1>6. ASSUME NEW r \in Row, ClaimGranted(t, r) PROVE LeasesOwned'
  <2>1. Active(t, r)'
    BY <1>0, <1>6 DEF ClaimGranted, Active, FirstStep, Job
  <2>. QED BY <1>0, <1>2, <1>6, <2>1 DEF ClaimGranted, ClaimTask
<1>7. ASSUME NEW r \in Row, ClaimRefused(t, r) PROVE LeasesOwned'
  BY <1>0, <1>1, <1>7 DEF ClaimRefused, NextInQueue, Active
<1>8. ASSUME NEW r \in Row, ClaimThrows(t, r) PROVE LeasesOwned'
  <2>1. CASE UNCHANGED <<table, abandoned>>
    BY <1>0, <1>1, <1>8, <2>1 DEF ClaimThrows, NextInQueue, Active
  <2>2. CASE ~UNCHANGED <<table, abandoned>>
    BY <1>0, <1>2, <1>8, <2>2 DEF ClaimThrows, ClaimTask
  <2>. QED BY <2>1, <2>2
<1>9. ASSUME NEW r \in Row, LandBeat(t, r) PROVE LeasesOwned'
  <2>1. CASE Pending(r) /\ table[r].lease_until # NULL
    BY <1>0, <1>2, <1>9, <2>1 DEF LandBeat, RenewTaskLease, LeasesOwned, Active
  <2>2. CASE ~(Pending(r) /\ table[r].lease_until # NULL)
    BY <1>1, <1>9, <2>2 DEF LandBeat, RenewTaskLease, Active
  <2>. QED BY <2>1, <2>2
<1>10. ASSUME NEW r \in Row,
              \A q \in Row \ {r} : table'[q] = table[q],
              Pending(r)' => table'[r].lease_until = NULL,
              job' = [job EXCEPT ![t][r] = NoJob], abandoned' = abandoned
       PROVE  LeasesOwned'
  BY <1>0, <1>2, <1>10
<1>11. ASSUME NEW r \in Row, NEW row \in TaskRow, row.lease_until = NULL,
              Pending(r) \/ row.status = "failed" \/ row.status = table[r].status,
              UpdateTaskById(r, row)
       PROVE  /\ \A q \in Row \ {r} : table'[q] = table[q]
              /\ Pending(r)' => table'[r].lease_until = NULL
  BY <1>0, <1>11 DEF UpdateTaskById, Exists, Live
<1>12. ASSUME NEW r \in Row, NEW permanent \in BOOLEAN, DeliveryFailure(t, r, permanent)
       PROVE  LeasesOwned'
  <2>1. job[t][r] \in Job
    BY <1>0
  <2>2. PICK row \in {FinalFailure(r, job[t][r]), ScheduledRetry(r, job[t][r])} :
           UpdateTaskById(r, row)
    BY <1>12 DEF DeliveryFailure
  <2>3. row \in TaskRow
    BY <2>1, WrittenRowsType DEF TypeOK, RunTickTypeOK
  <2>4. row.lease_until = NULL
        /\ (row.status = "failed" \/ row.status = table[r].status)
    BY <1>0, <2>1, <2>2, WrittenLeases DEF TypeOK
  <2>. QED BY <1>10, <1>11, <1>12, <2>2, <2>3, <2>4 DEF DeliveryFailure
<1>13. ASSUME NEW r \in Row, SkipStale(t, r) PROVE LeasesOwned'
  <2>1. job[t][r] \in Job
    BY <1>0
  <2>2. FinalFailure(r, job[t][r]) \in TaskRow
    BY <2>1, WrittenRowsType DEF TypeOK, RunTickTypeOK
  <2>. QED BY <1>10, <1>11, <1>13, <2>1, <2>2, WrittenLeases DEF SkipStale, TypeOK
<1>14. ASSUME NEW r \in Row, FinishSent(t, r) PROVE LeasesOwned'
  <2>1. job[t][r] \in Job
    BY <1>0
  <2>2. Advanced(r, job[t][r]) \in TaskRow
    BY <2>1, WrittenRowsType DEF TypeOK, RunTickTypeOK
  <2>3. CASE r \in RecurringRow
    BY <1>10, <1>11, <1>14, <2>1, <2>2, <2>3, WrittenLeases DEF FinishSent, TypeOK
  <2>4. CASE r \notin RecurringRow
    BY <1>0, <1>10, <1>14, <2>4 DEF FinishSent, DeleteTaskById, TaskRow, Exists, Live
  <2>. QED BY <2>3, <2>4
<1>15. ASSUME NEW r \in Row, FinishSentThrows(t, r) PROVE LeasesOwned'
  <2>1. job[t][r] \in Job
    BY <1>0
  <2>2. CASE UpdateTaskById(r, RecordedAsSent(r, job[t][r])) /\ UNCHANGED abandoned
    <3>1. /\ \A q \in Row \ {r} : table'[q] = table[q]
          /\ Pending(r)' => table'[r].lease_until = NULL
      BY <1>0, <2>1, <2>2
         DEF UpdateTaskById, RecordedAsSent, Advanced, Released, TaskRow, Exists, Live
    <3>. QED BY <1>10, <1>15, <2>2, <3>1 DEF FinishSentThrows
  <2>3. CASE UNCHANGED table /\ abandoned' = abandoned \cup {r}
    BY <1>0, <1>1, <1>15, <2>3 DEF FinishSentThrows, Active
  <2>. QED BY <1>15, <2>2, <2>3 DEF FinishSentThrows
<1>16. ASSUME NEW r \in Row, OutcomeWriteThrows(t, r) PROVE LeasesOwned'
  BY <1>0, <1>1, <1>16 DEF OutcomeWriteThrows, Active
<1>17. ASSUME NEW r \in Row, SendSucceeds(t, r) PROVE LeasesOwned'
  <2>1. job[t][r] \in Job
    BY <1>0
  <2>. QED BY <1>0, <1>1, <1>17, <2>1 DEF SendSucceeds, Active, Job
<1>18. ASSUME NEW r \in Row, SendBeat(t, r) PROVE LeasesOwned'
  BY <1>1, <1>18 DEF SendBeat, Active
<1>. QED
  BY <1>3, <1>4, <1>5, <1>6, <1>7, <1>8, <1>9, <1>12, <1>13, <1>14, <1>15, <1>16, <1>17,
     <1>18 DEF TickStep, SendFails, DecryptFailed

(* A user never writes a lease, and what a user creates has none.          *)
LEMMA LeasesUser ==
    ASSUME TypeOK, LeasesOwned, UserStep, UNCHANGED tickVars
    PROVE  LeasesOwned'
<1>. USE DEF storeVars, historyVars, tickVars, Pending
<1>0. table \in [Row -> TaskRow]
  BY DEF TypeOK, RunTickTypeOK, TableTypeOK
<1>1. UNCHANGED <<job, abandoned>>
  BY DEF UserStep, Schedule, Cancel, Supersede, UpdateRead, UpdateWrite
<1>2. SUFFICES ASSUME NEW q \in Row, Pending(q)', table'[q].lease_until # NULL
               PROVE  Pending(q) /\ table[q].lease_until # NULL
  BY <1>1 DEF LeasesOwned, Active
<1>3. CASE \E r \in Row : Schedule(r) \/ Cancel(r)
  BY <1>0, <1>2, <1>3 DEF Schedule, Cancel, DeleteTaskByUuid, NewRow, TaskRow
<1>4. ASSUME NEW old \in Row, NEW r \in Row, Supersede(old, r)
      PROVE  Pending(q) /\ table[q].lease_until # NULL
  <2>1. PICK at \in SendTimes(r), status \in {"cancelled", table[old].status} :
           table' = [table EXCEPT ![old].status = status, ![r] = NewRow(at)]
    BY <1>4 DEF Supersede
  <2>2. table[old].status = status \/ status = "cancelled"
    BY <2>1
  <2>. QED BY <1>0, <1>2, <1>4, <2>1, <2>2 DEF Supersede, NewRow, TaskRow
<1>5. ASSUME NEW e \in Edit, UpdateWrite(e)
      PROVE  Pending(q) /\ table[q].lease_until # NULL
  <2>1. CASE UNCHANGED table \/ q # put[e].row
    BY <1>0, <1>2, <1>5, <2>1 DEF UpdateWrite
  <2>2. CASE ~UNCHANGED table /\ q = put[e].row
    <3>1. PICK o \in {table[q].next_send_at, now + ReschedulePeriod} :
             table' = [table EXCEPT ![q] = Updated(table[q], put[e].payload, o)]
      BY <1>5, <2>2 DEF UpdateWrite
    <3>. QED BY <1>0, <1>2, <3>1 DEF TaskRow, Updated
  <2>. QED BY <2>1, <2>2
<1>. QED BY <1>2, <1>3, <1>4, <1>5 DEF UserStep, UpdateRead

(* A late renewal never brings a released lease back: whatever crashes or  *)
(* fails, and whether heartbeats are timely or not, a live lease on a      *)
(* pending row is that of a delivery or was left behind by a fault.        *)
THEOREM LeasesReleased == Spec => []NoGhostLease
<1>1. Init => LeasesOwned
  BY NullIsFresh DEF Init, LeasesOwned, NewRow, Pending
<1>2. TypeOK /\ LeasesOwned /\ [Next]_vars => LeasesOwned'
  <2>. SUFFICES ASSUME TypeOK, LeasesOwned, [Next]_vars PROVE LeasesOwned'
    OBVIOUS
  <2>1. CASE Advance \/ UNCHANGED vars
    BY <2>1 DEF Advance, LeasesOwned, Pending, Active, vars, storeVars, tickVars,
                historyVars
  <2>. QED BY <2>1, LeasesTick, LeasesUser DEF Next
<1>3. LeasesOwned => NoGhostLease
  BY DEF LeasesOwned, NoGhostLease, LeaseLive
<1>. QED BY <1>1, <1>2, <1>3, TypeCorrect, PTL DEF Spec

-----------------------------------------------------------------------------
(* Updates                                                                 *)

(* What a tick may do to the payload of row q: put back that of a snapshot *)
(* when an occurrence is given up on; and to the snapshots of it: drop     *)
(* one, or take one of what the row says.                                  *)
PayloadEffect(q) ==
    /\ table'[q].status = "absent" => table[q].status = "absent"
    /\ \/ table'[q].payload = table[q].payload
       \/ \E s \in Tick : /\ job[s][q].pc # "none"
                          /\ table'[q].payload = job[s][q].payload
                          /\ GivenUp(q)'
    /\ \A s \in Tick : \/ job'[s][q] = NoJob
                       \/ /\ job'[s][q].payload = job[s][q].payload
                          /\ job[s][q].pc = "none" => job'[s][q].pc = "none"
                       \/ job'[s][q].payload = table[q].payload

LEMMA TickPayloadEffect ==
    ASSUME TypeOK, NEW t \in Tick, TickStep(t), NEW q \in Row
    PROVE  PayloadEffect(q)
<1>. USE DEF storeVars, historyVars, tickVars
<1>0. /\ table \in [Row -> TaskRow]
      /\ job \in [Tick -> [Row -> Job]]
      /\ job[t][q] \in Job
      /\ table[q] \in TaskRow
  BY DEF TypeOK, RunTickTypeOK, TableTypeOK
<1>1. ASSUME /\ table'[q].payload = table[q].payload
             /\ table'[q].status = "absent" => table[q].status = "absent",
             \A s \in Tick : \/ job'[s][q] = NoJob
                             \/ /\ job'[s][q].payload = job[s][q].payload
                                /\ job[s][q].pc = "none" => job'[s][q].pc = "none"
                             \/ job'[s][q].payload = table[q].payload
      PROVE  PayloadEffect(q)
  BY <1>1 DEF PayloadEffect
<1>2. ASSUME NEW r \in Row, job' = [job EXCEPT ![t][r] = NoJob]
      PROVE  \A s \in Tick : job'[s][q] = NoJob \/ job'[s][q] = job[s][q]
  BY <1>0, <1>2
<1>3. CASE FetchBatch(t)
  <2>1. PICK fetched \in SUBSET Row, readable \in SUBSET Row :
           job' = [job EXCEPT ![t] = [r \in Row |->
                     IF r \in fetched THEN Snapshot(r, r \in readable) ELSE NoJob]]
    <3>1. PICK batch \in PendingTasks(FetchLimit) \ {{}} :
          \E unreadable \in UnreadablePayloads(batch) :
          \E readable \in Reserved(batch \ unreadable) :
             job' = [job EXCEPT ![t] = [r \in Row |->
                       IF r \in readable \cup unreadable
                       THEN Snapshot(r, r \in readable) ELSE NoJob]]
      BY <1>3 DEF FetchBatch, Fetched
    <3>2. PICK unreadable \in UnreadablePayloads(batch) :
          \E readable \in Reserved(batch \ unreadable) :
             job' = [job EXCEPT ![t] = [r \in Row |->
                       IF r \in readable \cup unreadable
                       THEN Snapshot(r, r \in readable) ELSE NoJob]]
      BY <3>1
    <3>3. PICK readable \in Reserved(batch \ unreadable) :
             job' = [job EXCEPT ![t] = [r \in Row |->
                       IF r \in readable \cup unreadable
                       THEN Snapshot(r, r \in readable) ELSE NoJob]]
      BY <3>2
    <3>4. readable \in SUBSET Row /\ readable \cup unreadable \in SUBSET Row
      BY DEF Reserved, UnreadablePayloads, PendingTasks, Due
    <3>. QED BY <3>3, <3>4
  <2>2. \A s \in Tick \ {t} : job'[s][q] = job[s][q]
    BY <1>0, <2>1
  <2>3. job'[t][q] = NoJob \/ job'[t][q].payload = table[q].payload
    BY <1>0, <2>1 DEF Snapshot
  <2>. QED BY <1>1, <1>3, <2>2, <2>3 DEF FetchBatch
<1>4. CASE Crash(t)
  <2>1. \A s \in Tick \ {t} : job'[s][q] = job[s][q]
    BY <1>0, <1>4 DEF Crash
  <2>2. job'[t][q] = NoJob
    BY <1>0, <1>4 DEF Crash
  <2>. QED BY <1>1, <1>4, <2>1, <2>2 DEF Crash
<1>5. ASSUME NEW r \in Row, RunTask(t, r) PROVE PayloadEffect(q)
  <2>1. PICK readable : job' = [job EXCEPT ![t][r] = Snapshot(r, readable)]
    BY <1>5 DEF RunTask
  <2>2. \A s \in Tick : \/ job'[s][q] = job[s][q]
                        \/ job'[s][q].payload = table[q].payload
    BY <1>0, <2>1 DEF Snapshot
  <2>. QED BY <1>1, <1>5, <2>2 DEF RunTask
<1>6. ASSUME NEW r \in Row, ClaimTask(r, now + LeaseTTL, JobGroup(t, r))
      PROVE  table'[q].payload = table[q].payload /\ table'[q].status = table[q].status
  BY <1>0, <1>6 DEF ClaimTask, TaskRow
<1>7. ASSUME NEW r \in Row, ClaimGranted(t, r) PROVE PayloadEffect(q)
  <2>1. job[t][r].pc = "queued"
    BY <1>7 DEF ClaimGranted, NextInQueue
  <2>2. \A s \in Tick : /\ job'[s][q].payload = job[s][q].payload
                        /\ job[s][q].pc = "none" => job'[s][q].pc = "none"
    BY <1>0, <1>7, <2>1 DEF ClaimGranted, Job
  <2>. QED BY <1>1, <1>6, <1>7, <2>2 DEF ClaimGranted
<1>8. ASSUME NEW r \in Row, ClaimRefused(t, r) PROVE PayloadEffect(q)
  BY <1>1, <1>2, <1>8 DEF ClaimRefused
<1>9. ASSUME NEW r \in Row, ClaimThrows(t, r) PROVE PayloadEffect(q)
  BY <1>1, <1>2, <1>6, <1>9 DEF ClaimThrows
<1>10. ASSUME NEW r \in Row, SendBeat(t, r) PROVE PayloadEffect(q)
  BY <1>1, <1>10 DEF SendBeat
<1>11. ASSUME NEW r \in Row, LandBeat(t, r) PROVE PayloadEffect(q)
  <2>1. table'[q].payload = table[q].payload /\ table'[q].status = table[q].status
    BY <1>0, <1>11 DEF LandBeat, RenewTaskLease, TaskRow
  <2>. QED BY <1>1, <1>11, <2>1 DEF LandBeat
<1>12. ASSUME NEW r \in Row, SendSucceeds(t, r) PROVE PayloadEffect(q)
  <2>1. \A s \in Tick : /\ job'[s][q].payload = job[s][q].payload
                        /\ job[s][q].pc = "none" => job'[s][q].pc = "none"
    BY <1>0, <1>12 DEF SendSucceeds, Job
  <2>. QED BY <1>1, <1>12, <2>1 DEF SendSucceeds
<1>13. ASSUME NEW r \in Row, job' = [job EXCEPT ![t][r] = NoJob],
              NEW row, UpdateTaskById(r, row),
              row.status = "absent" => table[r].status = "absent",
              row.payload = table[r].payload
       PROVE  PayloadEffect(q)
  BY <1>0, <1>1, <1>2, <1>13 DEF UpdateTaskById
<1>14. ASSUME NEW r \in Row, job' = [job EXCEPT ![t][r] = NoJob],
              job[t][r].pc # "none",
              UpdateTaskById(r, FinalFailure(r, job[t][r])),
              NEW how \in {"exhausted", "permanent", "stale"},
              Settle(r, job[t][r], how)
       PROVE  PayloadEffect(q)
  <2>1. GivenUp(r)'
    <3>. DEFINE s == [id |-> r, occurrence |-> job[t][r].next_send_at,
                      attempts |-> attempts[r], how |-> how]
    <3>1. s \in settled'
      BY <1>14 DEF Settle
    <3>2. s.id = r /\ s.how # "delivered"
      BY <1>14
    <3>. HIDE DEF s
    <3>. QED BY <3>1, <3>2 DEF GivenUp
  <2>2. LET row == FinalFailure(r, job[t][r]) IN
        /\ row.payload \in {table[r].payload, job[t][r].payload}
        /\ row.status = "absent" => table[r].status = "absent"
    BY <1>0 DEF FinalFailure, Released, TaskRow
  <2>3. CASE r # q
    BY <1>0, <1>1, <1>2, <1>14, <2>3 DEF UpdateTaskById
  <2>4. CASE r = q
    <3>1. \/ table'[q] = table[q]
          \/ table'[q] = FinalFailure(q, job[t][q])
      BY <1>0, <1>14, <2>4 DEF UpdateTaskById
    <3>. QED BY <1>2, <1>14, <2>1, <2>2, <2>4, <3>1 DEF PayloadEffect
  <2>. QED BY <2>3, <2>4
<1>15. ASSUME NEW r \in Row, NEW permanent \in BOOLEAN,
              job[t][r].pc \in {"sending", "unreadable"},
              DeliveryFailure(t, r, permanent)
       PROVE  PayloadEffect(q)
  <2>1. CASE permanent \/ GivesUp(job[t][r])
    BY <1>14, <1>15, <2>1 DEF DeliveryFailure
  <2>2. CASE ~(permanent \/ GivesUp(job[t][r]))
    <3>1. LET row == ScheduledRetry(r, job[t][r]) IN
          row.payload = table[r].payload /\ row.status = table[r].status
      BY <1>0 DEF ScheduledRetry, TaskRow
    <3>. HIDE DEF ScheduledRetry
    <3>. QED BY <1>13, <1>15, <2>2, <3>1 DEF DeliveryFailure
  <2>. QED BY <2>1, <2>2
<1>16. ASSUME NEW r \in Row, SkipStale(t, r) PROVE PayloadEffect(q)
  BY <1>14, <1>16 DEF SkipStale
<1>17. ASSUME NEW r \in Row
       PROVE  \A row \in {Advanced(r, job[t][r]), RecordedAsSent(r, job[t][r])} :
                 /\ row.payload = table[r].payload
                 /\ row.status = "absent" => table[r].status = "absent"
  BY <1>0 DEF Advanced, RecordedAsSent, Released, TaskRow
<1>18. ASSUME NEW r \in Row, FinishSent(t, r) PROVE PayloadEffect(q)
  <2>1. CASE r \in RecurringRow
    BY <1>13, <1>17, <1>18, <2>1 DEF FinishSent
  <2>2. CASE r \notin RecurringRow
    <3>1. /\ table'[q].payload = table[q].payload
          /\ table'[q].status = "absent" => table[q].status = "absent"
      BY <1>0, <1>18, <2>2 DEF FinishSent, DeleteTaskById, TaskRow
    <3>. QED BY <1>1, <1>2, <1>18, <3>1 DEF FinishSent
  <2>. QED BY <2>1, <2>2
<1>19. ASSUME NEW r \in Row, FinishSentThrows(t, r) PROVE PayloadEffect(q)
  <2>1. CASE UpdateTaskById(r, RecordedAsSent(r, job[t][r]))
    BY <1>13, <1>17, <1>19, <2>1 DEF FinishSentThrows
  <2>2. CASE UNCHANGED table
    BY <1>1, <1>2, <1>19, <2>2 DEF FinishSentThrows
  <2>. QED BY <1>19, <2>1, <2>2 DEF FinishSentThrows
<1>20. ASSUME NEW r \in Row, OutcomeWriteThrows(t, r) PROVE PayloadEffect(q)
  BY <1>1, <1>2, <1>20 DEF OutcomeWriteThrows
<1>. QED
  BY <1>3, <1>4, <1>5, <1>7, <1>8, <1>9, <1>10, <1>11, <1>12, <1>15, <1>16,
     <1>18, <1>19, <1>20 DEF TickStep, SendFails, DecryptFailed

(* No record of how an occurrence was settled is lost.                     *)
LEMMA SettledStays ==
    ASSUME NEW t \in Tick, TickStep(t), NEW q \in Row, GivenUp(q)
    PROVE  GivenUp(q)'
<1>1. settled \subseteq settled'
  BY DEF TickStep, FetchBatch, Crash, RunTask, ClaimGranted, ClaimRefused, ClaimThrows,
         SendBeat, LandBeat, SendSucceeds, SendFails, DecryptFailed, DeliveryFailure,
         SkipStale, FinishSent, FinishSentThrows, OutcomeWriteThrows, Settle, historyVars
<1>. QED BY <1>1 DEF GivenUp

(* A step of a tick: what has not raced is in all that it could write.     *)
LEMMA UpdatesTick ==
    ASSUME Updates, NEW t \in Tick, TickStep(t), UNCHANGED handlerVars, TypeOK'
    PROVE  Updates'
<1>. USE DEF handlerVars, Accepted
<1>0. /\ UpdatesNameRows /\ PayloadsAccepted
      /\ \A e \in Edit : Accepted(e) => UpdateHeld(e)
      /\ \A q \in Row : PayloadEffect(q)
  BY TickPayloadEffect DEF Updates
<1>1. UpdatesNameRows'
  BY <1>0 DEF UpdatesNameRows, PayloadEffect
<1>2. PayloadsAccepted'
  <2>1. \A s \in Tick, q \in Row :
           job'[s][q].payload \in {{}, job[s][q].payload, table[q].payload}
    BY <1>0 DEF PayloadEffect, NoJob
  <2>2. \A q \in Row : \/ table'[q].payload = table[q].payload
                       \/ \E s \in Tick : table'[q].payload = job[s][q].payload
    BY <1>0 DEF PayloadEffect
  <2>. QED BY <1>0, <2>1, <2>2 DEF PayloadsAccepted
<1>3. ASSUME NEW e \in Edit, Accepted(e) PROVE UpdateHeld(e)'
  <2>. DEFINE r == put[e].row
  <2>1. r \in Row /\ UpdateHeld(e) /\ PayloadEffect(r)
    BY <1>0, <1>3 DEF UpdatesNameRows
  <2>2. CASE \E f \in Edit : Accepted(f) /\ Concurrent(e, f)
    BY <2>2 DEF UpdateHeld, Concurrent
  <2>3. CASE e \in raced /\ (e \in table[r].payload \/ GivenUp(r))
    BY <2>1, <2>3, SettledStays DEF PayloadEffect, UpdateHeld
  <2>4. CASE /\ e \notin raced /\ e \in table[r].payload
             /\ \A s \in Tick : job[s][r].pc # "none" => e \in job[s][r].payload
    <3>1. e \in table'[r].payload
      BY <2>1, <2>4 DEF PayloadEffect
    <3>2. \A s \in Tick : job'[s][r].pc # "none" => e \in job'[s][r].payload
      BY <2>1, <2>4 DEF PayloadEffect, NoJob
    <3>. QED BY <2>4, <3>1, <3>2 DEF UpdateHeld
  <2>. QED BY <2>1, <2>2, <2>3, <2>4 DEF UpdateHeld
<1>. QED BY <1>1, <1>2, <1>3 DEF Updates

(* A user creates or removes a task.                                       *)
LEMMA UpdatesCreateRemove ==
    ASSUME Updates, UNCHANGED <<job, settled, handlerVars>>, TypeOK',
           \A q \in Row :
              \/ /\ table'[q].payload = table[q].payload
                 /\ table'[q].status = "absent" => table[q].status = "absent"
              \/ /\ table[q].status = "absent"
                 /\ table'[q].status # "absent"
                 /\ table'[q].payload = {}
    PROVE  Updates'
<1>. USE DEF handlerVars, Accepted
<1>1. UpdatesNameRows' /\ PayloadsAccepted'
  BY DEF Updates, UpdatesNameRows, PayloadsAccepted
<1>2. ASSUME NEW e \in Edit, Accepted(e) PROVE UpdateHeld(e)'
  <2>1. UpdateHeld(e) /\ put[e].row \in Row /\ table[put[e].row].status # "absent"
    BY <1>2 DEF Updates, UpdatesNameRows
  <2>. QED BY <2>1 DEF UpdateHeld, Concurrent, GivenUp
<1>. QED BY <1>1, <1>2 DEF Updates

(* A PUT writes what it has read and changed: whoever was accepted in the  *)
(* meantime is not in it, and has not seen it either.                      *)
LEMMA UpdatesWrite ==
    ASSUME Updates, NEW f \in Edit, UpdateWrite(f), UNCHANGED job, TypeOK'
    PROVE  Updates'
<1>. USE DEF Accepted
<1>0. /\ put \in [Edit -> PutRequest]
      /\ table \in [Row -> TaskRow]
      /\ UpdatesNameRows /\ PayloadsAccepted
      /\ raced \subseteq Edit
      /\ \A e \in Edit : put[e].payload \subseteq Edit
      /\ \A q \in Row : table[q].payload \subseteq Edit
      /\ \A t \in Tick, q \in Row : job[t][q].payload \subseteq Edit
  BY DEF Updates, TypeOK, RunTickTypeOK, TableTypeOK, HandlersTypeOK, PutRequest,
         TaskRow, Job
<1>1. put[f].pc = "read" /\ UNCHANGED settled
  BY DEF UpdateWrite
<1>2. put[f].row \in Row /\ f \in put[f].payload /\ f \notin raced
  BY <1>0, <1>1 DEF UpdateWrite, UpdatesNameRows, Accepted
<1>3. /\ \A e \in Edit : /\ put'[e].row = put[e].row
                         /\ put'[e].payload = put[e].payload
      /\ \A e \in Edit \ {f} : put'[e] = put[e]
  BY <1>0 DEF UpdateWrite, PutRequest
<1>4. \A e \in Edit : Accepted(e) => Accepted(e)'
  BY <1>1, <1>3
<1>5. CASE UNCHANGED <<table, raced>> /\ put'[f].pc = "conflict"
  <2>1. UpdatesNameRows' /\ PayloadsAccepted'
    <3>1. UpdatesNameRows'
      BY <1>0, <1>1, <1>3, <1>4, <1>5 DEF UpdatesNameRows
    <3>2. PayloadsAccepted'
      BY <1>0, <1>3, <1>4, <1>5 DEF PayloadsAccepted
    <3>. QED BY <3>1, <3>2
  <2>2. ASSUME NEW e \in Edit, Accepted(e)' PROVE UpdateHeld(e)'
    <3>1. UpdateHeld(e)
      BY <1>3, <1>5, <2>2 DEF Updates
    <3>. QED BY <1>1, <1>3, <1>4, <1>5, <3>1 DEF UpdateHeld, Concurrent, GivenUp
  <2>. QED BY <2>1, <2>2 DEF Updates
<1>6. ASSUME NEW row, table' = [table EXCEPT ![put[f].row] = row],
             row.payload = put[f].payload, row.status # "absent",
             raced' = IF Held(put[f].row) THEN raced \cup {f} ELSE raced,
             put'[f].pc = "accepted"
      PROVE  Updates'
  <2>1. /\ table'[put[f].row] = row
        /\ \A q \in Row \ {put[f].row} : table'[q] = table[q]
    BY <1>0, <1>2, <1>6
  <2>2. UpdatesNameRows'
    <3>1. \A e \in raced' : Accepted(e)'
      BY <1>0, <1>4, <1>6 DEF UpdatesNameRows
    <3>2. ASSUME NEW e \in Edit, put'[e].pc # "idle"
          PROVE  /\ put'[e].row \in Row
                 /\ e \in put'[e].payload
                 /\ table'[put'[e].row].status # "absent"
      <4>1. put[e].pc # "idle"
        BY <1>1, <1>3, <3>2
      <4>. QED BY <1>0, <1>3, <1>6, <2>1, <4>1 DEF UpdatesNameRows
    <3>. QED BY <3>1, <3>2 DEF UpdatesNameRows
  <2>3. PayloadsAccepted'
    <3>1. \A e \in put[f].payload : Accepted(e)'
      BY <1>0, <1>4, <1>6 DEF PayloadsAccepted
    <3>2. \A q \in Row : \A e \in table'[q].payload : Accepted(e)'
      BY <1>0, <1>4, <1>6, <2>1, <3>1 DEF PayloadsAccepted
    <3>. QED BY <1>0, <1>3, <1>4, <3>2 DEF PayloadsAccepted
  <2>4. UpdateHeld(f)'
    <3>1. f \in table'[put'[f].row].payload
      BY <1>2, <1>3, <1>6, <2>1
    <3>2. f \notin raced' => \A t \in Tick : job'[t][put'[f].row].pc = "none"
      BY <1>3, <1>6 DEF Held
    <3>. QED BY <3>1, <3>2 DEF UpdateHeld
  <2>5. ASSUME NEW e \in Edit, e # f, Accepted(e)' PROVE UpdateHeld(e)'
    <3>1. Accepted(e) /\ UpdateHeld(e) /\ put[e].row \in Row
      BY <1>0, <1>3, <2>5 DEF Updates, UpdatesNameRows
    <3>2. CASE \E d \in Edit : Accepted(d) /\ Concurrent(e, d)
      BY <1>3, <1>4, <3>2 DEF UpdateHeld, Concurrent
    <3>3. CASE put[e].row = put[f].row /\ e \notin put[f].payload
      <4>1. f \notin put[e].payload
        BY <1>0, <1>1, <2>5 DEF PayloadsAccepted
      <4>2. Concurrent(e, f)'
        BY <1>3, <3>3, <4>1 DEF Concurrent
      <4>. QED BY <1>6, <4>2 DEF UpdateHeld
    <3>4. CASE /\ ~(put[e].row = put[f].row /\ e \notin put[f].payload)
               /\ ~\E d \in Edit : Accepted(d) /\ Concurrent(e, d)
      <4>1. e \in table[put[e].row].payload => e \in table'[put'[e].row].payload
        BY <1>3, <1>6, <2>1, <3>1, <3>4
      <4>2. e \in raced' <=> e \in raced
        BY <1>6, <2>5
      <4>3. \A q \in Row : GivenUp(q) => GivenUp(q)'
        BY <1>1 DEF GivenUp
      <4>4. /\ e \in table[put[e].row].payload \/ (e \in raced /\ GivenUp(put[e].row))
            /\ e \notin raced => \A t \in Tick : job[t][put[e].row].pc # "none"
                                   => e \in job[t][put[e].row].payload
        BY <3>1, <3>4 DEF UpdateHeld
      <4>. QED BY <1>3, <3>1, <4>1, <4>2, <4>3, <4>4 DEF UpdateHeld
    <3>. QED BY <3>2, <3>3, <3>4
  <2>. QED BY <2>2, <2>3, <2>4, <2>5 DEF Updates
<1>7. CASE Pending(put[f].row)
  <2>1. PICK o : table' = [table EXCEPT ![put[f].row] =
                             Updated(table[put[f].row], put[f].payload, o)]
    BY <1>1, <1>7 DEF UpdateWrite
  <2>2. LET row == Updated(table[put[f].row], put[f].payload, o) IN
        row.payload = put[f].payload /\ row.status = "pending"
    BY <1>0, <1>2, <1>7 DEF Updated, TaskRow, Pending
  <2>3. put'[f].pc = "accepted"
    BY <1>0, <1>7 DEF UpdateWrite, PutRequest
  <2>. QED BY <1>6, <1>7, <2>1, <2>2, <2>3 DEF UpdateWrite
<1>8. CASE ~Pending(put[f].row)
  BY <1>0, <1>5, <1>8 DEF UpdateWrite, PutRequest
<1>. QED BY <1>7, <1>8

(* A PUT reads: it carries what is in the row, and its own change.         *)
LEMMA UpdatesRead ==
    ASSUME Updates, NEW f \in Edit, NEW r \in Row, UpdateRead(f, r), UNCHANGED job, TypeOK'
    PROVE  Updates'
<1>. USE DEF Accepted, storeVars, historyVars
<1>0. /\ put \in [Edit -> PutRequest]
      /\ UpdatesNameRows /\ PayloadsAccepted
      /\ raced \subseteq Edit
      /\ \A e \in Edit : put[e].payload \subseteq Edit
      /\ \A q \in Row : table[q].payload \subseteq Edit
      /\ \A t \in Tick, q \in Row : job[t][q].payload \subseteq Edit
  BY DEF Updates, TypeOK, RunTickTypeOK, TableTypeOK, HandlersTypeOK, PutRequest,
         TaskRow, Job
<1>1. /\ put[f].pc = "idle" /\ Pending(r)
      /\ UNCHANGED <<table, raced, settled>>
      /\ put'[f] = [pc |-> "read", row |-> r, payload |-> table[r].payload \cup {f}]
      /\ \A e \in Edit \ {f} : put'[e] = put[e]
  BY <1>0 DEF UpdateRead
<1>2. UpdatesNameRows' /\ PayloadsAccepted'
  <2>1. \A e \in Edit : Accepted(e)' <=> Accepted(e)
    BY <1>1
  <2>2. UpdatesNameRows'
    BY <1>0, <1>1, <2>1 DEF UpdatesNameRows, Pending
  <2>3. PayloadsAccepted'
    BY <1>0, <1>1, <2>1 DEF PayloadsAccepted
  <2>. QED BY <2>2, <2>3
<1>3. ASSUME NEW e \in Edit, Accepted(e)' PROVE UpdateHeld(e)'
  <2>1. e # f /\ UpdateHeld(e)
    BY <1>1, <1>3 DEF Updates
  <2>2. CASE \E d \in Edit : Accepted(d) /\ Concurrent(e, d)
    BY <1>1, <2>1, <2>2 DEF UpdateHeld, Concurrent
  <2>3. CASE ~\E d \in Edit : Accepted(d) /\ Concurrent(e, d)
    BY <1>1, <2>1, <2>3 DEF UpdateHeld, GivenUp
  <2>. QED BY <2>2, <2>3
<1>. QED BY <1>2, <1>3 DEF Updates

(* A step of a user.                                                       *)
LEMMA UpdatesUser ==
    ASSUME Updates, UserStep, UNCHANGED tickVars, TypeOK'
    PROVE  Updates'
<1>. USE DEF storeVars, historyVars, tickVars
<1>0. table \in [Row -> TaskRow]
  BY DEF Updates, TypeOK, RunTickTypeOK, TableTypeOK
<1>1. ASSUME NEW r \in Row, Schedule(r) PROVE Updates'
  BY <1>0, <1>1, UpdatesCreateRemove DEF Schedule, NewRow
<1>2. ASSUME NEW r \in Row, Cancel(r) PROVE Updates'
  <2>1. \A q \in Row : /\ table'[q].payload = table[q].payload
                       /\ table'[q].status = "absent" => table[q].status = "absent"
    BY <1>0, <1>2 DEF Cancel, DeleteTaskByUuid, TaskRow
  <2>. QED BY <1>2, <2>1, UpdatesCreateRemove DEF Cancel
<1>3. ASSUME NEW old \in Row, NEW r \in Row, Supersede(old, r) PROVE Updates'
  <2>1. PICK at \in SendTimes(r) :
           table' = [table EXCEPT
                       ![old].status = IF Exists(old) THEN "cancelled" ELSE @,
                       ![r] = NewRow(at)]
    BY <1>3 DEF Supersede
  <2>2. ASSUME NEW q \in Row
        PROVE  \/ /\ table'[q].payload = table[q].payload
                  /\ table'[q].status = "absent" => table[q].status = "absent"
               \/ /\ table[q].status = "absent"
                  /\ table'[q].status # "absent"
                  /\ table'[q].payload = {}
    <3>1. CASE q = r
      BY <1>0, <1>3, <2>1, <3>1 DEF Supersede, NewRow
    <3>2. CASE q # r
      BY <1>0, <2>1, <3>2 DEF TaskRow
    <3>. QED BY <3>1, <3>2
  <2>. QED BY <1>3, <2>2, UpdatesCreateRemove DEF Supersede
<1>. QED BY <1>1, <1>2, <1>3, UpdatesRead, UpdatesWrite DEF UserStep

(* The inductive invariant of the updates: whatever crashes or fails, and  *)
(* whether heartbeats are timely or not, an accepted update is in its row  *)
(* and in every snapshot, unless it raced a tick or another update.        *)
THEOREM UpdatesInvariant == Spec => []Updates
<1>1. Init => Updates
  <2>. SUFFICES ASSUME Init PROVE Updates
    OBVIOUS
  <2>1. TypeOK
    BY InitType
  <2>2. /\ \A e \in Edit : put[e].pc = "idle" /\ put[e].payload = {}
        /\ raced = {}
        /\ \A r \in Row : table[r].payload = {}
        /\ \A t \in Tick, r \in Row : job[t][r].payload = {}
    BY DEF Init, RunTickInit, HandlersInit, NoPut, NoJob, NewRow
  <2>. QED BY <2>1, <2>2 DEF Updates, UpdatesNameRows, PayloadsAccepted, Accepted
<1>2. Updates /\ TypeOK' /\ [Next]_vars => Updates'
  <2>. SUFFICES ASSUME Updates, TypeOK', [Next]_vars PROVE Updates'
    OBVIOUS
  <2>1. CASE (Advance /\ UNCHANGED handlerVars) \/ UNCHANGED vars
    <3>1. UNCHANGED <<job, settled, handlerVars, table>>
      BY <2>1 DEF Advance, vars, tickVars, historyVars, storeVars
    <3>. QED BY <3>1, UpdatesCreateRemove
  <2>. QED BY <2>1, UpdatesTick, UpdatesUser DEF Next
<1>. QED BY <1>1, <1>2, TypeCorrect, PTL DEF Spec

(* An update answered with 200 is in the task for good, unless a tick that *)
(* held the row when it was written has given the occurrence up, or        *)
(* another PUT was under way beside it; nothing is assumed of heartbeats   *)
(* or faults.                                                              *)
THEOREM UpdatesStay == Spec => []UpdateKept
<1>1. Updates => UpdateKept
  BY DEF Updates, UpdateHeld, UpdateKept, Accepted
<1>. QED BY <1>1, UpdatesInvariant, PTL

-----------------------------------------------------------------------------
(* Outcomes                                                                *)

(* An occurrence is moved past the present.                                *)
LEMMA NextOccurrenceAhead ==
    ASSUME now \in Nat, NEW o \in Nat
    PROVE  NextFutureOccurrence(o) > now
<1>1. CASE now > o
  <2>. DEFINE behind == now - o
              k == behind \div Period
  <2>1. behind \in Nat /\ Period \in Nat /\ Period > 0
    BY <1>1, PeriodIsPositive
  <2>2. k \in Nat /\ behind < Period * k + Period
    BY <2>1, SMTT(30)
  <2>3. Period * k \in Nat /\ Period * (1 + k) = Period + Period * k
    BY <2>1, <2>2
  <2>4. NextFutureOccurrence(o) = o + Period * (1 + k)
    BY <1>1 DEF NextFutureOccurrence
  <2>. HIDE DEF k
  <2>. QED BY <2>1, <2>2, <2>3, <2>4
<1>2. CASE ~(now > o)
  BY <1>2, PeriodIsPositive DEF NextFutureOccurrence
<1>. QED BY <1>1, <1>2

(* What the outcomes of row q do not notice: columns other than these      *)
(* three may change, jobs may end, but not one whose pushes are out,       *)
(* unless the occurrence is then known to be lost.                         *)
Quiet(q) ==
    /\ now' = now
    /\ Raced(q) => Raced(q)'
    /\ table'[q].status = table[q].status
    /\ table'[q].next_send_at = table[q].next_send_at
    /\ table'[q].retry_count = table[q].retry_count
    /\ attempts'[q] = attempts[q]
    /\ \A o \in Time : <<q, o>> \in delivered' <=> <<q, o>> \in delivered
    /\ faulted \subseteq faulted'
    /\ \A s \in Tick :
          \/ job'[s][q] = job[s][q]
          \/ /\ job'[s][q].pc = "none"
             /\ job[s][q].pc = "sent" => <<q, job[s][q].next_send_at>> \in faulted'

LEMMA QuietRow ==
    ASSUME TypeOK, NEW q \in Row, RowOutcomes(q), Quiet(q)
    PROVE  RowOutcomes(q)'
<1>. USE DEF RowOutcomes, Raced, handlerVars
<1>0. /\ table[q].next_send_at \in Time
      /\ \A s \in Tick : job[s][q].next_send_at \in Time
  BY DEF TypeOK, RunTickTypeOK, TableTypeOK, TaskRow, Job
<1>1. SnapshotsWereDue(q)'
  BY DEF Quiet, SnapshotsWereDue
<1>2. ClaimsHold(q)'
  BY <1>0 DEF Quiet, ClaimsHold, Active, Pending
<1>3. RetriesCounted(q)'
  BY DEF Quiet, RetriesCounted, Pending
<1>4. SendsRemembered(q)'
  <2>1. \A s \in Tick :
          /\ job'[s][q].pc = "sent"
               => <<q, job'[s][q].next_send_at>> \in delivered'
          /\ /\ job'[s][q].pc \in {"sending", "stale", "unreadable"}
             /\ <<q, job'[s][q].next_send_at>> \in delivered'
             => <<q, job'[s][q].next_send_at>> \in faulted'
    BY <1>0 DEF Quiet, SendsRemembered
  <2>2. /\ Pending(q)' /\ <<q, table'[q].next_send_at>> \in delivered'
        => \/ <<q, table'[q].next_send_at>> \in faulted'
           \/ \E s \in Tick : job'[s][q].pc = "sent"
    BY <1>0 DEF Quiet, SendsRemembered, ClaimsHold, Active, Pending
  <2>3. /\ /\ table'[q].status = "failed"
           /\ <<q, table'[q].next_send_at>> \in delivered'
           => <<q, table'[q].next_send_at>> \in faulted'
        /\ table'[q].status \in {"delivered", "sent"}
             => \E sent \in delivered' :
                   sent[1] = q /\ (sent[2] = table'[q].next_send_at \/ Raced(q)')
    <3>1. \A sent \in delivered :
             sent = <<sent[1], sent[2]>> /\ (sent[1] = q => sent \in delivered')
      BY DEF Quiet, TypeOK, RunTickTypeOK
    <3>. QED BY <1>0, <3>1 DEF Quiet, SendsRemembered
  <2>. QED BY <2>1, <2>2, <2>3 DEF SendsRemembered
<1>. QED BY <1>1, <1>2, <1>3, <1>4

(* Row q and its occurrences stand still.                                  *)
RowUnchanged(q) ==
    /\ now' = now
    /\ Raced(q) => Raced(q)'
    /\ table'[q] = table[q]
    /\ attempts'[q] = attempts[q]
    /\ \A o \in Time : <<q, o>> \in delivered' <=> <<q, o>> \in delivered
    /\ faulted \subseteq faulted'

(* A tick with no job for the row takes a snapshot of it.                  *)
LEMMA TakenRow ==
    ASSUME TypeOK, NEW q \in Row, RowOutcomes(q), RowUnchanged(q),
           NEW t \in Tick, job[t][q].pc = "none",
           Pending(q), table[q].next_send_at <= now,
           NEW readable, job'[t][q] = Snapshot(q, readable),
           \A s \in Tick \ {t} : job'[s][q] = job[s][q]
    PROVE  RowOutcomes(q)'
<1>. USE DEF RowOutcomes, RowUnchanged
<1>0. /\ table[q].next_send_at \in Time
      /\ \A s \in Tick : job[s][q].next_send_at \in Time
      /\ table[q].status = "pending"
  BY DEF TypeOK, RunTickTypeOK, TableTypeOK, TaskRow, Job, Pending
<1>t. /\ job'[t][q].pc = "queued"
      /\ job'[t][q].next_send_at = table[q].next_send_at
      /\ job'[t][q].retry_count = table[q].retry_count
  BY DEF Snapshot
<1>1. SnapshotsWereDue(q)'
  BY <1>0, <1>t DEF SnapshotsWereDue
<1>2. ClaimsHold(q)'
  BY <1>0, <1>t DEF ClaimsHold, Active, Pending
<1>3. RetriesCounted(q)'
  BY <1>t DEF RetriesCounted, Pending
<1>4. SendsRemembered(q)'
  <2>1. \A s \in Tick :
          /\ job'[s][q].pc = "sent"
               => <<q, job'[s][q].next_send_at>> \in delivered'
          /\ /\ job'[s][q].pc \in {"sending", "stale", "unreadable"}
             /\ <<q, job'[s][q].next_send_at>> \in delivered'
             => <<q, job'[s][q].next_send_at>> \in faulted'
    BY <1>0, <1>t DEF SendsRemembered
  <2>2. <<q, table'[q].next_send_at>> \in delivered'
          => \/ <<q, table'[q].next_send_at>> \in faulted'
             \/ \E s \in Tick : job'[s][q].pc = "sent"
    BY <1>0, <1>t DEF SendsRemembered, Pending
  <2>. QED BY <1>0, <2>1, <2>2 DEF SendsRemembered
<1>. QED BY <1>1, <1>2, <1>3, <1>4

(* Nobody else delivers the row a tick is delivering or has just claimed.  *)
LEMMA ClaimedRow ==
    ASSUME TypeOK, Exclusion, NEW t \in Tick, NEW q \in Row, RowOutcomes(q),
           ClaimGranted(t, q), UNCHANGED handlerVars
    PROVE  RowOutcomes(q)'
<1>. USE DEF RowOutcomes, Raced, handlerVars
<1>0. /\ table \in [Row -> TaskRow]
      /\ job \in [Tick -> [Row -> Job]]
      /\ attempts \in [Row -> Nat]
      /\ RunTickTypeOK
  BY DEF TypeOK, RunTickTypeOK, TableTypeOK
<1>1. /\ now' = now
      /\ UNCHANGED <<delivered, faulted>>
      /\ \A s \in Tick \ {t} : job'[s][q] = job[s][q]
  BY <1>0 DEF ClaimGranted
<1>2. /\ Pending(q) /\ ~LeaseLive(q)
      /\ job[t][q].pc = "queued"
      /\ job[t][q].next_send_at = table[q].next_send_at
  BY <1>0, ClaimFacts DEF ClaimGranted, ClaimSucceeds, Claimable
<1>3. \A s \in Tick : ~Active(s, q)
  BY <1>2 DEF Exclusion, LeaseCoversDelivery
<1>4. /\ table'[q].status = "pending"
      /\ table'[q].next_send_at = table[q].next_send_at
      /\ table'[q].retry_count = table[q].retry_count
  BY <1>0, <1>2 DEF ClaimGranted, ClaimTask, TaskRow, Pending
<1>5. /\ job'[t][q].pc = FirstStep(job[t][q])
      /\ job'[t][q].next_send_at = job[t][q].next_send_at
      /\ job'[t][q].retry_count = job[t][q].retry_count
  BY <1>0 DEF ClaimGranted, Job
<1>6. job'[t][q].pc \in {"sending", "stale", "unreadable"}
  BY <1>5 DEF FirstStep
<1>7. /\ attempts'[q] >= attempts[q]
      /\ job'[t][q].pc # "stale" => attempts'[q] = attempts[q] + 1
      /\ attempts'[q] \in Nat
  BY <1>0, <1>5 DEF ClaimGranted
<1>8. table[q].retry_count \in Nat /\ \A s \in Tick : job[s][q].retry_count \in Nat
  BY <1>0 DEF TaskRow, Job
<1>11. SnapshotsWereDue(q)'
  BY <1>1, <1>2, <1>4, <1>5 DEF SnapshotsWereDue
<1>12. ClaimsHold(q)'
  BY <1>1, <1>2, <1>3, <1>4, <1>5 DEF ClaimsHold, Active, Pending
<1>13. RetriesCounted(q)'
  <2>1. \A s \in Tick \ {t} : job'[s][q].pc \notin {"sending", "unreadable"}
    BY <1>1, <1>3 DEF Active
  <2>2. job[t][q].retry_count <= attempts[q] /\ table[q].retry_count <= attempts[q]
    BY <1>2 DEF RetriesCounted
  <2>3. \A s \in Tick \ {t} :
           /\ job'[s][q].pc = "queued"
           /\ job'[s][q].next_send_at = table'[q].next_send_at
           => job'[s][q].retry_count <= attempts[q]
    BY <1>1, <1>2, <1>4 DEF RetriesCounted
  <2>. QED BY <1>0, <1>1, <1>4, <1>5, <1>6, <1>7, <1>8, <2>1, <2>2, <2>3
              DEF RetriesCounted
<1>14. SendsRemembered(q)'
  <2>1. <<q, table[q].next_send_at>> \in delivered
          => <<q, table[q].next_send_at>> \in faulted
    BY <1>2, <1>3 DEF SendsRemembered, Active
  <2>. QED BY <1>1, <1>2, <1>3, <1>4, <1>5, <1>6, <2>1
              DEF SendsRemembered, Active
<1>. QED BY <1>11, <1>12, <1>13, <1>14

(* The pushes of the occurrence are out.                                   *)
LEMMA SentRow ==
    ASSUME TypeOK, Exclusion, NEW t \in Tick, NEW q \in Row, RowOutcomes(q),
           SendSucceeds(t, q), UNCHANGED handlerVars
    PROVE  RowOutcomes(q)'
<1>. USE DEF RowOutcomes, Raced, storeVars, handlerVars
<1>0. job \in [Tick -> [Row -> Job]]
  BY DEF TypeOK, RunTickTypeOK
<1>1. /\ UNCHANGED <<now, table, faulted, attempts>>
      /\ delivered' = delivered \cup {<<q, job[t][q].next_send_at>>}
      /\ \A s \in Tick \ {t} : job'[s][q] = job[s][q]
  BY <1>0 DEF SendSucceeds
<1>2. /\ job'[t][q].pc = "sent"
      /\ job'[t][q].next_send_at = job[t][q].next_send_at
      /\ job'[t][q].retry_count = job[t][q].retry_count
  BY <1>0 DEF SendSucceeds, Job
<1>3. job[t][q].pc = "sending" /\ Active(t, q)
  BY DEF SendSucceeds, Active
<1>4. \A s \in Tick \ {t} : ~Active(s, q) /\ ~Active(s, q)'
  BY <1>1, <1>3 DEF Exclusion, RowExclusive, Active
<1>11. SnapshotsWereDue(q)'
  BY <1>1, <1>2, <1>3 DEF SnapshotsWereDue
<1>12. ClaimsHold(q)'
  BY <1>1, <1>2, <1>3, <1>4 DEF ClaimsHold, Active, Pending
<1>13. RetriesCounted(q)'
  BY <1>1, <1>2 DEF RetriesCounted, Pending
<1>14. SendsRemembered(q)'
  <2>1. table[q].status \in {"pending", "cancelled"}
    BY <1>3 DEF ClaimsHold
  <2>2. \A o : <<q, o>> \in delivered' <=>
                  <<q, o>> \in delivered \/ o = job[t][q].next_send_at
    BY <1>1
  <2>3. Pending(q)' /\ <<q, table'[q].next_send_at>> \in delivered'
          => \E s \in Tick : job'[s][q].pc = "sent"
    BY <1>2
  <2>. QED BY <1>1, <1>2, <1>3, <1>4, <2>1, <2>2, <2>3 DEF SendsRemembered, Active
<1>. QED BY <1>11, <1>12, <1>13, <1>14

(* The delivery is over: what other ticks still hold of the row are        *)
(* snapshots.                                                              *)
LEMMA NobodyElse ==
    ASSUME TypeOK, Exclusion, NEW t \in Tick, NEW q \in Row, Active(t, q),
           job' = [job EXCEPT ![t][q] = NoJob]
    PROVE  /\ job'[t][q].pc = "none"
           /\ \A s \in Tick \ {t} : job'[s][q] = job[s][q]
           /\ \A s \in Tick : ~Active(s, q)'
<1>1. job \in [Tick -> [Row -> Job]]
  BY DEF TypeOK, RunTickTypeOK
<1>2. job'[t][q].pc = "none" /\ \A s \in Tick \ {t} : job'[s][q] = job[s][q]
  BY <1>1 DEF NoJob
<1>. QED BY <1>2 DEF Exclusion, RowExclusive, Active

(* A retry is scheduled.                                                   *)
LEMMA RetriedRow ==
    ASSUME TypeOK, Exclusion, NEW t \in Tick, NEW q \in Row, RowOutcomes(q),
           job[t][q].pc \in {"sending", "unreadable"},
           job' = [job EXCEPT ![t][q] = NoJob],
           UpdateTaskById(q, ScheduledRetry(q, job[t][q])),
           UNCHANGED <<now, handlerVars, attempts, delivered, faulted>>
    PROVE  RowOutcomes(q)'
<1>. USE DEF RowOutcomes, Raced, handlerVars
<1>0. /\ table \in [Row -> TaskRow]
      /\ job \in [Tick -> [Row -> Job]]
      /\ attempts \in [Row -> Nat]
  BY DEF TypeOK, RunTickTypeOK, TableTypeOK
<1>1. Active(t, q)
  BY DEF Active
<1>2. /\ job'[t][q].pc = "none"
      /\ \A s \in Tick \ {t} : job'[s][q] = job[s][q]
      /\ \A s \in Tick : ~Active(s, q)'
  BY <1>1, NobodyElse
<1>3. /\ table'[q].status = table[q].status
      /\ table'[q].next_send_at = table[q].next_send_at
      /\ table'[q].retry_count \in {table[q].retry_count, job[t][q].retry_count + 1}
  BY <1>0 DEF UpdateTaskById, ScheduledRetry, TaskRow
<1>4. job[t][q].retry_count < attempts[q] /\ job[t][q].retry_count \in Nat
  BY <1>0 DEF RetriesCounted, Job
<1>5. table[q].status \in {"pending", "cancelled"}
  BY <1>1 DEF ClaimsHold
<1>6. Pending(q) => \/ job[t][q].next_send_at = table[q].next_send_at
                    \/ <<q, table[q].next_send_at>> \notin delivered
  BY <1>1 DEF ClaimsHold
<1>11. SnapshotsWereDue(q)'
  BY <1>2, <1>3 DEF SnapshotsWereDue
<1>12. ClaimsHold(q)'
  BY <1>2 DEF ClaimsHold
<1>13. RetriesCounted(q)'
  <2>1. Pending(q) => table'[q].retry_count <= attempts[q]
    BY <1>0, <1>3, <1>4 DEF RetriesCounted
  <2>. QED BY <1>2, <1>3, <2>1 DEF RetriesCounted, Pending, Active
<1>14. SendsRemembered(q)'
  <2>1. Pending(q) /\ <<q, table[q].next_send_at>> \in delivered
          => <<q, table[q].next_send_at>> \in faulted
    BY <1>6 DEF SendsRemembered
  <2>. QED BY <1>2, <1>3, <1>5, <2>1 DEF SendsRemembered, Pending, Active
<1>. QED BY <1>11, <1>12, <1>13, <1>14

(* The occurrence is settled: the row moves past the present, or is closed *)
(* the way the delivery ended.                                             *)
LEMMA SettledRow ==
    ASSUME TypeOK, Exclusion, SendsWereDue,
           NEW t \in Tick, NEW q \in Row, RowOutcomes(q), Active(t, q),
           job' = [job EXCEPT ![t][q] = NoJob],
           attempts' = [attempts EXCEPT ![q] = 0],
           NEW row \in TaskRow, UpdateTaskById(q, row),
           \/ /\ row.status = table[q].status
              /\ row.retry_count = 0
              /\ row.next_send_at > now
           \/ /\ row.next_send_at = table[q].next_send_at
              /\ \/ row.status = "failed" /\ job[t][q].pc # "sent"
                 \/ row.status \in {"sent", "delivered"} /\ job[t][q].pc = "sent",
           UNCHANGED <<now, handlerVars, delivered, faulted>>
    PROVE  RowOutcomes(q)'
<1>. USE DEF RowOutcomes, Raced, handlerVars
<1>0. /\ table \in [Row -> TaskRow]
      /\ job \in [Tick -> [Row -> Job]]
      /\ attempts \in [Row -> Nat]
      /\ now \in Nat
  BY DEF TypeOK, RunTickTypeOK, TableTypeOK, Time
<1>1. /\ job'[t][q].pc = "none"
      /\ \A s \in Tick \ {t} : job'[s][q] = job[s][q]
      /\ \A s \in Tick : ~Active(s, q)'
  BY NobodyElse
<1>2. attempts'[q] = 0
  BY <1>0
<1>3. table[q].status \in {"pending", "cancelled"}
  BY DEF ClaimsHold
<1>4. Pending(q) => \/ job[t][q].next_send_at = table[q].next_send_at
                    \/ Raced(q) /\ <<q, table[q].next_send_at>> \notin delivered
  BY DEF ClaimsHold
<1>5. CASE table[q].status = "cancelled"
  <2>1. table'[q] = table[q]
    BY <1>5 DEF UpdateTaskById, Exists, Live
  <2>2. SnapshotsWereDue(q)'
    BY <1>1, <2>1 DEF SnapshotsWereDue
  <2>3. ClaimsHold(q)'
    BY <1>1 DEF ClaimsHold
  <2>4. RetriesCounted(q)'
    BY <1>1, <1>5, <2>1 DEF RetriesCounted, Pending, Active
  <2>5. SendsRemembered(q)'
    BY <1>1, <1>5, <2>1 DEF SendsRemembered, Pending, Active
  <2>. QED BY <2>2, <2>3, <2>4, <2>5
<1>6. CASE table[q].status = "pending"
  <2>1. table'[q] = row
    BY <1>0, <1>6 DEF UpdateTaskById, Exists, Live
  <2>2. row.status \in {"pending", "failed", "sent", "delivered"}
    BY <1>6
  <2>3. SnapshotsWereDue(q)'
    BY <1>1, <2>1, <2>2 DEF SnapshotsWereDue
  <2>4. ClaimsHold(q)'
    BY <1>1 DEF ClaimsHold
  <2>5. RetriesCounted(q)'
    <3>1. \A s \in Tick : job'[s][q].pc \notin {"sending", "unreadable"}
      BY <1>1 DEF Active
    <3>2. CASE row.status = "pending"
      <4>1. row.retry_count = 0 /\ row.next_send_at > now
        BY <3>2, <1>6
      <4>2. \A s \in Tick : job'[s][q].pc = "queued"
                => job'[s][q].next_send_at # row.next_send_at
        <5>1. \A s \in Tick : job'[s][q].pc # "none"
                => job'[s][q].next_send_at <= now /\ job'[s][q].next_send_at \in Nat
          BY <1>0, <1>1 DEF SnapshotsWereDue, Job, Time
        <5>. QED BY <4>1, <5>1, <1>0
      <4>. QED BY <1>2, <2>1, <3>1, <4>1, <4>2 DEF RetriesCounted
    <3>3. CASE row.status # "pending"
      BY <3>1, <3>3, <2>1 DEF RetriesCounted, Pending
    <3>. QED BY <3>2, <3>3
  <2>6. SendsRemembered(q)'
    <3>1. \A s \in Tick : job'[s][q].pc \notin {"sending", "stale", "unreadable", "sent"}
      BY <1>1 DEF Active
    <3>2. CASE row.status = "pending"
      <4>1. row.next_send_at > now
        BY <3>2, <1>6
      <4>2. <<q, row.next_send_at>> \notin delivered
        <5>1. \A o \in Time : <<q, o>> \in delivered => o <= now
          BY DEF SendsWereDue
        <5>2. row.next_send_at \in Nat
          BY DEF TaskRow, Time
        <5>. QED BY <4>1, <5>1, <5>2, <1>0 DEF Time
      <4>. QED BY <2>1, <3>1, <3>2, <4>2 DEF SendsRemembered
    <3>3. CASE row.status = "failed"
      <4>1. job[t][q].pc \in {"sending", "stale", "unreadable"}
        BY <1>6, <3>3 DEF Active
      <4>. QED BY <1>4, <1>6, <2>1, <3>1, <3>3, <4>1 DEF SendsRemembered, Pending
    <3>4. CASE row.status \in {"sent", "delivered"}
      <4>1. job[t][q].pc = "sent" /\ row.next_send_at = table[q].next_send_at
        BY <1>6, <3>4
      <4>2. <<q, job[t][q].next_send_at>> \in delivered
        BY <4>1 DEF SendsRemembered
      <4>3. \/ job[t][q].next_send_at = row.next_send_at
            \/ Raced(q)
        BY <1>4, <1>6, <4>1 DEF Pending
      <4>. QED BY <2>1, <3>1, <3>4, <4>2, <4>3 DEF SendsRemembered, Pending
    <3>. QED BY <2>2, <3>2, <3>3, <3>4
  <2>. QED BY <2>3, <2>4, <2>5, <2>6
<1>. QED BY <1>3, <1>5, <1>6

(* The rows that settle an occurrence, as SettledRow wants them.           *)
LEMMA SettlingRows ==
    ASSUME TypeOK, NEW q \in Row, NEW j \in Job,
           NEW row \in {FinalFailure(q, j), Advanced(q, j)}
    PROVE  /\ row \in TaskRow
           /\ \/ /\ row.status = table[q].status
                 /\ row.retry_count = 0
                 /\ row.next_send_at > now
              \/ /\ row = FinalFailure(q, j)
                 /\ row.next_send_at = table[q].next_send_at
                 /\ row.status = "failed"
<1>1. /\ table[q] \in TaskRow /\ now \in Nat
      /\ RunTickTypeOK /\ TableTypeOK
  BY DEF TypeOK, RunTickTypeOK, TableTypeOK, Time
<1>2. row \in TaskRow
  BY <1>1, WrittenRowsType
<1>3. NextFutureOccurrence(j.next_send_at) > now
  BY <1>1, NextOccurrenceAhead DEF Job, Time
<1>4. CASE row = FinalFailure(q, j)
  <2>1. CASE q \in RecurringRow /\ j.readable
    BY <1>1, <1>2, <1>3, <1>4, <2>1 DEF FinalFailure, Released, TaskRow
  <2>2. CASE ~(q \in RecurringRow /\ j.readable)
    BY <1>1, <1>2, <1>4, <2>2 DEF FinalFailure, Released, TaskRow
  <2>. QED BY <2>1, <2>2
<1>5. CASE row = Advanced(q, j)
  BY <1>1, <1>2, <1>3, <1>5 DEF Advanced, Released, TaskRow
<1>. QED BY <1>4, <1>5

(* A step of a tick, seen from one row.                                    *)
LEMMA RowsTick ==
    ASSUME Outcomes, NEW t \in Tick, TickStep(t), UNCHANGED handlerVars, NEW q \in Row
    PROVE  RowOutcomes(q)'
<1>. USE DEF storeVars, historyVars, tickVars, handlerVars, Raced
<1>0. /\ TypeOK /\ Exclusion /\ RowOutcomes(q) /\ SendsWereDue
      /\ table \in [Row -> TaskRow]
      /\ job \in [Tick -> [Row -> Job]]
      /\ attempts \in [Row -> Nat]
      /\ job[t][q] \in Job
  BY DEF Outcomes, Exclusion, TypeOK, RunTickTypeOK, TableTypeOK
<1>1. now' = now
  BY TickTime
<1>2. ASSUME Quiet(q) PROVE RowOutcomes(q)'
  BY <1>0, <1>2, QuietRow
<1>3. CASE FetchBatch(t)
  <2>1. PICK batch \in PendingTasks(FetchLimit) \ {{}} :
        \E unreadable \in UnreadablePayloads(batch) :
        \E readable \in Reserved(batch \ unreadable) :
           job' = [job EXCEPT ![t] = [r \in Row |->
                     IF r \in readable \cup unreadable
                     THEN Snapshot(r, r \in readable) ELSE NoJob]]
    BY <1>3 DEF FetchBatch, Fetched
  <2>2. PICK unreadable \in UnreadablePayloads(batch) :
        \E readable \in Reserved(batch \ unreadable) :
           job' = [job EXCEPT ![t] = [r \in Row |->
                     IF r \in readable \cup unreadable
                     THEN Snapshot(r, r \in readable) ELSE NoJob]]
    BY <2>1
  <2>3. PICK readable \in Reserved(batch \ unreadable) :
           job' = [job EXCEPT ![t] = [r \in Row |->
                     IF r \in readable \cup unreadable
                     THEN Snapshot(r, r \in readable) ELSE NoJob]]
    BY <2>2
  <2>4. \A s \in Tick \ {t} : job'[s][q] = job[s][q]
    BY <1>0, <2>3
  <2>5. job[t][q].pc = "none" /\ RowUnchanged(q)
    BY <1>3 DEF FetchBatch, Idle, RowUnchanged
  <2>6. CASE q \in readable \cup unreadable
    <3>1. q \in batch
      BY <2>6 DEF Reserved, UnreadablePayloads
    <3>2. Pending(q) /\ table[q].next_send_at <= now
      BY <3>1 DEF PendingTasks, Due
    <3>3. job'[t][q] = Snapshot(q, q \in readable)
      BY <1>0, <2>3, <2>6
    <3>. QED BY <1>0, <2>4, <2>5, <3>2, <3>3, TakenRow
  <2>7. CASE q \notin readable \cup unreadable
    <3>1. job'[t][q] = NoJob
      BY <1>0, <2>3, <2>7
    <3>. QED BY <1>2, <2>4, <2>5, <3>1 DEF Quiet, RowUnchanged, NoJob
  <2>. QED BY <2>6, <2>7
<1>4. CASE Crash(t)
  <2>1. \A s \in Tick \ {t} : job'[s][q] = job[s][q]
    BY <1>0, <1>4 DEF Crash
  <2>2. job'[t][q].pc = "none"
    BY <1>0, <1>4 DEF Crash, NoJob
  <2>3. job[t][q].pc = "sent" => <<q, job[t][q].next_send_at>> \in faulted'
    BY <1>4 DEF Crash
  <2>. QED BY <1>2, <1>4, <2>1, <2>2, <2>3 DEF Crash, Quiet
<1>5. ASSUME NEW r \in Row, RunTask(t, r) PROVE RowOutcomes(q)'
  <2>1. CASE r = q
    <3>1. PICK readable : job' = [job EXCEPT ![t][r] = Snapshot(r, readable)]
      BY <1>5 DEF RunTask
    <3>2. /\ job'[t][q] = Snapshot(q, readable)
          /\ \A s \in Tick \ {t} : job'[s][q] = job[s][q]
      BY <1>0, <2>1, <3>1
    <3>3. /\ job[t][q].pc = "none" /\ RowUnchanged(q)
          /\ Pending(q) /\ table[q].next_send_at <= now
      BY <1>5, <2>1 DEF RunTask, Idle, RowUnchanged
    <3>. QED BY <1>0, <3>2, <3>3, TakenRow
  <2>2. CASE r # q
    <3>1. \A s \in Tick : job'[s][q] = job[s][q]
      BY <1>0, <1>5, <2>2 DEF RunTask
    <3>. QED BY <1>2, <1>5, <3>1 DEF RunTask, Quiet
  <2>. QED BY <2>1, <2>2
<1>6. ASSUME NEW r \in Row, ClaimGranted(t, r) PROVE RowOutcomes(q)'
  <2>1. CASE r = q
    BY <1>0, <1>6, <2>1, ClaimedRow
  <2>2. CASE r # q
    BY <1>0, <1>2, <1>6, <2>2 DEF ClaimGranted, ClaimTask, Quiet
  <2>. QED BY <2>1, <2>2
<1>7. ASSUME NEW r \in Row, ClaimRefused(t, r) PROVE RowOutcomes(q)'
  <2>1. job[t][r].pc = "queued"
    BY <1>7 DEF ClaimRefused, NextInQueue
  <2>2. \A s \in Tick : \/ job'[s][q] = job[s][q]
                        \/ job'[s][q].pc = "none" /\ job[s][q].pc # "sent"
    BY <1>0, <1>7, <2>1 DEF ClaimRefused, NoJob
  <2>. QED BY <1>2, <1>7, <2>2 DEF ClaimRefused, Quiet
<1>8. ASSUME NEW r \in Row, ClaimThrows(t, r) PROVE RowOutcomes(q)'
  <2>1. job[t][r].pc = "queued"
    BY <1>8 DEF ClaimThrows, NextInQueue
  <2>2. \A s \in Tick : \/ job'[s][q] = job[s][q]
                        \/ job'[s][q].pc = "none" /\ job[s][q].pc # "sent"
    BY <1>0, <1>8, <2>1 DEF ClaimThrows, NoJob
  <2>3. /\ table'[q].status = table[q].status
        /\ table'[q].next_send_at = table[q].next_send_at
        /\ table'[q].retry_count = table[q].retry_count
    <3>1. CASE UNCHANGED table \/ r # q
      BY <1>0, <1>8, <3>1 DEF ClaimThrows, ClaimTask
    <3>2. CASE ClaimTask(r, now + LeaseTTL, JobGroup(t, r)) /\ r = q
      BY <1>0, <3>2 DEF ClaimTask, TaskRow
    <3>. QED BY <1>8, <3>1, <3>2 DEF ClaimThrows
  <2>. QED BY <1>2, <1>8, <2>2, <2>3 DEF ClaimThrows, Quiet
<1>9. ASSUME NEW r \in Row, LandBeat(t, r) PROVE RowOutcomes(q)'
  <2>1. /\ table'[q].status = table[q].status
        /\ table'[q].next_send_at = table[q].next_send_at
        /\ table'[q].retry_count = table[q].retry_count
    BY <1>0, <1>9 DEF LandBeat, RenewTaskLease, TaskRow
  <2>. QED BY <1>2, <1>9, <2>1 DEF LandBeat, Quiet
<1>10. ASSUME NEW r \in Row, SendSucceeds(t, r) PROVE RowOutcomes(q)'
  <2>1. CASE r = q
    BY <1>0, <1>10, <2>1, SentRow
  <2>2. CASE r # q
    <3>1. \A s \in Tick : job'[s][q] = job[s][q]
      BY <1>0, <1>10, <2>2 DEF SendSucceeds
    <3>. QED BY <1>2, <1>10, <2>2, <3>1 DEF SendSucceeds, Quiet
  <2>. QED BY <2>1, <2>2
<1>11. ASSUME NEW r \in Row, r # q, job' = [job EXCEPT ![t][r] = NoJob],
              table'[q] = table[q], attempts'[q] = attempts[q],
              delivered' = delivered, faulted \subseteq faulted'
       PROVE  RowOutcomes(q)'
  <2>1. \A s \in Tick : job'[s][q] = job[s][q]
    BY <1>0, <1>11
  <2>. QED BY <1>1, <1>2, <1>11, <2>1 DEF Quiet
<1>12. ASSUME NEW r \in Row, NEW permanent \in BOOLEAN,
              job[t][r].pc \in {"sending", "unreadable"},
              DeliveryFailure(t, r, permanent)
       PROVE  RowOutcomes(q)'
  <2>1. CASE r # q
    BY <1>0, <1>11, <1>12, <2>1 DEF DeliveryFailure, UpdateTaskById
  <2>2. CASE r = q /\ UpdateTaskById(q, ScheduledRetry(q, job[t][q]))
             /\ UNCHANGED attempts
    BY <1>0, <1>12, <2>2, RetriedRow DEF DeliveryFailure
  <2>3. CASE r = q /\ UpdateTaskById(q, FinalFailure(q, job[t][q]))
             /\ attempts' = [attempts EXCEPT ![q] = 0]
    <3>1. Active(t, q) /\ job[t][q].pc # "sent"
      BY <1>12, <2>3 DEF Active
    <3>. QED BY <1>0, <1>12, <2>3, <3>1, SettlingRows, SettledRow DEF DeliveryFailure
  <2>. QED BY <1>12, <2>1, <2>2, <2>3 DEF DeliveryFailure
<1>13. ASSUME NEW r \in Row, SkipStale(t, r) PROVE RowOutcomes(q)'
  <2>1. CASE r # q
    BY <1>0, <1>11, <1>13, <2>1 DEF SkipStale, UpdateTaskById
  <2>2. CASE r = q
    <3>1. Active(t, q) /\ job[t][q].pc # "sent"
      BY <1>13, <2>2 DEF SkipStale, Active
    <3>. QED BY <1>0, <1>13, <2>2, <3>1, SettlingRows, SettledRow DEF SkipStale
  <2>. QED BY <2>1, <2>2
<1>14. ASSUME NEW r \in Row, r = q, job[t][q].pc = "sent",
              NEW row \in TaskRow, UpdateTaskById(q, row),
              \/ /\ row.status = table[q].status
                 /\ row.retry_count = 0
                 /\ row.next_send_at > now
              \/ /\ row.next_send_at = table[q].next_send_at
                 /\ row.status \in {"sent", "delivered"},
              job' = [job EXCEPT ![t][q] = NoJob],
              attempts' = [attempts EXCEPT ![q] = 0],
              UNCHANGED <<delivered, faulted>>
       PROVE  RowOutcomes(q)'
  <2>1. Active(t, q)
    BY <1>14 DEF Active
  <2>. QED BY <1>0, <1>1, <1>14, <2>1, SettledRow
<1>15. ASSUME NEW r \in Row, FinishSent(t, r) PROVE RowOutcomes(q)'
  <2>1. CASE r # q
    BY <1>0, <1>11, <1>15, <2>1 DEF FinishSent, UpdateTaskById, DeleteTaskById
  <2>2. CASE r = q
    <3>1. job[t][q].pc = "sent"
      BY <1>15, <2>2 DEF FinishSent
    <3>2. CASE q \in RecurringRow
      <4>. DEFINE row == Advanced(q, job[t][q])
      <4>1. row # FinalFailure(q, job[t][q]) \/ row.status # "failed"
            \/ table[q].status = "failed"
        BY <1>0 DEF Advanced, Released, TaskRow
      <4>2. table[q].status # "failed"
        BY <1>0, <3>1 DEF RowOutcomes, ClaimsHold, Active
      <4>. QED BY <1>0, <1>14, <1>15, <2>2, <3>1, <3>2, <4>1, <4>2, SettlingRows
                  DEF FinishSent
    <3>3. CASE q \notin RecurringRow
      <4>. DEFINE row == [table[q] EXCEPT !.status = "delivered"]
      <4>1. /\ row \in TaskRow /\ row.status = "delivered"
            /\ row.next_send_at = table[q].next_send_at
        BY <1>0 DEF TaskRow, Status
      <4>2. UpdateTaskById(q, row)
        BY <1>0, <1>15, <2>2, <3>3 DEF FinishSent, DeleteTaskById, UpdateTaskById
      <4>. HIDE DEF row
      <4>. QED BY <1>14, <1>15, <2>2, <3>1, <4>1, <4>2 DEF FinishSent
    <3>. QED BY <3>2, <3>3
  <2>. QED BY <2>1, <2>2
<1>16. ASSUME NEW r \in Row, FinishSentThrows(t, r) PROVE RowOutcomes(q)'
  <2>1. CASE r # q
    BY <1>0, <1>11, <1>16, <2>1 DEF FinishSentThrows, UpdateTaskById
  <2>2. CASE r = q /\ UpdateTaskById(q, RecordedAsSent(q, job[t][q]))
             /\ attempts' = [attempts EXCEPT ![q] = 0] /\ UNCHANGED faulted
    <3>1. job[t][q].pc = "sent"
      BY <1>16, <2>2 DEF FinishSentThrows
    <3>2. CASE q \in RecurringRow
      <4>. DEFINE row == Advanced(q, job[t][q])
      <4>1. row.status = table[q].status
        BY <1>0 DEF Advanced, Released, TaskRow
      <4>2. table[q].status # "failed"
        BY <1>0, <3>1 DEF RowOutcomes, ClaimsHold, Active
      <4>. QED BY <1>0, <1>14, <1>16, <2>2, <3>1, <3>2, <4>1, <4>2, SettlingRows
                  DEF FinishSentThrows, RecordedAsSent
    <3>3. CASE q \notin RecurringRow
      <4>. DEFINE row == [Released(table[q]) EXCEPT !.status = "sent", !.retry_count = 0]
      <4>1. /\ row \in TaskRow /\ row.status = "sent"
            /\ row.next_send_at = table[q].next_send_at
        BY <1>0 DEF TaskRow, Status, Live, Released
      <4>2. UpdateTaskById(q, row)
        BY <2>2, <3>3 DEF RecordedAsSent
      <4>. HIDE DEF row
      <4>. QED BY <1>14, <1>16, <2>2, <3>1, <4>1, <4>2 DEF FinishSentThrows
    <3>. QED BY <3>2, <3>3
  <2>3. CASE r = q /\ faulted' = faulted \cup {<<q, job[t][q].next_send_at>>}
             /\ UNCHANGED <<table, attempts>>
    <3>1. \A s \in Tick \ {t} : job'[s][q] = job[s][q]
      BY <1>0, <1>16, <2>3 DEF FinishSentThrows
    <3>2. job'[t][q].pc = "none"
      BY <1>0, <1>16, <2>3 DEF FinishSentThrows, NoJob
    <3>. QED BY <1>2, <1>16, <2>3, <3>1, <3>2 DEF FinishSentThrows, Quiet
  <2>. QED BY <1>16, <2>1, <2>2, <2>3 DEF FinishSentThrows
<1>17. ASSUME NEW r \in Row, OutcomeWriteThrows(t, r) PROVE RowOutcomes(q)'
  <2>1. \A s \in Tick : \/ job'[s][q] = job[s][q]
                        \/ job'[s][q].pc = "none" /\ job[s][q].pc # "sent"
    BY <1>0, <1>17 DEF OutcomeWriteThrows, NoJob
  <2>. QED BY <1>2, <1>17, <2>1 DEF OutcomeWriteThrows, Quiet
<1>18. ASSUME NEW r \in Row, SendBeat(t, r) PROVE RowOutcomes(q)'
  BY <1>2, <1>18 DEF SendBeat, Quiet
<1>. QED
  BY <1>3, <1>4, <1>5, <1>6, <1>7, <1>8, <1>9, <1>10, <1>12, <1>13, <1>15, <1>16,
     <1>17, <1>18 DEF TickStep, SendFails, DecryptFailed

(* A user creates the row.                                                 *)
LEMMA CreatedRow ==
    ASSUME TypeOK, SendsWereDue, NEW q \in Row, RowOutcomes(q),
           table[q].status = "absent", NEW at \in Time, table'[q] = NewRow(at),
           UNCHANGED <<now, job, handlerVars, delivered, faulted, attempts>>
    PROVE  RowOutcomes(q)'
<1>. USE DEF RowOutcomes, Raced, handlerVars
<1>1. \A t \in Tick : job[t][q].pc = "none"
  BY DEF SnapshotsWereDue
<1>2. attempts[q] \in Nat
  BY DEF TypeOK, RunTickTypeOK
<1>3. \A o \in Time : <<q, o>> \notin delivered
  BY DEF SendsWereDue
<1>. QED
  BY <1>1, <1>2, <1>3
     DEF NewRow, SnapshotsWereDue, ClaimsHold, Active, RetriesCounted, SendsRemembered

(* A user takes the row away, whoever delivers it.                         *)
LEMMA CancelledRow ==
    ASSUME TypeOK, NEW q \in Row, RowOutcomes(q),
           table[q].status # "absent",
           table'[q] = [table[q] EXCEPT !.status = "cancelled"],
           UNCHANGED <<now, job, handlerVars, delivered, faulted, attempts>>
    PROVE  RowOutcomes(q)'
<1>. USE DEF RowOutcomes, Raced, handlerVars
<1>1. /\ table'[q].status = "cancelled"
      /\ table'[q].next_send_at = table[q].next_send_at
  BY DEF TypeOK, RunTickTypeOK, TableTypeOK, TaskRow
<1>2. SnapshotsWereDue(q)' /\ ClaimsHold(q)'
  BY <1>1 DEF SnapshotsWereDue, ClaimsHold, Active, Pending
<1>3. RetriesCounted(q)' /\ SendsRemembered(q)'
  BY <1>1 DEF RetriesCounted, SendsRemembered, Pending
<1>. QED BY <1>2, <1>3

(* What has raced is accepted, and stays with its row.                     *)
LEMMA RacedStays ==
    ASSUME TypeOK, UpdatesNameRows, UserStep, NEW q \in Row, Raced(q)
    PROVE  Raced(q)'
<1>1. PICK e \in raced : put[e].row = q
  BY DEF Raced
<1>2. e \in Edit /\ put[e].pc = "accepted" /\ put \in [Edit -> PutRequest]
  BY DEF UpdatesNameRows, Accepted, TypeOK, HandlersTypeOK
<1>3. put'[e].row = q /\ e \in raced'
  BY <1>1, <1>2 DEF UserStep, Schedule, Cancel, Supersede, UpdateRead, UpdateWrite,
                    handlerVars
<1>. QED BY <1>3 DEF Raced

(* A user updates the row.  A tick that holds it goes on with its          *)
(* snapshot, and the row has raced.                                        *)
LEMMA UpdatedRow ==
    ASSUME TypeOK, SendsWereDue, ReschedulePeriod > 0,
           NEW e \in Edit, NEW q \in Row, RowOutcomes(q), Raced(q) => Raced(q)',
           put[e].row = q, Pending(q), UpdateWrite(e), UNCHANGED job
    PROVE  RowOutcomes(q)'
<1>. USE DEF RowOutcomes
<1>0. /\ table \in [Row -> TaskRow]
      /\ attempts \in [Row -> Nat]
      /\ put \in [Edit -> PutRequest]
      /\ now \in Nat
      /\ table[q].next_send_at \in Nat
      /\ \A t \in Tick : job[t][q].next_send_at \in Nat
  BY DEF TypeOK, RunTickTypeOK, TableTypeOK, HandlersTypeOK, Time, TaskRow, Job
<1>1. PICK o \in {table[q].next_send_at, now + ReschedulePeriod} :
         table' = [table EXCEPT ![q] = Updated(table[q], put[e].payload, o)]
  BY DEF UpdateWrite
<1>2. /\ UNCHANGED <<now, delivered, faulted>>
      /\ attempts'[q] = IF Held(q) THEN attempts[q] ELSE 0
  BY <1>0 DEF UpdateWrite
<1>3. /\ table'[q].status = "pending"
      /\ table'[q].retry_count = 0
      /\ table'[q].next_send_at = o
  BY <1>0, <1>1 DEF Updated, TaskRow, Pending
<1>4. Held(q) => Raced(q)'
  <2>1. put'[e].row = q
    BY <1>0 DEF UpdateWrite, PutRequest
  <2>. QED BY <2>1 DEF UpdateWrite, Raced
<1>5. o # table[q].next_send_at => o > now /\ <<q, o>> \notin delivered
  <2>1. o # table[q].next_send_at => o \in Nat /\ o > now
    BY <1>0, HandlerConstants
  <2>2. <<q, o>> \in delivered => o <= now
    BY DEF SendsWereDue
  <2>. QED BY <1>0, <2>1, <2>2
<1>6. SnapshotsWereDue(q)'
  BY <1>2, <1>3 DEF SnapshotsWereDue
<1>7. ClaimsHold(q)'
  <2>1. ASSUME NEW t \in Tick, Active(t, q)
        PROVE  \/ job[t][q].next_send_at = o
               \/ Raced(q)' /\ <<q, o>> \notin delivered
    <3>1. Held(q)
      BY <2>1 DEF Active, Held
    <3>2. \/ job[t][q].next_send_at = table[q].next_send_at
          \/ <<q, table[q].next_send_at>> \notin delivered
      BY <2>1 DEF ClaimsHold
    <3>. QED BY <1>4, <1>5, <3>1, <3>2
  <2>. QED BY <1>2, <1>3, <2>1 DEF ClaimsHold, Active
<1>8. RetriesCounted(q)'
  <2>1. CASE Held(q)
    <3>1. \A t \in Tick : job[t][q].pc = "queued" /\ job[t][q].next_send_at = o
                            => job[t][q].next_send_at = table[q].next_send_at
      BY <1>0, <1>5 DEF SnapshotsWereDue
    <3>. QED BY <1>0, <1>2, <1>3, <2>1, <3>1 DEF RetriesCounted
  <2>2. CASE ~Held(q)
    BY <1>2, <1>3, <2>2 DEF RetriesCounted, Held
  <2>. QED BY <2>1, <2>2
<1>9. SendsRemembered(q)'
  BY <1>2, <1>3, <1>5 DEF SendsRemembered, Pending
<1>. QED BY <1>6, <1>7, <1>8, <1>9

(* A step of a user, seen from one row.                                    *)
LEMMA RowsUser ==
    ASSUME ReschedulePeriod > 0, Outcomes, UpdatesNameRows,
           UserStep, UNCHANGED tickVars, NEW q \in Row
    PROVE  RowOutcomes(q)'
<1>. USE DEF storeVars, historyVars, tickVars, handlerVars
<1>0. /\ TypeOK /\ RowOutcomes(q) /\ SendsWereDue
      /\ table \in [Row -> TaskRow]
      /\ put \in [Edit -> PutRequest]
      /\ attempts \in [Row -> Nat]
      /\ now \in Nat
  BY DEF Outcomes, Exclusion, TypeOK, RunTickTypeOK, TableTypeOK, HandlersTypeOK, Time
<1>1. ASSUME UNCHANGED <<now, delivered, faulted>>, attempts'[q] = attempts[q],
             table'[q] = table[q]
      PROVE  RowOutcomes(q)'
  BY <1>0, <1>1, RacedStays, QuietRow DEF Quiet
<1>2. ASSUME NEW r \in Row, Schedule(r) PROVE RowOutcomes(q)'
  <2>1. CASE r = q
    <3>1. PICK at \in SendTimes(q) : table' = [table EXCEPT ![q] = NewRow(at)]
      BY <1>2, <2>1 DEF Schedule
    <3>2. at \in Time /\ table'[q] = NewRow(at)
      BY <1>0, <3>1, SendTimesType
    <3>. QED BY <1>0, <1>2, <2>1, <3>2, CreatedRow DEF Schedule
  <2>2. CASE r # q
    BY <1>0, <1>1, <1>2, <2>2 DEF Schedule
  <2>. QED BY <2>1, <2>2
<1>3. ASSUME NEW r \in Row, Cancel(r) PROVE RowOutcomes(q)'
  <2>1. CASE r = q
    <3>1. /\ table'[q] = [table[q] EXCEPT !.status = "cancelled"]
          /\ table[q].status # "absent"
      BY <1>0, <1>3, <2>1 DEF Cancel, DeleteTaskByUuid, Exists, Live
    <3>. QED BY <1>0, <1>3, <3>1, CancelledRow DEF Cancel
  <2>2. CASE r # q
    BY <1>0, <1>1, <1>3, <2>2 DEF Cancel, DeleteTaskByUuid
  <2>. QED BY <2>1, <2>2
<1>4. ASSUME NEW old \in Row, NEW r \in Row, Supersede(old, r) PROVE RowOutcomes(q)'
  <2>1. PICK at \in SendTimes(r) :
           table' = [table EXCEPT
                       ![old].status = IF Exists(old) THEN "cancelled" ELSE @,
                       ![r] = NewRow(at)]
    BY <1>4 DEF Supersede
  <2>2. /\ old # r /\ table[old].status # "absent" /\ table[r].status = "absent"
        /\ UNCHANGED <<now, handlerVars, delivered, faulted, attempts>>
    BY <1>4 DEF Supersede
  <2>3. CASE q = r
    <3>1. at \in Time /\ table'[q] = NewRow(at)
      BY <1>0, <2>1, <2>3, SendTimesType
    <3>. QED BY <1>0, <2>2, <2>3, <3>1, CreatedRow
  <2>4. CASE q = old /\ Exists(old)
    <3>1. table'[q] = [table[q] EXCEPT !.status = "cancelled"]
      BY <1>0, <2>1, <2>2, <2>4
    <3>. QED BY <1>0, <2>2, <2>4, <3>1, CancelledRow
  <2>5. CASE q # r /\ ~(q = old /\ Exists(old))
    <3>1. table'[q] = table[q]
      BY <1>0, <2>1, <2>5 DEF TaskRow
    <3>. QED BY <1>1, <2>2, <3>1
  <2>. QED BY <2>3, <2>4, <2>5
<1>5. ASSUME NEW e \in Edit, NEW r \in Row, UpdateRead(e, r) PROVE RowOutcomes(q)'
  BY <1>1, <1>5 DEF UpdateRead
<1>6. ASSUME NEW e \in Edit, UpdateWrite(e) PROVE RowOutcomes(q)'
  <2>1. put[e].row \in Row
    BY <1>6 DEF UpdateWrite, UpdatesNameRows
  <2>2. CASE put[e].row = q /\ Pending(q)
    BY <1>0, <1>6, <2>2, RacedStays, UpdatedRow
  <2>3. CASE ~(put[e].row = q /\ Pending(q))
    BY <1>0, <1>1, <1>6, <2>1, <2>3 DEF UpdateWrite
  <2>. QED BY <2>2, <2>3
<1>. QED BY <1>2, <1>3, <1>4, <1>5, <1>6 DEF UserStep

(* The clock moves on.                                                     *)
LEMMA RowsAdvance ==
    ASSUME Outcomes, Advance, UNCHANGED handlerVars, NEW q \in Row
    PROVE  RowOutcomes(q)'
<1>. USE DEF storeVars, historyVars, tickVars, handlerVars, RowOutcomes, Raced
<1>0. RowOutcomes(q) /\ TypeOK /\ now \in Nat
  BY DEF Outcomes, Exclusion, TypeOK, RunTickTypeOK, TableTypeOK, Time
<1>1. now' = now + 1 /\ UNCHANGED <<table, job, delivered, faulted, attempts>>
  BY DEF Advance
<1>2. SnapshotsWereDue(q)'
  <2>1. \A t \in Tick : job[t][q].next_send_at \in Nat
    BY <1>0 DEF TypeOK, RunTickTypeOK, Job, Time
  <2>. QED BY <1>0, <1>1, <2>1 DEF SnapshotsWereDue
<1>3. ClaimsHold(q)' /\ RetriesCounted(q)' /\ SendsRemembered(q)'
  BY <1>0, <1>1 DEF ClaimsHold, Active, Pending, RetriesCounted, SendsRemembered
<1>. QED BY <1>0, <1>2, <1>3

LEMMA OutcomesInit == Init => Outcomes
<1>. SUFFICES ASSUME Init PROVE Outcomes
  OBVIOUS
<1>. USE DEF Init, RunTickInit, HandlersInit
<1>1. Exclusion
  BY ExclusionInit
<1>2. GiveUpEarned /\ SendsWereDue
  BY DEF GiveUpEarned, SendsWereDue
<1>3. ASSUME NEW r \in Row PROVE RowOutcomes(r)
  <2>1. /\ \A t \in Tick : job[t][r].pc = "none"
        /\ attempts[r] = 0
    BY DEF NoJob
  <2>2. table[r].retry_count = 0 /\ table[r].status \in {"pending", "absent"}
    BY DEF NewRow
  <2>. QED BY <2>1, <2>2 DEF RowOutcomes, SnapshotsWereDue, ClaimsHold, Active,
                             RetriesCounted, SendsRemembered, Pending
<1>. QED BY <1>1, <1>2, <1>3 DEF Outcomes

(* An exhausted task has used up its retries, and one more attempt.        *)
LEMMA GiveUpTick ==
    ASSUME Outcomes, NEW t \in Tick, TickStep(t)
    PROVE  GiveUpEarned'
<1>. USE DEF storeVars, historyVars, tickVars
<1>0. /\ \A r \in Row : RetriesCounted(r)
      /\ GiveUpEarned
      /\ job \in [Tick -> [Row -> Job]]
      /\ attempts \in [Row -> Nat]
  BY DEF Outcomes, RowOutcomes, Exclusion, TypeOK, RunTickTypeOK
<1>1. ASSUME NEW r \in Row, NEW how, Settle(r, job[t][r], how),
             how = "exhausted" => attempts[r] > MaxRetries
      PROVE  GiveUpEarned'
  BY <1>0, <1>1 DEF Settle, GiveUpEarned
<1>2. ASSUME NEW r \in Row, NEW permanent \in BOOLEAN,
             job[t][r].pc \in {"sending", "unreadable"},
             DeliveryFailure(t, r, permanent)
      PROVE  GiveUpEarned'
  <2>1. CASE permanent \/ GivesUp(job[t][r])
    <3>1. /\ attempts[r] > job[t][r].retry_count
          /\ job[t][r].retry_count \in Nat /\ attempts[r] \in Nat
      BY <1>0, <1>2 DEF RetriesCounted, Job
    <3>2. ~permanent => attempts[r] > MaxRetries
      BY <2>1, <3>1, TickConstants DEF GivesUp
    <3>. QED BY <1>1, <1>2, <2>1, <3>2 DEF DeliveryFailure
  <2>2. CASE ~(permanent \/ GivesUp(job[t][r]))
    BY <1>0, <1>2, <2>2 DEF DeliveryFailure, GiveUpEarned
  <2>. QED BY <2>1, <2>2
<1>3. ASSUME UNCHANGED settled PROVE GiveUpEarned'
  BY <1>0, <1>3 DEF GiveUpEarned
<1>4. ASSUME NEW r \in Row, SkipStale(t, r) \/ FinishSent(t, r) \/ FinishSentThrows(t, r)
      PROVE  GiveUpEarned'
  BY <1>1, <1>3, <1>4 DEF SkipStale, FinishSent, FinishSentThrows
<1>. QED
  BY <1>2, <1>3, <1>4
     DEF TickStep, FetchBatch, Crash, RunTask, ClaimGranted, ClaimRefused, ClaimThrows,
         SendBeat, LandBeat, SendSucceeds, SendFails, DecryptFailed, OutcomeWriteThrows

(* Only a due occurrence of a row in the table is sent.                    *)
LEMMA SendsDueTick ==
    ASSUME Outcomes, NEW t \in Tick, TickStep(t)
    PROVE  SendsWereDue'
<1>. USE DEF storeVars, historyVars, tickVars
<1>0. /\ RunTickTypeOK /\ BeatsInFuture /\ SendsWereDue
      /\ delivered \subseteq Row \X Time
      /\ \A r \in Row : SnapshotsWereDue(r)
  BY DEF Outcomes, RowOutcomes, Exclusion, TypeOK, RunTickTypeOK
<1>1. /\ now' = now
      /\ \A r \in Row : table'[r].status = "absent" => table[r].status = "absent"
  BY <1>0, TickTime, TickRowEffect DEF RowEffect
<1>2. \/ delivered' = delivered
      \/ \E r \in Row : /\ job[t][r].pc = "sending"
                        /\ delivered' = delivered \cup {<<r, job[t][r].next_send_at>>}
  BY DEF TickStep, FetchBatch, Crash, RunTask, ClaimGranted, ClaimRefused, ClaimThrows,
         SendBeat, LandBeat, SendSucceeds, SendFails, DecryptFailed, DeliveryFailure,
         SkipStale, FinishSent, FinishSentThrows, OutcomeWriteThrows
<1>3. ASSUME NEW sent \in delivered'
      PROVE  sent[2] <= now /\ sent[1] \in Row /\ table[sent[1]].status # "absent"
  <2>1. CASE sent \in delivered
    BY <1>0, <2>1 DEF SendsWereDue
  <2>2. CASE sent \notin delivered
    <3>1. PICK r \in Row : /\ job[t][r].pc = "sending"
                           /\ sent = <<r, job[t][r].next_send_at>>
      BY <1>2, <1>3, <2>2
    <3>. QED BY <1>0, <3>1 DEF SnapshotsWereDue
  <2>. QED BY <2>1, <2>2
<1>. QED BY <1>1, <1>3 DEF SendsWereDue

(* A user settles and sends nothing.                                       *)
LEMMA OthersUser ==
    ASSUME Outcomes, UserStep, UNCHANGED tickVars
    PROVE  GiveUpEarned' /\ SendsWereDue'
<1>. USE DEF storeVars, historyVars, tickVars
<1>0. /\ TypeOK /\ GiveUpEarned /\ SendsWereDue
      /\ delivered \subseteq Row \X Time
  BY DEF Outcomes, Exclusion, TypeOK, RunTickTypeOK
<1>1. UNCHANGED <<now, settled, delivered>>
  BY DEF UserStep, Schedule, Cancel, Supersede, UpdateRead, UpdateWrite
<1>2. GiveUpEarned'
  BY <1>0, <1>1 DEF GiveUpEarned
<1>3. SendsWereDue'
  <2>1. \A r \in Row : table'[r].status = "absent" => table[r].status = "absent"
    BY <1>0, UserEffect
  <2>. QED BY <1>0, <1>1, <2>1 DEF SendsWereDue
<1>. QED BY <1>2, <1>3

(* As long as heartbeats are timely and users move tasks ahead only,       *)
(* Outcomes holds throughout: the inductive invariant of the delivery      *)
(* loop, whenever updates come.                                            *)
THEOREM OutcomesInvariant ==
    ASSUME TimelyHeartbeats, ReschedulePeriod > 0
    PROVE  Spec => []Outcomes
<1>1. Outcomes /\ Updates /\ Exclusion' /\ [Next]_vars => Outcomes'
  <2>. SUFFICES ASSUME Outcomes, Updates, Exclusion', [Next]_vars PROVE Outcomes'
    OBVIOUS
  <2>1. ASSUME NEW t \in Tick, TickStep(t), UNCHANGED handlerVars PROVE Outcomes'
    BY <2>1, RowsTick, GiveUpTick, SendsDueTick DEF Outcomes
  <2>2. CASE Advance /\ UNCHANGED handlerVars
    <3>1. GiveUpEarned'
      BY <2>2 DEF Outcomes, Advance, historyVars, GiveUpEarned
    <3>2. SendsWereDue'
      <4>1. delivered \subseteq Row \X Nat /\ now \in Nat
        BY DEF Outcomes, Exclusion, TypeOK, RunTickTypeOK, TableTypeOK, Time
      <4>2. now' = now + 1 /\ UNCHANGED <<table, delivered>>
        BY <2>2 DEF Advance, historyVars
      <4>3. \A sent \in delivered : sent[2] \in Nat
        BY <4>1
      <4>. QED BY <4>1, <4>2, <4>3 DEF Outcomes, SendsWereDue
    <3>. QED BY <2>2, <3>1, <3>2, RowsAdvance DEF Outcomes
  <2>3. CASE UserStep /\ UNCHANGED tickVars
    BY <2>3, RowsUser, OthersUser DEF Outcomes, Updates
  <2>4. CASE UNCHANGED vars
    <3>1. UNCHANGED <<now, table, job, put, raced, delivered, faulted, attempts, settled>>
      BY <2>4 DEF vars, storeVars, tickVars, historyVars, handlerVars
    <3>2. ASSUME NEW q \in Row PROVE RowOutcomes(q)'
      BY <3>1, QuietRow DEF Quiet, Raced, Outcomes, Exclusion
    <3>. QED BY <3>1, <3>2 DEF Outcomes, GiveUpEarned, SendsWereDue
  <2>. QED BY <2>1, <2>2, <2>3, <2>4 DEF Next
<1>. QED BY <1>1, OutcomesInit, ExclusionInvariant, UpdatesInvariant, PTL DEF Spec

(* A task is given up only after the first attempt and MaxRetries retries  *)
(* were really made, as long as users only move tasks ahead: moved to the  *)
(* present, it could be claimed by a tick that read it before.             *)
THEOREM RetriesUsedUp ==
    ASSUME TimelyHeartbeats, ReschedulePeriod > 0
    PROVE  Spec => []GiveUpEarned
<1>1. Outcomes => GiveUpEarned
  BY DEF Outcomes
<1>. QED BY <1>1, OutcomesInvariant, PTL

(* A row the delivery loop has removed or closed as sent was delivered;    *)
(* if a user moved it while a tick held it, in the tick's occurrence.      *)
THEOREM NothingDropped ==
    ASSUME TimelyHeartbeats, ReschedulePeriod > 0
    PROVE  Spec => []RemovedOnlyIfDelivered
<1>1. Outcomes => RemovedOnlyIfDelivered
  BY DEF Outcomes, RowOutcomes, SendsRemembered, RemovedOnlyIfDelivered
<1>. QED BY <1>1, OutcomesInvariant, PTL

(* A task whose pushes are out is not reported as failed, unless the       *)
(* outcome was lost, as long as users only move tasks ahead.               *)
THEOREM FailureIsTrue ==
    ASSUME TimelyHeartbeats, ReschedulePeriod > 0
    PROVE  Spec => []FailedNotDelivered
<1>1. Outcomes => FailedNotDelivered
  BY DEF Outcomes, RowOutcomes, SendsRemembered, FailedNotDelivered
<1>. QED BY <1>1, OutcomesInvariant, PTL

(* An occurrence whose pushes are out is sent again only if recording that *)
(* outcome was cut short, as long as users only move tasks ahead.          *)
THEOREM SentOnce ==
    ASSUME TimelyHeartbeats, ReschedulePeriod > 0
    PROVE  Spec => NoUnprovokedResend
<1>1. Outcomes /\ [Next]_vars =>
        [\A t \in Tick, r \in Row :
           LET occurrence == <<r, job[t][r].next_send_at>> IN
           /\ job[t][r].pc = "sending"
           /\ job'[t][r].pc = "sent"
           /\ occurrence \in delivered
           => occurrence \in faulted]_vars
  BY DEF Outcomes, RowOutcomes, SendsRemembered
<1>. QED BY <1>1, OutcomesInvariant, PTL DEF Spec, NoUnprovokedResend

-----------------------------------------------------------------------------
(***************************************************************************)
(* The same exclusion of groups over Postgres, where a claim takes two     *)
(* statements and two ticks may win a lease of one group at the same time. *)
(* The argument: between its UPDATE and the answer of its second query a   *)
(* tick holds the row as firmly as a delivery does (LeaseWon), so that     *)
(* what the second query does not find is not there.  Everything else a    *)
(* tick does is a step of TickStep, and the effects above apply.           *)
(***************************************************************************)

(* The steps of PostgresService that are steps of a tick on D1.            *)
PgTick(t) ==
    \/ FetchBatch(t)
    \/ \E r \in Row : PgUngroupedClaim(t, r) \/ PgDelivery(t, r)

LEMMA PgTickIsTick ==
    ASSUME NEW t \in Tick, PgTick(t)
    PROVE  TickStep(t)
BY DEF PgTick, PgUngroupedClaim, PgDelivery, TickStep

(* A statement of tick t's claim of row r concerns that claim, that job    *)
(* and that row.                                                           *)
LEMMA ClaimStepFrame ==
    ASSUME PgTypeOK, NEW t \in Tick, NEW r \in Row, PgClaimStep(t, r)
    PROVE  /\ UNCHANGED <<now, beat, handlerVars>>
           /\ \A q \in Row \ {r} : table'[q] = table[q]
           /\ \A s \in Tick, q \in Row :
                 <<s, q>> # <<t, r>> => /\ job'[s][q] = job[s][q]
                                        /\ claim'[s][q] = claim[s][q]
<1>. USE DEF vars, storeVars, tickVars, historyVars, handlerVars, Others
<1>0. /\ table \in [Row -> TaskRow]
      /\ job \in [Tick -> [Row -> Job]]
      /\ claim \in [Tick -> [Row -> Claim]]
  BY DEF PgTypeOK, TypeOK, RunTickTypeOK, TableTypeOK
<1>1. UNCHANGED <<now, beat, handlerVars>>
  BY DEF PgClaimStep, PgClaimBegins, PgClaimCommits, PgClaimLost, PgClaimGranted,
         PgClaimConflicts, PgClaimYields, PgClaimThrows
<1>2. table' = table \/ \E row : table' = [table EXCEPT ![r] = row]
  BY DEF PgClaimStep, PgClaimBegins, PgClaimCommits, PgClaimLost, PgClaimGranted,
         PgClaimConflicts, PgClaimYields, PgClaimThrows, Leased, ClaimTask
<1>3. job' = job \/ \E j : job' = [job EXCEPT ![t][r] = j]
  BY DEF PgClaimStep, PgClaimBegins, PgClaimCommits, PgClaimLost, PgClaimGranted,
         PgClaimConflicts, PgClaimYields, PgClaimThrows, Forget
<1>4. \E c : claim' = [claim EXCEPT ![t][r] = c]
  BY DEF PgClaimStep, PgClaimBegins, PgClaimCommits, PgClaimLost, PgClaimGranted,
         PgClaimConflicts, PgClaimYields, PgClaimThrows, ClaimAt, ClaimOver
<1>5. \A q \in Row \ {r} : table'[q] = table[q]
  BY <1>0, <1>2
<1>6. \A s \in Tick, q \in Row : <<s, q>> # <<t, r>> => job'[s][q] = job[s][q]
  BY <1>0, <1>3
<1>7. \A s \in Tick, q \in Row : <<s, q>> # <<t, r>> => claim'[s][q] = claim[s][q]
  BY <1>0, <1>4
<1>. QED BY <1>1, <1>5, <1>6, <1>7

-----------------------------------------------------------------------------
(* Typing                                                                  *)

(* The statements of a claim keep the types.                               *)
LEMMA ClaimStepType ==
    ASSUME PgTypeOK, NEW t \in Tick, NEW r \in Row, PgClaimStep(t, r)
    PROVE  PgTypeOK'
<1>. USE DEF vars, storeVars, tickVars, historyVars, handlerVars, Others
<1>0. /\ RunTickTypeOK /\ TableTypeOK
      /\ now \in Nat
      /\ table \in [Row -> TaskRow]
      /\ job \in [Tick -> [Row -> Job]]
      /\ claim \in [Tick -> [Row -> Claim]]
      /\ claim[t][r] \in Claim
      /\ abandoned \subseteq Row /\ faults \in Nat
  BY DEF PgTypeOK, TypeOK, RunTickTypeOK, TableTypeOK, Time
<1>1. claim' \in [Tick -> [Row -> Claim]]
  <2>1. NoClaim \in Claim /\ [at |-> "updating", sent |-> now] \in Claim
    BY <1>0 DEF NoClaim, Claim, Time
  <2>2. \A at \in {"checking", "yielding"} : [claim[t][r] EXCEPT !.at = at] \in Claim
    BY <1>0 DEF Claim
  <2>3. \A c \in Claim : [claim EXCEPT ![t][r] = c] \in [Tick -> [Row -> Claim]]
    BY <1>0
  <2>4. \A at \in {"checking", "yielding"} :
           ClaimAt(t, r, at)
             => claim' = [claim EXCEPT ![t][r] = [claim[t][r] EXCEPT !.at = at]]
    BY <1>0 DEF ClaimAt, Claim
  <2>5. PICK c \in Claim : claim' = [claim EXCEPT ![t][r] = c]
    BY <2>1, <2>2, <2>4
       DEF PgClaimStep, PgClaimBegins, PgClaimCommits, PgClaimLost, PgClaimGranted,
           PgClaimConflicts, PgClaimYields, PgClaimThrows, ClaimOver
  <2>. QED BY <2>3, <2>5
<1>2. ASSUME Leased(t, r) PROVE table' \in [Row -> TaskRow]
  <2>1. claim[t][r].sent + LeaseTTL \in Time
    BY <1>0, TickConstants DEF Claim, Time
  <2>2. JobGroup(t, r) \in Group \cup {NULL}
    BY <1>0, JobTypes
  <2>. QED BY <1>2, <2>1, <2>2, <1>0, ClaimTaskType DEF Leased
<1>3. ASSUME Forget(t, r) PROVE job' \in [Tick -> [Row -> Job]]
  BY <1>3, <1>0, JobTypes DEF Forget
<1>4. CASE PgClaimBegins(t, r) \/ PgClaimConflicts(t, r)
  BY <1>1, <1>4
     DEF PgClaimBegins, PgClaimConflicts, PgTypeOK, TypeOK, RunTickTypeOK,
         TableTypeOK, HandlersTypeOK
<1>5. CASE PgClaimCommits(t, r)
  <2>1. table' \in [Row -> TaskRow] /\ abandoned' \subseteq Row
    BY <1>0, <1>2, <1>5 DEF PgClaimCommits
  <2>. QED BY <1>1, <1>5, <2>1 DEF PgClaimCommits, PgTypeOK, TypeOK, RunTickTypeOK,
                                  TableTypeOK, HandlersTypeOK
<1>6. CASE PgClaimLost(t, r)
  BY <1>1, <1>3, <1>6 DEF PgClaimLost, PgTypeOK, TypeOK, RunTickTypeOK,
                         TableTypeOK, HandlersTypeOK
<1>7. CASE PgClaimGranted(t, r)
  <2>. DEFINE begun == [job[t][r] EXCEPT
                          !.pc = FirstStep(job[t][r]),
                          !.began = IF PromptCron THEN now ELSE 0]
  <2>1. FirstStep(job[t][r]) \in Progress
    BY DEF FirstStep, Progress
  <2>2. begun \in Job
    BY <2>1, <1>0, JobTypes, ZenonT(40) DEF Job, Time
  <2>3. job' = [job EXCEPT ![t][r] = begun]
    BY <1>7 DEF PgClaimGranted
  <2>. HIDE DEF begun
  <2>4. job' \in [Tick -> [Row -> Job]]
    BY <2>2, <2>3, <1>0
  <2>5. attempts' \in [Row -> Nat]
    BY <1>0, <1>7 DEF PgClaimGranted, RunTickTypeOK
  <2>. QED BY <1>1, <1>7, <2>4, <2>5 DEF PgClaimGranted, PgTypeOK, TypeOK,
                                  RunTickTypeOK, TableTypeOK, HandlersTypeOK
<1>8. CASE PgClaimYields(t, r)
  <2>1. [table[r] EXCEPT !.lease_until = IF Exists(r) THEN NULL
                                         ELSE table[r].lease_until] \in TaskRow
    BY <1>0 DEF TaskRow
  <2>2. table' \in [Row -> TaskRow]
    BY <1>0, <1>8, <2>1 DEF PgClaimYields
  <2>. QED BY <1>1, <1>3, <1>8, <2>2 DEF PgClaimYields, PgTypeOK, TypeOK,
                                  RunTickTypeOK, TableTypeOK, HandlersTypeOK
<1>9. CASE PgClaimThrows(t, r)
  <2>1. table' \in [Row -> TaskRow]
    BY <1>0, <1>2, <1>9 DEF PgClaimThrows
  <2>2. abandoned' \subseteq Row /\ faults' \in Nat
    BY <1>0, <1>9 DEF PgClaimThrows
  <2>. QED BY <1>1, <1>3, <1>9, <2>1, <2>2 DEF PgClaimThrows, PgTypeOK, TypeOK,
                                  RunTickTypeOK, TableTypeOK, HandlersTypeOK
<1>. QED BY <1>4, <1>5, <1>6, <1>7, <1>8, <1>9 DEF PgClaimStep

(* One more invocation takes snapshots, of a batch or of one row...        *)
LEMMA ExtraTickType ==
    ASSUME RunTickTypeOK, NEW t \in Tick, PgExtraTick(t)
    PROVE  job' \in [Tick -> [Row -> Job]]
<1>1. ASSUME NEW r \in Row, PgRunTask(t, r) PROVE job' \in [Tick -> [Row -> Job]]
  <2>1. PICK readable \in {TRUE, PayloadsReadable} :
           job' = [job EXCEPT ![t][r] =
                     [Snapshot(r, readable) EXCEPT !.retry_after = NULL]]
    BY <1>1 DEF PgRunTask
  <2>2. Snapshot(r, readable) \in Job
    BY JobTypes, TickConstants
  <2>3. [Snapshot(r, readable) EXCEPT !.retry_after = NULL] \in Job
    BY <2>2 DEF Job
  <2>. QED BY <2>1, <2>3 DEF RunTickTypeOK
<1>. QED BY <1>1, FetchedType DEF PgExtraTick

(* ... and delivers nothing yet.                                           *)
LEMMA ExtraTickEffect ==
    ASSUME RunTickTypeOK, NEW t \in Tick, PgExtraTick(t)
    PROVE  \A s \in Tick, q \in Row : /\ s # t => job'[s][q] = job[s][q]
                                      /\ ~Active(t, q)'
<1>1. ASSUME NEW r \in Row, PgRunTask(t, r)
      PROVE  \A s \in Tick, q \in Row : /\ s # t => job'[s][q] = job[s][q]
                                        /\ ~Active(t, q)'
  <2>1. PICK j : /\ job' = [job EXCEPT ![t][r] = j]
                 /\ j.pc = "queued"
    BY <1>1 DEF PgRunTask, Snapshot
  <2>2. \A q \in Row : ~Active(t, q)
    BY DEF PgExtraTick, Idle, Active
  <2>. QED BY <2>1, <2>2 DEF RunTickTypeOK, Active
<1>. QED BY <1>1, FetchedEffect DEF PgExtraTick

(* Every step keeps the types.                                             *)
LEMMA PgNextType ==
    ASSUME PgTypeOK, [PgNext]_pgVars
    PROVE  PgTypeOK'
<1>. USE DEF storeVars, tickVars, historyVars
<1>. USE DEF handlerVars
<1>0. /\ TypeOK /\ RunTickTypeOK
      /\ job \in [Tick -> [Row -> Job]]
      /\ claim \in [Tick -> [Row -> Claim]]
      /\ NoClaim \in Claim
  BY DEF PgTypeOK, TypeOK, RunTickTypeOK, NoClaim, Claim, Time
<1>1. ASSUME NEW t \in Tick, NEW r \in Row, PgClaimStep(t, r) PROVE PgTypeOK'
  BY <1>1, ClaimStepType
<1>2. ASSUME NEW t \in Tick, PgTick(t), UNCHANGED <<handlerVars, claim>> PROVE PgTypeOK'
  <2>1. RunTickTypeOK'
    BY <1>0, <1>2, PgTickIsTick, TickStepType
  <2>. QED BY <1>0, <1>2, <2>1 DEF PgTypeOK, TypeOK, HandlersTypeOK
<1>3. ASSUME NEW t \in Tick, PgCrash(t) PROVE PgTypeOK'
  <2>1. job' \in [Tick -> [Row -> Job]]
    <3>. SUFFICES ASSUME NEW q \in Row PROVE NoJob \in Job
      BY <1>0, <1>3 DEF PgCrash
    <3>. QED BY <1>0, JobTypes
  <2>2. claim' \in [Tick -> [Row -> Claim]]
    BY <1>0, <1>3 DEF PgCrash
  <2>3. faulted' \subseteq Row \X Time
    <3>1. \A q \in Row : job[t][q].next_send_at \in Time
      BY <1>0 DEF Job
    <3>. QED BY <1>0, <1>3, <3>1 DEF PgCrash, RunTickTypeOK
  <2>4. abandoned' \subseteq Row /\ faults' \in Nat
    BY <1>0, <1>3 DEF PgCrash, RunTickTypeOK
  <2>. QED BY <1>0, <1>3, <2>1, <2>2, <2>3, <2>4
           DEF PgCrash, PgTypeOK, TypeOK, RunTickTypeOK, TableTypeOK, HandlersTypeOK
<1>4. ASSUME NEW t \in Tick, PgExtraTick(t) PROVE PgTypeOK'
  <2>1. job' \in [Tick -> [Row -> Job]]
    BY <1>0, <1>4, ExtraTickType
  <2>2. faults' \in Nat
    BY <1>0, <1>4 DEF PgExtraTick, RunTickTypeOK
  <2>. QED BY <1>0, <1>4, <2>1, <2>2
           DEF PgExtraTick, PgTypeOK, TypeOK, RunTickTypeOK, TableTypeOK,
               HandlersTypeOK
<1>5. CASE PgAdvance /\ UNCHANGED <<handlerVars, claim>>
  BY <1>0, <1>5 DEF PgAdvance, Advance, PgTypeOK, TypeOK, RunTickTypeOK, TableTypeOK,
                    HandlersTypeOK, Time
<1>6. CASE UserStep /\ UNCHANGED <<tickVars, claim>>
  <2>1. TypeOK'
    BY <1>0, <1>6, UserStepType
  <2>. QED BY <1>0, <1>6, <2>1 DEF PgTypeOK
<1>7. CASE UNCHANGED pgVars
  BY <1>0, <1>7 DEF pgVars, vars, PgTypeOK, TypeOK, RunTickTypeOK, TableTypeOK,
                    HandlersTypeOK
<1>. QED BY <1>1, <1>2, <1>3, <1>4, <1>5, <1>6, <1>7 DEF PgNext, PgTick

-----------------------------------------------------------------------------
(* The invariant.                                                          *)

(* A step that begins no delivery, and touches only rows nobody delivers.  *)
Apart(q) ==
    /\ \A s \in Tick : Active(s, q)' => /\ Active(s, q)
                                        /\ job'[s][q].readable = job[s][q].readable
    /\ table'[q] = table[q] \/ \A s \in Tick : ~Active(s, q)

LEMMA ExclusionApart ==
    ASSUME Exclusion, TypeOK', UNCHANGED <<now, beat>>, \A q \in Row : Apart(q)
    PROVE  Exclusion'
<1>. USE DEF Exclusion
<1>1. \A s \in Tick, q \in Row :
         Active(s, q)' => /\ Active(s, q)
                          /\ job'[s][q].readable = job[s][q].readable
                          /\ table'[q] = table[q]
  BY DEF Apart
<1>2. BeatsInFuture'
  BY DEF BeatsInFuture
<1>3. DeliveriesHaveRows'
  BY <1>1 DEF DeliveriesHaveRows
<1>4. LeaseCoversDelivery'
  BY <1>1 DEF LeaseCoversDelivery, LeaseLive, Pending
<1>5. RowExclusive'
  BY <1>1 DEF RowExclusive
<1>6. GroupRecorded'
  BY <1>1 DEF GroupRecorded
<1>7. GroupExclusive'
  BY <1>1 DEF GroupExclusive, Pending
<1>. QED BY <1>2, <1>3, <1>4, <1>5, <1>6, <1>7

(* The second look of an UPDATE finds a row nobody delivers and nobody has *)
(* won, and leases it beyond the present.                                  *)
LEMMA OwnRowFree ==
    ASSUME PgExclusion, NEW t \in Tick, NEW r \in Row, Claiming(t, r),
           OwnRowQualifies(t, r)
    PROVE  /\ Pending(r)
           /\ ~LeaseLive(r)
           /\ \A s \in Tick : ~Active(s, r) /\ ~Checked(s, r)
<1>1. /\ claim[t][r].sent \in Nat /\ claim[t][r].sent <= now /\ now \in Nat
      /\ table[r].lease_until \in Nat \cup {NULL}
  BY DEF PgExclusion, PgTypeOK, TypeOK, RunTickTypeOK, TableTypeOK, Claim, TaskRow,
         Time, ClaimsHeld, ClaimUnderWay
<1>2. Pending(r) /\ ~LeaseLive(r)
  BY <1>1, NullIsFresh DEF OwnRowQualifies, LeaseLive
<1>3. \A s \in Tick : ~Active(s, r)
  BY <1>2 DEF PgExclusion, Exclusion, LeaseCoversDelivery
<1>4. \A s \in Tick : ~Checked(s, r)
  BY <1>2 DEF PgExclusion, ClaimsHeld, LeaseWon
<1>. QED BY <1>2, <1>3, <1>4

LEMMA LeasedRow ==
    ASSUME PgExclusion, NEW t \in Tick, NEW r \in Row, Claiming(t, r),
           Leased(t, r), now' = now
    PROVE  /\ table'[r].status = table[r].status
           /\ LeaseLive(r)'
           /\ table'[r].serialize_group = GroupOf[r]
<1>1. /\ claim[t][r].sent \in Nat /\ now \in Nat
      /\ claim[t][r].sent + LeaseTTL > now
      /\ JobGroup(t, r) # NULL
      /\ table \in [Row -> TaskRow]
  BY DEF PgExclusion, PgTypeOK, TypeOK, RunTickTypeOK, TableTypeOK, Claim,
         Time, ClaimsHeld, ClaimUnderWay
<1>2. JobGroup(t, r) = GroupOf[r]
  BY <1>1 DEF JobGroup
<1>3. /\ table'[r].status = table[r].status
      /\ table'[r].lease_until = claim[t][r].sent + LeaseTTL
      /\ table'[r].serialize_group = GroupOf[r]
  BY <1>1, <1>2 DEF Leased, ClaimTask, TaskRow
<1>4. claim[t][r].sent + LeaseTTL \in Nat
  BY <1>1, TickConstants
<1>. QED BY <1>1, <1>3, <1>4, NullIsFresh DEF LeaseLive

(* The statements of a claim, the last one apart.                          *)
LEMMA ExclusionClaimStep ==
    ASSUME PgExclusion, NEW t \in Tick, NEW r \in Row, PgClaimStep(t, r),
           ~PgClaimGranted(t, r), TypeOK'
    PROVE  Exclusion'
<1>. USE DEF vars, storeVars, tickVars, historyVars, handlerVars, Others
<1>0. /\ Exclusion /\ PgTypeOK
      /\ job \in [Tick -> [Row -> Job]]
      /\ UNCHANGED <<now, beat>>
      /\ \A q \in Row \ {r} : table'[q] = table[q]
  BY ClaimStepFrame DEF PgExclusion, PgTypeOK, TypeOK, RunTickTypeOK
<1>1. UNCHANGED job \/ Forget(t, r)
  BY DEF PgClaimStep, PgClaimBegins, PgClaimCommits, PgClaimLost,
         PgClaimConflicts, PgClaimYields, PgClaimThrows
<1>2. \A s \in Tick, q \in Row :
         Active(s, q)' => Active(s, q) /\ job'[s][q].readable = job[s][q].readable
  <2>1. CASE UNCHANGED job
    BY <2>1 DEF Active
  <2>2. CASE Forget(t, r)
    BY <1>0, <2>2 DEF Forget, Active, NoJob
  <2>. QED BY <1>1, <2>1, <2>2
<1>3. UNCHANGED table \/ \A s \in Tick : ~Active(s, r)
  <2>1. CASE PgClaimCommits(t, r) \/ PgClaimThrows(t, r)
    BY <2>1, OwnRowFree DEF PgClaimCommits, PgClaimThrows, Claiming
  <2>2. CASE PgClaimYields(t, r)
    BY <2>2 DEF PgClaimYields, PgExclusion, ClaimsHeld, LeaseWon, Checked
  <2>3. CASE PgClaimBegins(t, r) \/ PgClaimLost(t, r) \/ PgClaimConflicts(t, r)
    BY <2>3 DEF PgClaimBegins, PgClaimLost, PgClaimConflicts
  <2>. QED BY <2>1, <2>2, <2>3 DEF PgClaimStep
<1>4. \A q \in Row : Apart(q)
  BY <1>0, <1>2, <1>3 DEF Apart
<1>. QED BY <1>0, <1>4, ExclusionApart

(* The claim is confirmed: no other pending row of the group holds a live  *)
(* lease, so nobody delivers one.                                          *)
LEMMA ExclusionGranted ==
    ASSUME PgExclusion, NEW t \in Tick, NEW r \in Row, PgClaimGranted(t, r), TypeOK'
    PROVE  Exclusion'
<1>. USE DEF storeVars, tickVars, historyVars, Others, Exclusion
<1>0. /\ Exclusion
      /\ UNCHANGED <<now, beat, table>>
      /\ LeaseWon(t, r) /\ ClaimUnderWay(t, r)
      /\ job \in [Tick -> [Row -> Job]]
  BY DEF PgClaimGranted, PgExclusion, ClaimsHeld, Claiming, Checked, TypeOK,
         RunTickTypeOK
<1>1. job' = [job EXCEPT ![t][r] = [job[t][r] EXCEPT
                            !.pc = FirstStep(job[t][r]),
                            !.began = IF PromptCron THEN now ELSE 0]]
  BY DEF PgClaimGranted
<1>2. /\ job[t][r].readable /\ JobGroup(t, r) = GroupOf[r]
      /\ ~GroupBusy(r, GroupOf[r])
  BY <1>0 DEF PgClaimGranted, PgConflict, ClaimUnderWay, JobGroup
<1>3. \A s \in Tick, q \in Row :
         /\ job'[s][q].readable = job[s][q].readable
         /\ Active(s, q)' => Active(s, q) \/ (s = t /\ q = r)
  BY <1>0, <1>1 DEF Active, Job
<1>4. \A s \in Tick : ~Active(s, r)
  BY <1>0 DEF LeaseWon
<1>5. BeatsInFuture'
  BY <1>0 DEF BeatsInFuture
<1>6. DeliveriesHaveRows'
  BY <1>0, <1>3 DEF DeliveriesHaveRows, LeaseWon
<1>7. LeaseCoversDelivery'
  BY <1>0, <1>3 DEF LeaseCoversDelivery, LeaseWon, LeaseLive, Pending
<1>8. RowExclusive'
  BY <1>0, <1>3, <1>4 DEF RowExclusive
<1>9. GroupRecorded'
  BY <1>0, <1>3 DEF GroupRecorded, LeaseWon
<1>10. GroupExclusive'
  <2>1. ASSUME NEW q \in Row, NEW s \in Tick, q # r, GroupOf[q] = GroupOf[r],
               GroupOf[q] # NULL, Active(s, q), job[s][q].readable, Pending(q)
        PROVE  FALSE
    <3>1. table[q].serialize_group = GroupOf[r] /\ LeaseLive(q)
      BY <1>0, <2>1 DEF GroupRecorded, LeaseCoversDelivery
    <3>. QED BY <1>2, <2>1, <3>1 DEF GroupBusy
  <2>2. ASSUME NEW p \in Row, NEW q \in Row, NEW s \in Tick, NEW u \in Tick,
               p # q, GroupOf[p] # NULL, GroupOf[p] = GroupOf[q],
               Active(s, p)', Active(u, q)',
               job'[s][p].readable, job'[u][q].readable,
               Pending(p)', Pending(q)'
        PROVE  FALSE
    <3>1. /\ Pending(p) /\ Pending(q)
          /\ job[s][p].readable /\ job[u][q].readable
      BY <1>0, <1>3, <2>2 DEF Pending
    <3>2. CASE p = r
      BY <1>3, <2>1, <2>2, <3>1, <3>2
    <3>3. CASE q = r
      BY <1>3, <2>1, <2>2, <3>1, <3>3
    <3>4. CASE p # r /\ q # r
      BY <1>0, <1>3, <2>2, <3>1, <3>4 DEF GroupExclusive
    <3>. QED BY <3>2, <3>3, <3>4
  <2>. QED BY <2>2 DEF GroupExclusive
<1>. QED BY <1>5, <1>6, <1>7, <1>8, <1>9, <1>10

(* A crash and one more invocation begin no delivery and write no row.     *)
LEMMA ExclusionElsewhere ==
    ASSUME PgExclusion, NEW t \in Tick, PgCrash(t) \/ PgExtraTick(t), TypeOK'
    PROVE  Exclusion'
<1>. USE DEF storeVars, historyVars
<1>0. /\ Exclusion /\ RunTickTypeOK
      /\ job \in [Tick -> [Row -> Job]]
      /\ UNCHANGED <<now, table, beat>>
  BY DEF PgExclusion, PgTypeOK, TypeOK, RunTickTypeOK, PgCrash, PgExtraTick
<1>1. \A s \in Tick, q \in Row : /\ s # t => job'[s][q] = job[s][q]
                                 /\ ~Active(t, q)'
  <2>1. CASE PgCrash(t)
    BY <1>0, <2>1 DEF PgCrash, Active, NoJob
  <2>2. CASE PgExtraTick(t)
    BY <1>0, <2>2, ExtraTickEffect
  <2>. QED BY <2>1, <2>2
<1>2. \A q \in Row : Apart(q)
  BY <1>0, <1>1 DEF Apart, Active
<1>. QED BY <1>0, <1>2, ExclusionApart

-----------------------------------------------------------------------------
(* The claims under way.                                                   *)

(* A claim and the row it has won, as far as a step leaves them alone:     *)
(* whose job it is, whose lease, and who else is at the row.               *)
ClaimKept(s, q) ==
    /\ claim'[s][q] = claim[s][q]
    /\ Claiming(s, q) => job'[s][q] = job[s][q]

LeaseKept(s, q) ==
    Checked(s, q) =>
        /\ table'[q].status = "absent" => table[q].status = "absent"
        /\ Pending(q)' => Pending(q) /\ (LeaseLive(q) => LeaseLive(q)')
        /\ table'[q].serialize_group \in {table[q].serialize_group, GroupOf[q]}
        /\ \A u \in Tick : /\ Active(u, q)' => Active(u, q)
                           /\ Checked(u, q)' => Checked(u, q)

LEMMA KeptClaimHolds ==
    ASSUME ClaimsHeld, now' = now, NEW s \in Tick, NEW q \in Row,
           ClaimKept(s, q), LeaseKept(s, q)
    PROVE  /\ Claiming(s, q)' => ClaimUnderWay(s, q)'
           /\ Checked(s, q)' => LeaseWon(s, q)'
<1>1. /\ Claiming(s, q)' => Claiming(s, q)
      /\ Checked(s, q)' => Checked(s, q)
  BY DEF ClaimKept, Claiming, Checked
<1>2. Claiming(s, q)' => ClaimUnderWay(s, q)'
  BY <1>1 DEF ClaimKept, ClaimsHeld, ClaimUnderWay, JobGroup
<1>3. Checked(s, q)' => LeaseWon(s, q)'
  <2>. SUFFICES ASSUME Checked(s, q)' PROVE LeaseWon(s, q)'
    OBVIOUS
  <2>1. LeaseWon(s, q)
    BY <1>1 DEF ClaimsHeld
  <2>. QED BY <1>1, <2>1 DEF LeaseKept, LeaseWon
<1>. QED BY <1>2, <1>3

(* A step of a tick that is not a claim in a group.                        *)
LEMMA ClaimsTick ==
    ASSUME PgExclusion, NEW t \in Tick, PgTick(t), UNCHANGED <<handlerVars, claim>>
    PROVE  ClaimsHeld'
<1>. USE DEF storeVars, tickVars, historyVars
<1>0. /\ Exclusion /\ RunTickTypeOK /\ BeatsInFuture /\ ClaimsHeld
      /\ job \in [Tick -> [Row -> Job]]
  BY DEF PgExclusion, Exclusion, PgTypeOK, TypeOK, RunTickTypeOK
<1>1. TickStep(t) /\ now' = now
  BY PgTickIsTick, TickTime
<1>2. \A q \in Row : RowEffect(t, q) /\ JobEffect(t, q)
  BY <1>0, <1>1, TickRowEffect, TickJobEffect
<1>3. \A q \in Row : Claiming(t, q) => job'[t][q] = job[t][q]
  <2>. SUFFICES ASSUME NEW q \in Row, Claiming(t, q)
                PROVE  job'[t][q] = job[t][q]
    OBVIOUS
  <2>1. job[t][q].pc = "queued" /\ JobGroup(t, q) # NULL
    BY <1>0 DEF ClaimsHeld, ClaimUnderWay
  <2>2. CASE FetchBatch(t)
    BY <2>1, <2>2 DEF FetchBatch, Idle
  <2>3. ASSUME NEW r \in Row, PgUngroupedClaim(t, r) PROVE job'[t][q] = job[t][q]
    <3>1. r # q /\ ClaimGranted(t, r)
      BY <2>1, <2>3 DEF PgUngroupedClaim
    <3>. QED BY <1>0, <3>1, ClaimFacts
  <2>4. ASSUME NEW r \in Row, PgDelivery(t, r) PROVE job'[t][q] = job[t][q]
    <3>1. UNCHANGED job \/ \E j : job' = [job EXCEPT ![t][r] = j] /\ r # q
      <4>1. CASE ~Claiming(t, r) /\ ClaimRefused(t, r)
        BY <4>1 DEF ClaimRefused
      <4>2. CASE SendBeat(t, r) \/ LandBeat(t, r)
        BY <4>2 DEF SendBeat, LandBeat
      <4>3. CASE SendSucceeds(t, r)
        <5>1. job' = [job EXCEPT ![t][r] = [job[t][r] EXCEPT !.pc = "sent"]]
          BY <1>0, <4>3 DEF SendSucceeds
        <5>. QED BY <2>1, <4>3, <5>1 DEF SendSucceeds
      <4>4. CASE SendFails(t, r) \/ DecryptFailed(t, r)
        BY <2>1, <4>4 DEF SendFails, DecryptFailed, DeliveryFailure
      <4>5. CASE \/ SkipStale(t, r) \/ FinishSent(t, r) \/ FinishSentThrows(t, r)
                 \/ OutcomeWriteThrows(t, r)
        BY <2>1, <4>5 DEF SkipStale, FinishSent, FinishSentThrows,
                          OutcomeWriteThrows
      <4>. QED BY <2>4, <4>1, <4>2, <4>3, <4>4, <4>5 DEF PgDelivery
    <3>. QED BY <1>0, <3>1
  <2>. QED BY <2>2, <2>3, <2>4 DEF PgTick
<1>4. ASSUME NEW s \in Tick, NEW q \in Row PROVE ClaimKept(s, q)
  BY <1>2, <1>3 DEF ClaimKept, JobEffect
<1>5. ASSUME NEW s \in Tick, NEW q \in Row PROVE LeaseKept(s, q)
  <2>. SUFFICES ASSUME Checked(s, q) PROVE LeaseKept(s, q)
    BY DEF LeaseKept
  <2>1. LeaseWon(s, q)
    BY <1>0 DEF ClaimsHeld
  <2>2. ~ClaimGranted(t, q)
    BY <1>0, <2>1, ClaimFacts DEF LeaseWon
  <2>3. \A u \in Tick : Active(u, q)' => Active(u, q)
    BY <1>2, <2>2 DEF JobEffect
  <2>4. \A u \in Tick : Checked(u, q)' => Checked(u, q)
    BY DEF Checked
  <2>5. LeaseLive(q) => LeaseLive(q)'
    BY <1>1, <1>2, <2>1 DEF RowEffect, LeaseWon, LeaseLive
  <2>. QED BY <1>2, <2>3, <2>4, <2>5 DEF RowEffect, LeaseKept
<1>. QED BY <1>0, <1>1, <1>4, <1>5, KeptClaimHolds DEF ClaimsHeld

(* A crash forgets the claims of its tick, another invocation has none.    *)
LEMMA ClaimsElsewhere ==
    ASSUME PgExclusion, NEW t \in Tick, PgCrash(t) \/ PgExtraTick(t)
    PROVE  ClaimsHeld'
<1>. USE DEF storeVars, historyVars
<1>0. /\ ClaimsHeld /\ RunTickTypeOK
      /\ job \in [Tick -> [Row -> Job]]
      /\ claim \in [Tick -> [Row -> Claim]]
      /\ UNCHANGED <<now, table>>
  BY DEF PgExclusion, PgTypeOK, TypeOK, RunTickTypeOK, PgCrash, PgExtraTick
<1>1. \A s \in Tick, q \in Row : /\ s # t => job'[s][q] = job[s][q]
                                 /\ Active(s, q)' => Active(s, q)
  <2>1. CASE PgCrash(t)
    BY <1>0, <2>1 DEF PgCrash, Active, NoJob
  <2>2. CASE PgExtraTick(t)
    BY <1>0, <2>2, ExtraTickEffect DEF Active
  <2>. QED BY <2>1, <2>2
<1>2. \A s \in Tick, q \in Row : \/ s # t /\ claim'[s][q] = claim[s][q]
                                 \/ s = t /\ ~Claiming(s, q)'
  <2>1. CASE PgCrash(t)
    BY <1>0, <2>1 DEF PgCrash, Claiming, NoClaim
  <2>2. CASE PgExtraTick(t)
    BY <1>0, <2>2 DEF PgExtraTick, Idle, ClaimsHeld, ClaimUnderWay, Claiming
  <2>. QED BY <2>1, <2>2
<1>3. ASSUME NEW s \in Tick, NEW q \in Row
      PROVE  /\ Claiming(s, q)' => ClaimUnderWay(s, q)'
             /\ Checked(s, q)' => LeaseWon(s, q)'
  <2>1. CASE s = t
    BY <1>2, <2>1 DEF Checked, Claiming
  <2>2. CASE s # t
    <3>1. ClaimKept(s, q)
      BY <1>1, <1>2, <2>2 DEF ClaimKept
    <3>2. LeaseKept(s, q)
      BY <1>0, <1>1, <1>2 DEF LeaseKept, Pending, LeaseLive, Checked, Claiming
    <3>. QED BY <1>0, <3>1, <3>2, KeptClaimHolds
  <2>. QED BY <2>1, <2>2
<1>. QED BY <1>3 DEF ClaimsHeld

(* A statement of one claim leaves the others as they are: it writes only  *)
(* a row nobody else has won.                                              *)
LEMMA OtherClaims ==
    ASSUME PgExclusion, NEW t \in Tick, NEW r \in Row, PgClaimStep(t, r),
           NEW s \in Tick, NEW q \in Row, <<s, q>> # <<t, r>>
    PROVE  /\ Claiming(s, q)' => ClaimUnderWay(s, q)'
           /\ Checked(s, q)' => LeaseWon(s, q)'
<1>. USE DEF vars, storeVars, tickVars, historyVars, handlerVars, Others
<1>0. /\ PgTypeOK /\ ClaimsHeld
      /\ job \in [Tick -> [Row -> Job]]
      /\ claim \in [Tick -> [Row -> Claim]]
  BY DEF PgExclusion, PgTypeOK, TypeOK, RunTickTypeOK
<1>1. /\ now' = now
      /\ \A p \in Row \ {r} : table'[p] = table[p]
      /\ \A u \in Tick, p \in Row :
            <<u, p>> # <<t, r>> => /\ job'[u][p] = job[u][p]
                                   /\ claim'[u][p] = claim[u][p]
  BY <1>0, ClaimStepFrame
<1>2. ClaimKept(s, q)
  BY <1>1 DEF ClaimKept
<1>3. CASE q # r
  <2>1. LeaseKept(s, q)
    BY <1>1, <1>3 DEF LeaseKept, Pending, LeaseLive, Active, Checked
  <2>. QED BY <1>0, <1>1, <1>2, <2>1, KeptClaimHolds
<1>4. CASE q = r
  <2>. SUFFICES ASSUME Checked(s, r) PROVE LeaseKept(s, r)
    BY <1>0, <1>1, <1>2, <1>4, KeptClaimHolds DEF LeaseKept
  <2>1. s # t /\ LeaseWon(s, r) /\ ~Checked(t, r)
    BY <1>0, <1>4 DEF ClaimsHeld, LeaseWon
  <2>2. \/ PgClaimBegins(t, r)
        \/ PgClaimLost(t, r)
        \/ PgClaimThrows(t, r) /\ UNCHANGED table
    BY <2>1, OwnRowFree
       DEF PgClaimStep, PgClaimCommits, PgClaimGranted, PgClaimConflicts,
           PgClaimYields, PgClaimThrows, Checked, Claiming
  <2>3. UNCHANGED table
    BY <2>2 DEF PgClaimBegins, PgClaimLost
  <2>4. ~Active(t, r)'
    BY <1>0, <2>1, <2>2 DEF PgClaimBegins, PgClaimLost, PgClaimThrows, Forget,
                            Active, NoJob, LeaseWon
  <2>5. ~Checked(t, r)'
    BY <1>0, <2>2 DEF PgClaimBegins, PgClaimLost, PgClaimThrows, ClaimOver, NoClaim,
                      Checked
  <2>6. \A u \in Tick : u # t => /\ Active(u, r)' => Active(u, r)
                                 /\ Checked(u, r)' => Checked(u, r)
    BY <1>1 DEF Active, Checked
  <2>. QED BY <1>1, <2>3, <2>4, <2>5, <2>6 DEF LeaseKept, Pending, LeaseLive
<1>. QED BY <1>3, <1>4

(* What a statement makes of its own claim.                                *)
LEMMA OwnClaim ==
    ASSUME PgExclusion, NEW t \in Tick, NEW r \in Row, PgClaimStep(t, r)
    PROVE  /\ Claiming(t, r)' => ClaimUnderWay(t, r)'
           /\ Checked(t, r)' => LeaseWon(t, r)'
<1>. USE DEF vars, storeVars, tickVars, historyVars, handlerVars, Others
<1>0. /\ PgTypeOK /\ ClaimsHeld
      /\ job \in [Tick -> [Row -> Job]]
      /\ claim \in [Tick -> [Row -> Claim]]
      /\ now \in Nat
  BY DEF PgExclusion, PgTypeOK, TypeOK, RunTickTypeOK, TableTypeOK, Time
<1>1. /\ now' = now
      /\ \A s \in Tick \ {t} : claim'[s][r] = claim[s][r]
  BY <1>0, ClaimStepFrame
<1>2. CASE PgClaimBegins(t, r)
  <2>1. claim'[t][r] = [at |-> "updating", sent |-> now]
    BY <1>0, <1>2 DEF PgClaimBegins
  <2>2. now + LeaseTTL > now
    BY <1>0, TickConstants
  <2>. QED BY <1>0, <1>2, <2>1, <2>2
           DEF PgClaimBegins, NextInQueue, ClaimUnderWay, Checked, JobGroup
<1>3. CASE PgClaimCommits(t, r)
  <2>1. /\ claim'[t][r].at = "checking"
        /\ claim'[t][r].sent = claim[t][r].sent
        /\ Claiming(t, r) /\ OwnRowQualifies(t, r) /\ Leased(t, r)
        /\ UNCHANGED job
    BY <1>0, <1>3 DEF PgClaimCommits, ClaimAt, Claim, Claiming
  <2>2. ClaimUnderWay(t, r)'
    BY <1>0, <1>1, <2>1 DEF ClaimsHeld, ClaimUnderWay, JobGroup
  <2>3. /\ Pending(r)
        /\ \A s \in Tick : ~Active(s, r) /\ ~Checked(s, r)
    BY <2>1, OwnRowFree
  <2>4. /\ table'[r].status = table[r].status
        /\ LeaseLive(r)'
        /\ table'[r].serialize_group = GroupOf[r]
    BY <1>1, <2>1, LeasedRow
  <2>5. \A s \in Tick : ~Active(s, r)' /\ (Checked(s, r)' => s = t)
    BY <1>1, <2>1, <2>3 DEF Active, Checked
  <2>. QED BY <2>2, <2>3, <2>4, <2>5 DEF LeaseWon, Pending
<1>4. CASE PgClaimConflicts(t, r)
  <2>1. /\ claim'[t][r].sent = claim[t][r].sent
        /\ Claiming(t, r) /\ Checked(t, r)
        /\ UNCHANGED <<job, table>>
    BY <1>0, <1>4 DEF PgClaimConflicts, ClaimAt, Claim, Claiming, Checked
  <2>2. ClaimUnderWay(t, r)'
    BY <1>0, <1>1, <2>1 DEF ClaimsHeld, ClaimUnderWay, JobGroup
  <2>3. LeaseWon(t, r)
    BY <1>0, <2>1 DEF ClaimsHeld
  <2>4. LeaseWon(t, r)'
    BY <1>1, <2>1, <2>3 DEF LeaseWon, Pending, LeaseLive, Active, Checked
  <2>. QED BY <2>2, <2>4
<1>5. CASE \/ PgClaimLost(t, r) \/ PgClaimGranted(t, r)
           \/ PgClaimYields(t, r) \/ PgClaimThrows(t, r)
  BY <1>0, <1>5
     DEF PgClaimLost, PgClaimGranted, PgClaimYields, PgClaimThrows, ClaimOver,
         NoClaim, Claiming, Checked
<1>. QED BY <1>2, <1>3, <1>4, <1>5 DEF PgClaimStep

LEMMA ClaimsClaim ==
    ASSUME PgExclusion, NEW t \in Tick, NEW r \in Row, PgClaimStep(t, r)
    PROVE  ClaimsHeld'
<1>1. ASSUME NEW s \in Tick, NEW q \in Row
      PROVE  /\ Claiming(s, q)' => ClaimUnderWay(s, q)'
             /\ Checked(s, q)' => LeaseWon(s, q)'
  <2>1. CASE s = t /\ q = r
    BY <2>1, OwnClaim
  <2>2. CASE <<s, q>> # <<t, r>>
    BY <2>2, OtherClaims
  <2>. QED BY <2>1, <2>2
<1>. QED BY <1>1 DEF ClaimsHeld

(* A user takes a row away from a claim, but not its lease.                *)
LEMMA ClaimsUser ==
    ASSUME PgExclusion, UserStep, UNCHANGED <<tickVars, claim>>
    PROVE  ClaimsHeld'
<1>0. ClaimsHeld /\ TypeOK
  BY DEF PgExclusion, PgTypeOK
<1>1. UNCHANGED tickVars
  OBVIOUS
<1>2. \A q \in Row :
         /\ UNCHANGED <<now, job>>
         /\ table'[q].status = "absent" => table[q].status = "absent"
         /\ \/ table[q].status = "absent"
            \/ /\ Pending(q)' => Pending(q)
               /\ table'[q].lease_until = table[q].lease_until
               /\ table'[q].serialize_group = table[q].serialize_group
  BY <1>0, <1>1, UserEffect
<1>3. ASSUME NEW s \in Tick, NEW q \in Row
      PROVE  now' = now /\ ClaimKept(s, q) /\ LeaseKept(s, q)
  <2>1. now' = now /\ ClaimKept(s, q)
    BY <1>2 DEF ClaimKept
  <2>2. LeaseKept(s, q)
    <3>. SUFFICES ASSUME Checked(s, q) PROVE LeaseKept(s, q)
      BY DEF LeaseKept
    <3>1. table[q].status # "absent"
      BY <1>0 DEF ClaimsHeld, LeaseWon
    <3>. QED BY <1>2, <3>1 DEF LeaseKept, LeaseLive, Active, Checked
  <2>. QED BY <2>1, <2>2
<1>. QED BY <1>0, <1>3, KeptClaimHolds DEF ClaimsHeld

(* The clock waits for the statements of a claim.                          *)
LEMMA ClaimsAdvance ==
    ASSUME PgExclusion, PgAdvance, UNCHANGED claim
    PROVE  ClaimsHeld'
<1>1. /\ ClaimsHeld /\ now' = now + 1 /\ now \in Nat
      /\ UNCHANGED <<table, job>>
      /\ claim \in [Tick -> [Row -> Claim]]
  BY DEF PgAdvance, Advance, tickVars, PgExclusion, PgTypeOK, TypeOK,
         RunTickTypeOK, TableTypeOK, Time
<1>2. ASSUME NEW t \in Tick, NEW r \in Row, Claiming(t, r)
      PROVE  ClaimUnderWay(t, r)'
  <2>1. ClaimUnderWay(t, r) /\ claim[t][r].sent \in Nat
    BY <1>1, <1>2 DEF ClaimsHeld, Claim, Time
  <2>2. claim[t][r].sent + LeaseTTL > now + 1
    BY <1>2 DEF PgAdvance
  <2>. QED BY <1>1, <2>1, <2>2 DEF ClaimUnderWay, JobGroup
<1>3. ASSUME NEW t \in Tick, NEW r \in Row, Checked(t, r)
      PROVE  LeaseWon(t, r)'
  <2>1. LeaseWon(t, r)
    BY <1>1, <1>3 DEF ClaimsHeld
  <2>2. Pending(r) => table[r].lease_until # NULL /\ table[r].lease_until > now + 1
    BY <1>3, <2>1 DEF PgAdvance, LeaseWon, LeaseLive
  <2>. QED BY <1>1, <2>1, <2>2 DEF LeaseWon, Pending, LeaseLive, Active, Checked
<1>. QED BY <1>1, <1>2, <1>3 DEF ClaimsHeld, Claiming, Checked

-----------------------------------------------------------------------------

LEMMA PgInitHolds == PgInit => PgExclusion
<1>. SUFFICES ASSUME PgInit PROVE PgExclusion
  OBVIOUS
<1>1. TypeOK /\ Exclusion
  BY InitType, ExclusionInit DEF PgInit
<1>2. PgTypeOK /\ \A t \in Tick, r \in Row : ~Claiming(t, r) /\ ~Checked(t, r)
  BY <1>1 DEF PgInit, PgTypeOK, NoClaim, Claim, Time, Claiming, Checked
<1>. QED BY <1>1, <1>2 DEF PgExclusion, ClaimsHeld

(* Every variable keeps its type over Postgres as well.                    *)
THEOREM PgTypeCorrect == PgSpec => []PgTypeOK
<1>1. PgInit => PgTypeOK
  BY PgInitHolds DEF PgExclusion
<1>2. PgTypeOK /\ [PgNext]_pgVars => PgTypeOK'
  BY PgNextType
<1>. QED BY <1>1, <1>2, PTL DEF PgSpec

(* The inductive invariant of the claim protocol over Postgres: what a     *)
(* delivery relies on, and what a claim between its two statements does.   *)
THEOREM PgExclusionInvariant ==
    ASSUME TimelyHeartbeats
    PROVE  PgSpec => []PgExclusion
<1>1. PgInit => PgExclusion
  BY PgInitHolds
<1>2. PgExclusion /\ [PgNext]_pgVars => PgExclusion'
  <2>. SUFFICES ASSUME PgExclusion, [PgNext]_pgVars PROVE PgExclusion'
    OBVIOUS
  <2>0. PgTypeOK' /\ TypeOK' /\ Exclusion
    BY PgNextType DEF PgExclusion, PgTypeOK
  <2>. SUFFICES Exclusion' /\ ClaimsHeld'
    BY <2>0 DEF PgExclusion
  <2>1. ASSUME NEW t \in Tick, NEW r \in Row, PgClaimStep(t, r)
        PROVE  Exclusion' /\ ClaimsHeld'
    BY <2>0, <2>1, ExclusionClaimStep, ExclusionGranted, ClaimsClaim
  <2>2. ASSUME NEW t \in Tick, PgCrash(t) \/ PgExtraTick(t)
        PROVE  Exclusion' /\ ClaimsHeld'
    BY <2>0, <2>2, ExclusionElsewhere, ClaimsElsewhere
  <2>3. ASSUME NEW t \in Tick, PgTick(t), UNCHANGED <<handlerVars, claim>>
        PROVE  Exclusion' /\ ClaimsHeld'
    BY <2>0, <2>3, PgTickIsTick, ExclusionTick, ClaimsTick
  <2>4. CASE PgAdvance /\ UNCHANGED <<handlerVars, claim>>
    BY <2>0, <2>4, ExclusionAdvance, ClaimsAdvance DEF PgAdvance
  <2>5. CASE UserStep /\ UNCHANGED <<tickVars, claim>>
    <3>1. UNCHANGED tickVars
      BY <2>5
    <3>. QED BY <2>0, <2>5, <3>1, ExclusionUser, ClaimsUser
  <2>6. CASE UNCHANGED pgVars
    BY <2>0, <2>6
       DEF pgVars, vars, storeVars, tickVars, PgExclusion, Exclusion, BeatsInFuture,
           DeliveriesHaveRows, LeaseCoversDelivery, RowExclusive, GroupRecorded,
           GroupExclusive, Active, Pending, LeaseLive, ClaimsHeld, Claiming,
           Checked, ClaimUnderWay, JobGroup, LeaseWon
  <2>. QED BY <2>1, <2>2, <2>3, <2>4, <2>5, <2>6 DEF PgNext, PgTick
<1>. QED BY <1>1, <1>2, PTL DEF PgSpec

(* Two claims of one serializeBy group may both win their UPDATE on        *)
(* Postgres, and still no two deliveries of the group run at the same time *)
(* while both rows are pending, as long as a live delivery renews its      *)
(* lease in time.                                                          *)
THEOREM PgGroupsExclusive ==
    ASSUME TimelyHeartbeats
    PROVE  PgSpec => []GroupExclusive
<1>1. PgExclusion => GroupExclusive
  BY DEF PgExclusion, Exclusion
<1>. QED BY <1>1, PgExclusionInvariant, PTL

(* Nor do two ticks deliver one row over Postgres.                         *)
THEOREM PgRowsExclusive ==
    ASSUME TimelyHeartbeats
    PROVE  PgSpec => []RowExclusive
<1>1. PgExclusion => RowExclusive
  BY DEF PgExclusion, Exclusion
<1>. QED BY <1>1, PgExclusionInvariant, PTL
=============================================================================
