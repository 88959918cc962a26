----------------------------- MODULE FollowUps ------------------------------
(***************************************************************************)
(* Tasks that a fire schedules, renews and cancels (scheduleTask,          *)
(* renewTask and cancelTask of server/lib/agentic-fire.js) while the loop  *)
(* runs other fires and the user cancels.  A hook may have several calls   *)
(* under way at once.  A fire that fails runs again from the start; the    *)
(* host then asks for the same follow-ups, because it derives their uuids  *)
(* from the task and its occurrence.                                       *)
(***************************************************************************)
EXTENDS Integers, FiniteSets

CONSTANTS
    Task,        \* uuids
    Root,        \* tasks the user has scheduled
    Parent,      \* Parent[u]: the task whose fires ask for u
    Depth,       \* Depth[u]: how many links below a root
    Slot,        \* fires under way at the same time
    Call,        \* calls one fire has under way at the same time
    NULL,        \* no task
    Quota,       \* maxScheduledTasksPerFire
    Lead,        \* MIN_SCHEDULE_LEAD_MS
    Backoff,     \* until a failed fire runs again
    MaxRetries,
    MaxFaults,
    MaxTime,
    Ahead        \* how far ahead a host asks for a task

ASSUME FollowUpConstants ==
    /\ IsFiniteSet(Call) /\ Root \subseteq Task /\ NULL \notin Task
    /\ Parent \in [Task \ Root -> Task]
    /\ Depth \in [Task -> Nat]
    /\ \A u \in Root : Depth[u] = 0
    /\ \A u \in Task \ Root : Depth[u] = Depth[Parent[u]] + 1
    /\ Quota \in Nat /\ Lead \in Nat \ {0} /\ Backoff \in Nat
    /\ MaxRetries \in Nat /\ MaxFaults \in Nat /\ MaxTime \in Nat
    /\ Ahead \in Nat

VARIABLES
    row,       \* row[u]: the row with uuid u in scheduled_messages
    fire,      \* fire[s]: runAgenticFire
    call,      \* call[s][c]: what the hooks of that fire have under way
    now,
    faults

vars == <<row, fire, call, now, faults>>

Row == [status : {"absent", "pending", "failed", "gone"},
        id     : Nat,            \* which row of that uuid it is
        at     : Nat,            \* next_send_at
        after  : Nat,            \* retry_after
        tries  : 0..MaxRetries]  \* retry_count

Fire == [task  : Task \cup {NULL},
         id    : Nat,
         tries : 0..MaxRetries,  \* retry_count when it was read
         used  : Nat,            \* scheduledTaskCount
         made  : Nat]            \* history: rows it has created

Statement == [op : {"insert", "update"}, uuid : Task, at : Nat]
NoCall == [op |-> "none"]
NoFire == [task |-> NULL, id |-> 0, tries |-> 0, used |-> 0, made |-> 0]

TypeOK ==
    /\ row \in [Task -> Row]
    /\ fire \in [Slot -> Fire]
    /\ call \in [Slot -> [Call -> Statement \cup {NoCall}]]
    /\ now \in Nat /\ faults \in Nat

Init ==
    /\ row = [u \in Task |->
                [status |-> IF u \in Root THEN "pending" ELSE "absent",
                 id |-> IF u \in Root THEN 1 ELSE 0, at |-> 0, after |-> 0, tries |-> 0]]
    /\ fire = [s \in Slot |-> NoFire]
    /\ call = [s \in Slot |-> [c \in Call |-> NoCall]]
    /\ now = 0 /\ faults = 0

Exists(u) == row[u].status \in {"pending", "failed"}
Fires(s, p) == p \in Task /\ fire[s].task = p
Free(s, c) == fire[s].task # NULL /\ call[s][c] = NoCall
Awaits(s, c, op) == call[s][c].op = op
Returns(s, c) == call' = [call EXCEPT ![s][c] = NoCall]
Fault == faults < MaxFaults /\ faults' = faults + 1

-----------------------------------------------------------------------------
(* The loop                                                                *)

(* Claimed by one invocation; the counter is new.                          *)
Begin(s, p) ==
    /\ fire[s] = NoFire
    /\ row[p].status = "pending" /\ row[p].at <= now /\ row[p].after <= now
    /\ \A t \in Slot : Fires(t, p) => fire[t].id # row[p].id
    /\ fire' = [fire EXCEPT ![s] = [NoFire EXCEPT !.task = p, !.id = row[p].id,
                                                 !.tries = row[p].tries]]
    /\ UNCHANGED <<row, call, now, faults>>

(* The outcome is written by id, to the row that was fired.                *)
Ended(s, p) ==
    /\ Fires(s, p)
    /\ \A c \in Call : call[s][c] = NoCall
    /\ fire' = [fire EXCEPT ![s] = NoFire]
    /\ UNCHANGED <<call, now, faults>>

OwnRow(s, p) == Exists(p) /\ row[p].id = fire[s].id

(* Sent or skipped: the row is deleted, also if it was renewed meanwhile.  *)
Succeeds(s, p) ==
    /\ Ended(s, p)
    /\ row' = IF OwnRow(s, p) THEN [row EXCEPT ![p].status = "gone"] ELSE row

Fails(s, p) ==
    /\ Ended(s, p)
    /\ row' = IF ~OwnRow(s, p) THEN row
              ELSE IF fire[s].tries < MaxRetries
              THEN [row EXCEPT ![p].tries = fire[s].tries + 1, ![p].after = now + Backoff]
              ELSE [row EXCEPT ![p].status = "failed"]

(* The isolate is gone with all calls; the lease runs out, and the row is  *)
(* fired again.                                                            *)
Crash(s, p) ==
    /\ Fires(s, p)
    /\ Fault
    /\ fire' = [fire EXCEPT ![s] = NoFire]
    /\ call' = [call EXCEPT ![s] = [c \in Call |-> NoCall]]
    /\ UNCHANGED <<row, now>>

-----------------------------------------------------------------------------
(* What the hooks may call                                                 *)

(* A slip: any moment that is not past will do.                            *)
NotPast(s, at) == at >= now

FarEnough(s, at) == at >= now + Lead

(* A slip: a call counts when its row is there.                            *)
CountedLater(s) == fire' = fire

Counted(s) == fire' = [fire EXCEPT ![s].used = @ + 1]

(* scheduleTask: its checks, the quota and the counter are one synchronous *)
(* stretch; a call that is refused changes nothing.                        *)
ScheduleTask(s, c, u, at) ==
    /\ Free(s, c)
    /\ FarEnough(s, at)
    /\ fire[s].used < Quota
    /\ Counted(s)
    /\ call' = [call EXCEPT ![s][c] = [op |-> "insert", uuid |-> u, at |-> at]]
    /\ UNCHANGED <<row, now, faults>>

(* createTask.  The unique index refuses a uuid that is there, whatever    *)
(* its status; the duplicate is answered, with the row as it is read then. *)
CreateTask(s, c) ==
    LET u == call[s][c].uuid
    IN /\ Awaits(s, c, "insert")
       /\ Returns(s, c)
       /\ IF Exists(u) THEN UNCHANGED <<row, fire>>
          ELSE /\ row' = [row EXCEPT ![u] =
                            [status |-> "pending", id |-> row[u].id + 1,
                             at |-> call[s][c].at, after |-> 0, tries |-> 0]]
               /\ fire' = [fire EXCEPT ![s].made = @ + 1]
       /\ UNCHANGED <<now, faults>>

(* createTask throws, and scheduleTask with it.                            *)
CreateFails(s, c) ==
    /\ Awaits(s, c, "insert")
    /\ Fault
    /\ Returns(s, c)
    /\ UNCHANGED <<row, fire, now>>

(* A fire neither cancels nor renews itself.                               *)
Others(s) == Task \ {fire[s].task}

CancelTask(s, c, u) ==
    /\ Free(s, c)
    /\ u \in Others(s)
    /\ Exists(u)
    /\ row' = [row EXCEPT ![u].status = "gone"]
    /\ UNCHANGED <<fire, call, now, faults>>

(* renewTask: the checks and the read; not_found ends it here.             *)
RenewTask(s, c, u, at) ==
    /\ Free(s, c)
    /\ u \in Others(s)
    /\ FarEnough(s, at)
    /\ row[u].status = "pending"
    /\ call' = [call EXCEPT ![s][c] = [op |-> "update", uuid |-> u, at |-> at]]
    /\ UNCHANGED <<row, fire, now, faults>>

(* And the write, if a row of that uuid is pending, claimed or not.        *)
UpdateTask(s, c) ==
    LET u == call[s][c].uuid
    IN /\ Awaits(s, c, "update")
       /\ Returns(s, c)
       /\ row' = IF row[u].status # "pending" THEN row
                 ELSE [row EXCEPT ![u].at = call[s][c].at, ![u].after = 0, ![u].tries = 0]
       /\ UNCHANGED <<fire, now, faults>>

-----------------------------------------------------------------------------
(* DELETE /cancel-message.                                                 *)
UserCancels(u) ==
    /\ Exists(u)
    /\ row' = [row EXCEPT ![u].status = "gone"]
    /\ UNCHANGED <<fire, call, now, faults>>

Advance ==
    /\ now < MaxTime
    /\ now' = now + 1
    /\ UNCHANGED <<row, fire, call, faults>>

Loop(s, p) == Begin(s, p) \/ Succeeds(s, p) \/ Fails(s, p) \/ Crash(s, p)

Asks(s, c) ==
    \/ \E u \in Task \ Root, at \in now..(now + Ahead) :
          Parent[u] = fire[s].task /\ ScheduleTask(s, c, u, at)
    \/ \E u \in Task, at \in now..(now + Ahead) : RenewTask(s, c, u, at)
    \/ \E u \in Task : CancelTask(s, c, u)

Answers(s, c) == CreateTask(s, c) \/ CreateFails(s, c) \/ UpdateTask(s, c)

Next ==
    \/ \E s \in Slot, p \in Task : Loop(s, p)
    \/ \E s \in Slot, c \in Call : Asks(s, c) \/ Answers(s, c)
    \/ \E u \in Task : UserCancels(u)
    \/ Advance

Spec == Init /\ [][Next]_vars

-----------------------------------------------------------------------------
(* Properties                                                              *)

(* A fire leaves no more new tasks than its quota, however its calls       *)
(* overlap.                                                                *)
QuotaHolds == \A s \in Slot : fire[s].made <= Quota

(* A chain of tasks that schedule each other runs no faster than one link  *)
(* per lead, whatever is renewed, retried or cancelled on the way.         *)
ChainIsSlow ==
    \A u \in Task : row[u].status = "pending" => row[u].at >= Depth[u] * Lead

(* Does not hold: a fire that is run again schedules a follow-up that has  *)
(* been delivered or cancelled a second time (README, divergences).        *)
ScheduledOnce == \A u \in Task : row[u].id <= 1
=============================================================================
