----------------------------- MODULE TaskService -----------------------------
(***************************************************************************)
(* The scheduled-message service: overlapping ticks (RunTick) and the HTTP *)
(* handlers (TaskHandlers) over one table (TaskStore).                     *)
(***************************************************************************)
EXTENDS TaskHandlers

CONSTANT InitialTables    \* sets of rows that may exist from the start

ASSUME InitialRowsAreRows == InitialTables \subseteq SUBSET Row

vars == <<storeVars, tickVars, historyVars, handlerVars>>

Init ==
    /\ now = 0
    /\ \E initial \in InitialTables :
          table = [r \in Row |->
                     IF r \in initial THEN NewRow(FirstAt[r])
                     ELSE [NewRow(FirstAt[r]) EXCEPT !.status = "absent"]]
    /\ RunTickInit
    /\ HandlersInit

Next ==
    \/ \E t \in Tick : TickStep(t) /\ UNCHANGED handlerVars
    \/ Advance /\ UNCHANGED handlerVars
    \/ UserStep /\ UNCHANGED tickVars

Spec == Init /\ [][Next]_vars

TypeOK == RunTickTypeOK /\ HandlersTypeOK

-----------------------------------------------------------------------------
(* Properties                                                              *)

(* The claim promises that while one tick delivers a row no other tick can *)
(* claim it: two live deliveries never share a row, as long as heartbeats  *)
(* keep up -- through crashes, failed writes, updates and late renewals    *)
(* of earlier owners.                                                      *)
RowExclusive ==
    \A r \in Row, s, t \in Tick : Active(s, r) /\ Active(t, r) => s = t

(* Why it holds: a row somebody is delivering is leased beyond the present *)
(* or has left the pending state, and so cannot be claimed.                *)
LeaseCoversDelivery ==
    \A r \in Row, t \in Tick : Active(t, r) /\ Pending(r) => LeaseLive(r)

(* serializeBy: two deliveries of one group never run at the same time     *)
(* while both their rows are still in the table.                           *)
GroupExclusive ==
    \A q, r \in Row, s, t \in Tick :
        /\ q # r /\ GroupOf[q] # NULL /\ GroupOf[q] = GroupOf[r]
        /\ Active(s, q) /\ Active(t, r)
        /\ job[s][q].readable /\ job[t][r].readable
        => ~(Pending(q) /\ Pending(r))

(* A late renewal must not bring a released lease back: a live lease on a  *)
(* pending row belongs to a delivery in progress, or was left behind by a  *)
(* crash or a failed write.                                                *)
NoGhostLease ==
    \A r \in Row : Pending(r) /\ LeaseLive(r)
                     => r \in abandoned \/ \E t \in Tick : Active(t, r)

(* An occurrence whose pushes went out is not sent again, unless recording *)
(* that outcome was cut short by a crash or a failing database.            *)
NoUnprovokedResend ==
    [][\A t \in Tick, r \in Row :
          LET occurrence == <<r, job[t][r].next_send_at>> IN
          /\ job[t][r].pc = "sending"
          /\ job'[t][r].pc = "sent"
          /\ occurrence \in delivered
          => occurrence \in faulted]_vars

(* An occurrence is given up only after the first attempt and MaxRetries   *)
(* retries have really been made since the task was created or updated.    *)
(* An update that falls into a delivery does not start the count anew.     *)
GiveUpEarned ==
    \A s \in settled : s.how = "exhausted" => s.attempts > MaxRetries

(* A task is not reported as failed once its pushes went out, unless the   *)
(* outcome could not be recorded.                                          *)
FailedNotDelivered ==
    \A r \in Row : LET occurrence == <<r, table[r].next_send_at>> IN
        table[r].status = "failed" /\ occurrence \in delivered
            => occurrence \in faulted

(* An update was written while a tick held the row.                        *)
Raced(r) == \E e \in raced : put[e].row = r

(* The delivery loop removes a row only when the occurrence the row stands *)
(* for has been delivered: no schedule is dropped unsent, except that a    *)
(* task moved while a tick holds it may go with the occurrence that tick   *)
(* has delivered.                                                          *)
RemovedOnlyIfDelivered ==
    \A r \in Row : table[r].status \in {"delivered", "sent"} =>
        \E sent \in delivered :
            sent[1] = r /\ (sent[2] = table[r].next_send_at \/ Raced(r))

(* Two PUT requests for a row of which neither has seen the other's change.*)
Concurrent(e, f) ==
    /\ put[e].row = put[f].row
    /\ e \notin put[f].payload
    /\ f \notin put[e].payload

GivenUp(r) == \E s \in settled : s.id = r /\ s.how # "delivered"

(* An update answered with 200 stays in the task, through every retry,     *)
(* every delivery, every fault and every later update.  It can be lost in  *)
(* two ways only: a tick that held the row already when the update was     *)
(* written gave the occurrence up, or another PUT was under way beside it. *)
UpdateKept ==
    \A e \in Edit : put[e].pc = "accepted" =>
        \/ e \in table[put[e].row].payload
        \/ e \in raced /\ GivenUp(put[e].row)
        \/ \E f \in Edit : put[f].pc = "accepted" /\ Concurrent(e, f)

(* What keeps the two exclusions inductive: a delivery has a row, its      *)
(* group is recorded there, and a renewal still under way carries an       *)
(* instant of the future, so that landing late it cannot shorten a lease   *)
(* below now.                                                              *)
DeliveriesHaveRows ==
    \A r \in Row, t \in Tick : Active(t, r) => table[r].status # "absent"

GroupRecorded ==
    \A r \in Row, t \in Tick :
        Active(t, r) /\ job[t][r].readable /\ GroupOf[r] # NULL
            => table[r].serialize_group = GroupOf[r]

BeatsInFuture ==
    \A r \in Row, t \in Tick : beat[t][r] # NULL => beat[t][r] > now

(* The inductive invariant behind RowExclusive and GroupExclusive.         *)
Exclusion ==
    /\ TypeOK
    /\ BeatsInFuture
    /\ DeliveriesHaveRows
    /\ LeaseCoversDelivery
    /\ RowExclusive
    /\ GroupRecorded
    /\ GroupExclusive

(* What keeps the outcomes of a row right.  A snapshot somebody holds is   *)
(* of a row, and was due.                                                  *)
SnapshotsWereDue(r) ==
    \A t \in Tick : job[t][r].pc # "none" =>
        table[r].status # "absent" /\ job[t][r].next_send_at <= now

(* A delivery is of the occurrence its row stands for, unless an update    *)
(* has moved the row meanwhile, to an occurrence that is not out; only a   *)
(* cancellation takes a row away from it.                                  *)
ClaimsHold(r) ==
    \A t \in Tick : Active(t, r) =>
        /\ table[r].status \in {"pending", "cancelled"}
        /\ Pending(r) => \/ job[t][r].next_send_at = table[r].next_send_at
                         \/ Raced(r) /\ <<r, table[r].next_send_at>> \notin delivered

(* retry_count, in the row and in every snapshot that can still be claimed *)
(* or is being delivered, is backed by attempts that were really made.     *)
RetriesCounted(r) ==
    /\ Pending(r) => table[r].retry_count <= attempts[r]
    /\ \A t \in Tick :
          /\ /\ job[t][r].pc = "queued"
             /\ Pending(r)
             /\ job[t][r].next_send_at = table[r].next_send_at
             => job[t][r].retry_count <= attempts[r]
          /\ job[t][r].pc \in {"sending", "unreadable"}
             => job[t][r].retry_count < attempts[r]

SendsWereDue ==
    \A sent \in delivered : sent[2] <= now /\ table[sent[1]].status # "absent"

(* An occurrence that is out is known to be out: by the tick that is about *)
(* to record it, by the row, or by faulted.                                *)
SendsRemembered(r) ==
    LET out(o) == <<r, o>> \in delivered
        lost(o) == <<r, o>> \in faulted IN
    /\ \A t \in Tick : job[t][r].pc = "sent" => out(job[t][r].next_send_at)
    /\ \A t \in Tick :
          job[t][r].pc \in {"sending", "stale", "unreadable"}
            => (out(job[t][r].next_send_at) => lost(job[t][r].next_send_at))
    /\ table[r].status \in {"delivered", "sent"} =>
          \E sent \in delivered :
             sent[1] = r /\ (sent[2] = table[r].next_send_at \/ Raced(r))
    /\ Pending(r) /\ out(table[r].next_send_at)
          => \/ lost(table[r].next_send_at)
             \/ \E t \in Tick : job[t][r].pc = "sent"
    /\ table[r].status = "failed" /\ out(table[r].next_send_at)
          => lost(table[r].next_send_at)

Accepted(e) == put[e].pc = "accepted"

(* A PUT under way is of a row, and carries its own change; what has raced *)
(* was accepted.                                                           *)
UpdatesNameRows ==
    /\ \A e \in raced : Accepted(e)
    /\ \A e \in Edit : put[e].pc # "idle" =>
          /\ put[e].row \in Row
          /\ e \in put[e].payload
          /\ table[put[e].row].status # "absent"

(* Only accepted updates get into a row, and from there into snapshots and *)
(* into other updates.                                                     *)
PayloadsAccepted ==
    /\ \A r \in Row : \A e \in table[r].payload : Accepted(e)
    /\ \A t \in Tick, r \in Row : \A e \in job[t][r].payload : Accepted(e)
    /\ \A f \in Edit : \A e \in put[f].payload : e = f \/ Accepted(e)

(* An accepted update without a concurrent one is in the row and, unless   *)
(* it raced, in every snapshot anybody holds, which could be written back. *)
UpdateHeld(e) ==
    LET r == put[e].row IN
    \/ \E f \in Edit : Accepted(f) /\ Concurrent(e, f)
    \/ /\ e \in table[r].payload \/ (e \in raced /\ GivenUp(r))
       /\ e \notin raced =>
             \A t \in Tick : job[t][r].pc # "none" => e \in job[t][r].payload

(* The inductive invariant behind UpdateKept.                              *)
Updates ==
    /\ TypeOK
    /\ UpdatesNameRows
    /\ PayloadsAccepted
    /\ \A e \in Edit : Accepted(e) => UpdateHeld(e)

(* A lease, live or run out, is somebody's.                                *)
LeasesOwned ==
    \A r \in Row : Pending(r) /\ table[r].lease_until # NULL
                     => r \in abandoned \/ \E t \in Tick : Active(t, r)

RowOutcomes(r) ==
    /\ SnapshotsWereDue(r)
    /\ ClaimsHold(r)
    /\ RetriesCounted(r)
    /\ SendsRemembered(r)

(* The inductive invariant behind the outcomes, when users move a task     *)
(* ahead only: who moves it back to a sent occurrence asks for it again.   *)
Outcomes ==
    /\ Exclusion
    /\ GiveUpEarned
    /\ SendsWereDue
    /\ \A r \in Row : RowOutcomes(r)

(* Every task that waits for its first occurrence is delivered or given up *)
(* on, moves on to its next occurrence, or is cancelled: crashes, failed   *)
(* writes and claims that make way for each other only delay it.           *)
EventuallySettled ==
    \A r \in Row :
        LET waiting == Pending(r) /\ table[r].next_send_at = FirstAt[r] IN
        waiting ~> ~waiting
=============================================================================
