---------------------------- MODULE TaskHandlers ----------------------------
(***************************************************************************)
(* The HTTP handlers through which a user creates, changes and cancels     *)
(* scheduled tasks while ticks are running: POST /schedule-message (with   *)
(* and without supersedesUuid), PUT /update-message, DELETE                *)
(* /cancel-message.  None of them looks at lease_until.                    *)
(***************************************************************************)
EXTENDS RunTick

CONSTANTS
    SchedulableRow,  \* rows the user may create while ticks are running
    CancellableRow,  \* rows the user may cancel or replace
    ReschedulePeriod \* PUT with nextSendAt moves the task this far ahead

ASSUME HandlerConstants ==
    /\ SchedulableRow \subseteq Row
    /\ CancellableRow \subseteq Row
    /\ ReschedulePeriod \in Nat

VARIABLES
    put,   \* put[e]: how far the PUT request e has come
    raced  \* history: updates written while a tick held the row

handlerVars == <<put, raced>>

PutRequest == [pc      : {"idle", "read", "accepted", "conflict"},
               row     : Row \cup {NULL},
               payload : SUBSET Edit]
NoPut == [pc |-> "idle", row |-> NULL, payload |-> {}]

HandlersTypeOK == put \in [Edit -> PutRequest] /\ raced \subseteq Edit

HandlersInit == put = [e \in Edit |-> NoPut] /\ raced = {}

(* Some tick works from a snapshot of the row.                             *)
Held(r) == \E t \in Tick : job[t][r].pc # "none"

(* When a new task may first be due: firstSendTime, which must lie in the  *)
(* future, or at once when the request says immediate.                     *)
SendTimes(r) == {now} \cup {at \in {FirstAt[r]} : at > now}

(* POST /schedule-message.                                                 *)
Schedule(r) ==
    /\ r \in SchedulableRow
    /\ table[r].status = "absent"
    /\ \E at \in SendTimes(r) : table' = [table EXCEPT ![r] = NewRow(at)]
    /\ UNCHANGED <<now, historyVars, handlerVars>>

(* POST /schedule-message with supersedesUuid: one batch deletes the old   *)
(* row, if it is still there, and inserts the new one.                     *)
Supersede(old, r) ==
    /\ old # r
    /\ old \in CancellableRow
    /\ table[old].status # "absent"
    /\ r \in SchedulableRow
    /\ table[r].status = "absent"
    /\ \E at \in SendTimes(r) :
          table' = [table EXCEPT
                      ![old].status = IF Exists(old) THEN "cancelled" ELSE @,
                      ![r] = NewRow(at)]
    /\ UNCHANGED <<now, historyVars, handlerVars>>

(* DELETE /cancel-message: 404 when there is no row, else the row is gone. *)
Cancel(r) ==
    /\ r \in CancellableRow
    /\ Exists(r)
    /\ DeleteTaskByUuid(r)
    /\ UNCHANGED <<now, historyVars, handlerVars>>

(* PUT /update-message reads the pending row, decrypts and merges...       *)
UpdateRead(e, r) ==
    /\ put[e].pc = "idle"
    /\ Pending(r)
    /\ put' = [put EXCEPT ![e] = [pc |-> "read", row |-> r,
                                  payload |-> table[r].payload \cup {e}]]
    /\ UNCHANGED <<storeVars, historyVars, raced>>

(* The row an update leaves behind: "an update is a fresh start", so the   *)
(* retry state is cleared; and a slip that keeps the retries made so far.  *)
UpdatedInPlace(row, payload, nextSendAt) ==
    [row EXCEPT !.payload = payload, !.next_send_at = nextSendAt]
Updated(row, payload, nextSendAt) ==
    [row EXCEPT !.payload = payload, !.retry_count = 0, !.retry_after = NULL,
                !.next_send_at = nextSendAt]

(* ... and writes the merged payload back, if the row is still pending,    *)
(* whoever is delivering it or has written it since; next_send_at changes  *)
(* when the request says so.  The attempts of a delivery under way go on   *)
(* being counted.                                                          *)
UpdateWrite(e) ==
    LET r == put[e].row IN
    /\ put[e].pc = "read"
    /\ \/ /\ Pending(r)
          /\ \E nextSendAt \in {table[r].next_send_at, now + ReschedulePeriod} :
                table' = [table EXCEPT ![r] =
                            Updated(table[r], put[e].payload, nextSendAt)]
          /\ attempts' = IF Held(r) THEN attempts ELSE [attempts EXCEPT ![r] = 0]
          /\ raced' = IF Held(r) THEN raced \cup {e} ELSE raced
          /\ put' = [put EXCEPT ![e].pc = "accepted"]
       \/ /\ ~Pending(r)
          /\ put' = [put EXCEPT ![e].pc = "conflict"]
          /\ UNCHANGED <<table, attempts, raced>>
    /\ UNCHANGED <<now, delivered, faulted, settled, abandoned>>

(* One statement of a user's request; the ticks hold on to what they have  *)
(* (TaskService).                                                          *)
UserStep ==
    \/ \E r \in Row : Schedule(r) \/ Cancel(r)
    \/ \E old, r \in Row : Supersede(old, r)
    \/ \E e \in Edit, r \in Row : UpdateRead(e, r)
    \/ \E e \in Edit : UpdateWrite(e)
=============================================================================
