------------------------------ MODULE TaskStore ------------------------------
(***************************************************************************)
(* The scheduled_messages table of the amsg server, as its D1 adapter      *)
(* (adapters/d1.js) exposes it to the delivery loop and to the HTTP        *)
(* handlers.  One row is one scheduled task.  Every method of the adapter  *)
(* is one SQL statement (createTaskSuperseding: one batch), so each of     *)
(* them is one atomic change of the table here.                            *)
(*                                                                         *)
(* Instants are natural numbers read from the single clock `now'.  Row     *)
(* identifiers are never reused (AUTOINCREMENT), so a row that was deleted *)
(* keeps its last columns as a tombstone: "delivered" when the delivery    *)
(* loop removed it, "cancelled" when the user did.  The code never looks   *)
(* at a tombstone.                                                         *)
(***************************************************************************)
EXTENDS Integers, FiniteSets

CONSTANTS
    Row,            \* identifiers of rows that may ever exist
    Group,          \* values serializeBy may return
    NULL,           \* SQL NULL
    Edit,           \* identifiers of PUT /update-message requests
    RecurringRow,   \* rows whose payload says daily or weekly
    GroupOf,        \* what serializeBy returns for each row, or NULL
    FirstAt,        \* firstSendTime each row is created with
    Period          \* distance of two occurrences of a recurring task

Time == Nat

ASSUME NullIsFresh == NULL \notin Nat /\ NULL \notin Group
ASSUME RowsAreTyped ==
    /\ RecurringRow \subseteq Row
    /\ GroupOf \in [Row -> Group \cup {NULL}]
    /\ FirstAt \in [Row -> Time]
ASSUME PeriodIsPositive == Period \in Nat \ {0}

VARIABLES
    now,      \* the clock every isolate and the adapter read (Date.now())
    table     \* table[r]: the row with id r

storeVars == <<now, table>>

Live == {"pending", "sent", "failed"}
Status == Live \cup {"absent", "delivered", "cancelled"}

(* encrypted_payload is abstracted to the set of updates merged into it.   *)
TaskRow == [status          : Status,
            next_send_at    : Time,
            retry_count     : Nat,
            retry_after     : Time \cup {NULL},
            lease_until     : Time \cup {NULL},
            serialize_group : Group \cup {NULL},
            payload         : SUBSET Edit]

TableTypeOK == now \in Time /\ table \in [Row -> TaskRow]

Exists(r) == table[r].status \in Live
Pending(r) == table[r].status = "pending"

(* createTask: a fresh pending row, every optional column NULL.            *)
NewRow(nextSendAt) ==
    [status |-> "pending", next_send_at |-> nextSendAt, retry_count |-> 0,
     retry_after |-> NULL, lease_until |-> NULL, serialize_group |-> NULL,
     payload |-> {}]

(* A slip: a lease that has run out still keeps everybody away.            *)
LeaseFreeOnlyIfNull(r) == table[r].lease_until = NULL

LeaseLive(r) == table[r].lease_until # NULL /\ table[r].lease_until > now
LeaseFree(r) == table[r].lease_until # NULL => table[r].lease_until <= now
BackoffOver(r) == table[r].retry_after # NULL => table[r].retry_after <= now

(* The WHERE clause of getPendingTasks.                                    *)
Due(r) == /\ Pending(r)
          /\ table[r].next_send_at <= now
          /\ LeaseFree(r)
          /\ BackoffOver(r)

(* ORDER BY next_send_at LIMIT n: what getPendingTasks(n) may return.  Ties *)
(* are broken as the engine pleases.                                       *)
PendingTasks(n) ==
    LET due == {r \in Row : Due(r)} IN
    {S \in SUBSET due :
        /\ Cardinality(S) = IF Cardinality(due) < n THEN Cardinality(due) ELSE n
        /\ \A r \in S, q \in due \ S :
              table[r].next_send_at <= table[q].next_send_at}

(* The NOT EXISTS subquery of claimTask: another pending row of the group  *)
(* holds a lease that has not run out.                                     *)
GroupBusy(r, g) ==
    \E busy \in Row \ {r} : /\ table[busy].serialize_group = g
                            /\ Pending(busy)
                            /\ LeaseLive(busy)

(* Slips in the claim's conditions: the lease is not looked at; the        *)
(* instant the snapshot was taken for is not compared.                     *)
ClaimableDespiteLease(r, expectedNextSendAt, g) ==
    /\ Pending(r)
    /\ table[r].next_send_at = expectedNextSendAt
    /\ g # NULL => ~GroupBusy(r, g)
ClaimableAtAnyInstant(r, expectedNextSendAt, g) ==
    /\ Pending(r)
    /\ LeaseFree(r)
    /\ g # NULL => ~GroupBusy(r, g)

(* The WHERE clause of claimTask.                                          *)
Claimable(r, expectedNextSendAt, g) ==
    /\ Pending(r)
    /\ table[r].next_send_at = expectedNextSendAt
    /\ LeaseFree(r)
    /\ g # NULL => ~GroupBusy(r, g)

(* The SET clause of claimTask: serialize_group is written only when the   *)
(* task takes part in serialization, otherwise the column keeps its value. *)
ClaimTask(r, leaseUntil, g) ==
    table' = [table EXCEPT ![r] =
                [table[r] EXCEPT
                   !.lease_until = leaseUntil,
                   !.serialize_group = IF g # NULL THEN g
                                       ELSE table[r].serialize_group]]

(* A slip: a renewal that does not ask whether the lease is still there.   *)
RenewReleasedLease(r, leaseUntil) ==
    table' = IF Pending(r)
             THEN [table EXCEPT ![r].lease_until = leaseUntil]
             ELSE table

(* renewTaskLease: only a pending row whose lease_until is not NULL.       *)
RenewTaskLease(r, leaseUntil) ==
    table' = IF Pending(r) /\ table[r].lease_until # NULL
             THEN [table EXCEPT ![r].lease_until = leaseUntil]
             ELSE table

(* updateTaskById: addressed by id alone, whatever the status of the row   *)
(* and whoever holds its lease; no row, no effect.                         *)
UpdateTaskById(r, newRow) ==
    table' = IF Exists(r) THEN [table EXCEPT ![r] = newRow] ELSE table

(* deleteTaskById, called by the delivery loop once a message is out.      *)
DeleteTaskById(r) ==
    table' = IF Exists(r) THEN [table EXCEPT ![r].status = "delivered"] ELSE table

(* deleteTaskByUuid, called for the user: any status, lease or no lease.   *)
DeleteTaskByUuid(r) ==
    table' = [table EXCEPT ![r].status = "cancelled"]


(* nextFutureOccurrence: the nominal instant plus a positive number of     *)
(* periods, the first such instant in the future.                          *)
NextFutureOccurrence(occurrence) ==
    occurrence + Period * (1 + (IF now > occurrence
                                THEN (now - occurrence) \div Period
                                ELSE 0))
=============================================================================
