------------------------------- MODULE Outbox -------------------------------
(***************************************************************************)
(* The message outbox: the message_outbox table of the D1 adapter and the  *)
(* statements on it (server/lib/outbox-store.js, server/handlers/          *)
(* outbox.js).  Every push is recorded before it is sent, so that a client *)
(* can catch up on what it missed.  A retry of the same occurrence uses    *)
(* the same message ids.                                                   *)
(***************************************************************************)
EXTENDS Integers, FiniteSets

CONSTANTS
    MaxAttempts,    \* how often one occurrence may be delivered
    MaxPush,        \* pushes of one batch
    Path,           \* families of ids: "plain" is msg_..._<i>, "hook" is msg_..._hook_<i>
    NULL

ASSUME OutboxConstants ==
    /\ MaxAttempts \in Nat \ {0}
    /\ MaxPush \in Nat \ {0}
    /\ Path \subseteq {"plain", "hook"}

Attempt == 1..MaxAttempts

Id == Path \X (1..MaxPush)

VARIABLES
    outbox,     \* outbox[id]: the row of a message, or NULL
    seq         \* AUTOINCREMENT of the table; gaps in it would tell nothing

outboxVars == <<outbox, seq>>

(* `by' stands for the payload: the attempt that wrote it.                 *)
Row == [seq : 1..Cardinality(Id), by : Attempt, delivered : BOOLEAN, acked : BOOLEAN]

ASSUME NullIsNoRow == NULL \notin Row

OutboxTypeOK ==
    /\ outbox \in [Id -> Row \cup {NULL}]
    /\ seq \in 0..Cardinality(Id)

OutboxInit ==
    /\ outbox = [id \in Id |-> NULL]
    /\ seq = 0

Batch(path, n) == {path} \X (1..n)

Fresh(path, n) == {i \in 1..n : outbox[<<path, i>>] = NULL}

(* A slip: a confirmed message is written again.                           *)
WrittenAgain(row, a) == [row EXCEPT !.by = a, !.delivered = FALSE]

(* ON CONFLICT: a row the client has acknowledged stays as it is.          *)
Rewritten(row, a) ==
    IF row.acked THEN row ELSE [row EXCEPT !.by = a, !.delivered = FALSE]

AppendOutboxMessages(a, path, n) ==
    /\ outbox' = [id \in Id |->
          IF id \notin Batch(path, n) THEN outbox[id]
          ELSE IF outbox[id] # NULL THEN Rewritten(outbox[id], a)
          ELSE [seq |-> seq + Cardinality({i \in Fresh(path, n) : i <= id[2]}),
                by |-> a, delivered |-> FALSE, acked |-> FALSE]]
    /\ seq' = seq + Cardinality(Fresh(path, n))

MarkOutboxDelivered(ids) ==
    /\ outbox' = [id \in Id |->
          IF id \in ids /\ outbox[id] # NULL THEN [outbox[id] EXCEPT !.delivered = TRUE]
          ELSE outbox[id]]
    /\ UNCHANGED seq

(* The client confirms messages that reached it, by push or by pull; those  *)
(* it has confirmed before stay confirmed.                                 *)
AckOutboxMessages(ids) ==
    /\ outbox' = [id \in Id |->
          IF id \in ids /\ outbox[id] # NULL THEN [outbox[id] EXCEPT !.acked = TRUE]
          ELSE outbox[id]]
    /\ UNCHANGED seq
=============================================================================
