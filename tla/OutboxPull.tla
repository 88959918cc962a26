----------------------------- MODULE OutboxPull -----------------------------
(***************************************************************************)
(* A client that catches up (GET /outbox, server/handlers/outbox.js) while *)
(* deliveries write.  A page is the first unconfirmed rows after a cursor, *)
(* and hasMore says whether the page was full.  Any attempt may record a   *)
(* batch and mark any part of it between two pages: how an attempt comes   *)
(* to that is the business of module Fire.                                 *)
(***************************************************************************)
EXTENDS Outbox

CONSTANT PageSize       \* limit

ASSUME PageSizePositive == PageSize \in Nat \ {0}

VARIABLE pull           \* the client's paging

pullVars == <<outbox, seq, pull>>

Pull == [on     : BOOLEAN,
         cursor : 0..Cardinality(Id),
         got    : SUBSET Id,       \* what this paging has returned
         owed   : SUBSET Id]       \* history: what was waiting when it began

PullTypeOK == OutboxTypeOK /\ pull \in Pull

NotPulling == [on |-> FALSE, cursor |-> 0, got |-> {}, owed |-> {}]

PullInit == OutboxInit /\ pull = NotPulling

Unacked(id) == outbox[id] # NULL /\ ~outbox[id].acked

(* A slip: the cursor is the number of rows seen, as an OFFSET would be.   *)
SkipSeen(cursor) ==
    {id \in Id :
        /\ Unacked(id)
        /\ Cardinality({other \in Id : Unacked(other) /\ outbox[other].seq < outbox[id].seq})
               >= Cardinality(pull.got)}

Beyond(cursor) == {id \in Id : Unacked(id) /\ outbox[id].seq > cursor}

(* listUnackedOutbox: ORDER BY id, LIMIT.                                  *)
Page(cursor) ==
    {id \in Beyond(cursor) :
        Cardinality({other \in Beyond(cursor) : outbox[other].seq < outbox[id].seq}) < PageSize}

HasMore(page) == Cardinality(page) = PageSize

Cursor(page) ==
    CHOOSE c \in {pull.cursor} \cup {outbox[id].seq : id \in page} :
        \A id \in page : outbox[id].seq <= c

StartPull ==
    /\ ~pull.on
    /\ pull' = [NotPulling EXCEPT !.on = TRUE, !.owed = {id \in Id : Unacked(id)}]
    /\ UNCHANGED outboxVars

GetPage ==
    /\ pull.on
    /\ LET page == Page(pull.cursor)
       IN pull' = [pull EXCEPT !.on = HasMore(page),
                               !.cursor = Cursor(page),
                               !.got = @ \cup page]
    /\ UNCHANGED outboxVars

RecordOrMark ==
    \E a \in Attempt, path \in Path, n \in 1..MaxPush :
        \/ AppendOutboxMessages(a, path, n)
        \/ \E k \in 1..n : MarkOutboxDelivered(Batch(path, k))

(* A confirmation names messages the client has, so recorded ones.         *)
Confirm == \E ids \in SUBSET {id \in Id : outbox[id] # NULL} : AckOutboxMessages(ids)

Writes == RecordOrMark /\ UNCHANGED pull

Acks == Confirm /\ UNCHANGED pull

PullNext == StartPull \/ GetPage \/ Writes \/ Acks

PullSpec == PullInit /\ [][PullNext]_pullVars

-----------------------------------------------------------------------------
(* A client that has paged until hasMore is false has got every message    *)
(* that was waiting when it began, or has confirmed it meanwhile, whatever *)
(* was recorded, recorded again or confirmed between two pages.            *)
PullComplete ==
    pull # NotPulling /\ ~pull.on =>
        \A id \in pull.owed : id \in pull.got \/ outbox[id].acked

(* A confirmation is final: no retry brings a message back, and what the   *)
(* client has then read is what stays recorded.                            *)
AckIsFinal ==
    [][\A id \in Id :
         outbox[id] # NULL /\ outbox[id].acked =>
             outbox'[id] # NULL /\ outbox'[id].acked /\ outbox'[id].by = outbox[id].by]_pullVars
=============================================================================
