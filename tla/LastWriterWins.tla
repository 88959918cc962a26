--------------------------- MODULE LastWriterWins ---------------------------
(***************************************************************************)
(* What the client state store promises: for each key, one value, that of  *)
(* the newest write.  Newer is decided by the guard a write carries, not   *)
(* by the order in which writes arrive; of two with the same guard the one *)
(* that arrives later wins.  A batch of writes takes effect at once.       *)
(***************************************************************************)
EXTENDS Integers

CONSTANTS
    Key,
    Write,      \* batches of writes
    Batch,      \* what one may hold: for each key an entry, or NULL
    NULL

VARIABLES
    value,      \* value[k]: the write that holds and its guard, or NULL
    sent        \* sent[w]: the batch, once it has taken effect

Init ==
    /\ value = [k \in Key |-> NULL]
    /\ sent = [w \in Write |-> NULL]

(* What a batch makes of a value: nothing if the value is newer.           *)
After(w, entry, old) ==
    IF entry = NULL \/ (old # NULL /\ old.at > entry.at) THEN old
    ELSE IF entry.deleted THEN NULL
    ELSE [by |-> w, at |-> entry.at]

Commit(w) ==
    /\ sent[w] = NULL
    /\ sent'[w] \in Batch
    /\ sent' = [sent EXCEPT ![w] = sent'[w]]
    /\ value' = [k \in Key |-> After(w, sent'[w][k], value[k])]

Clear ==
    /\ value' = [k \in Key |-> NULL]
    /\ UNCHANGED sent

Next == Clear \/ \E w \in Write : Commit(w)

Spec == Init /\ [][Next]_<<value, sent>>
=============================================================================
