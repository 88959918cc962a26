---------------------------- MODULE ClientState ----------------------------
(***************************************************************************)
(* The client state store (server/lib/client-state-store.js,               *)
(* server/lib/state-chunks.js, the client_state table of the D1 adapter).  *)
(*                                                                         *)
(* A value of more than 200 KB is cut into slices: its row holds only how  *)
(* many there are, each slice is a row of its own in a namespace the store *)
(* keeps for itself.  A batch deletes the slices its keys had before and   *)
(* puts the new rows, every statement under the guard of its entry; it is  *)
(* one transaction.  A reader fetches the rows and, if one of them is cut, *)
(* the slices, in two queries.  The module follows one namespace.          *)
(***************************************************************************)
EXTENDS Integers, FiniteSets

CONSTANTS
    Key,
    Folded,     \* Folded[k]: the key as LIKE sees it, without its case
    Write,      \* batches that may be sent, by clients and by hooks
    Reader,     \* requests and hooks that read the namespace once
    Guards,     \* instants or versions a write may carry
    Cuts,       \* into how many slices a value may be cut
    BatchSize,  \* MAX_STATE_ENTRIES_PER_BATCH
    NULL, Torn

ASSUME ClientStateConstants ==
    /\ DOMAIN Folded = Key
    /\ Guards \subseteq Nat \ {0}
    /\ Cuts \subseteq Nat \ {0, 1}
    /\ BatchSize \in Nat \ {0}

VARIABLES
    root,      \* root[k]: the row of a key, or NULL
    chunk,     \* chunk[k][i]: the row of its slice i, or NULL
    reader,    \* reader[r]: the read of r
    sent,      \* sent[w]: what the batch held, once it was sent
    answer     \* answer[w]: what the writer was told of each key

vars == <<root, chunk, reader, sent, answer>>

(* Slices are numbered from 0; a value that is not cut has none.           *)
Slice == UNION {0..(n - 1) : n \in Cuts}

(* `by' and `of' stand for the text: whose value it is, and how many       *)
(* slices that has.                                                        *)
Row == [by : Write, of : {0} \cup Cuts, at : Guards]

Entry == [deleted : BOOLEAN, of : {0} \cup Cuts, at : Guards]
Batch == {b \in [Key -> Entry \cup {NULL}] :
            /\ Cardinality({k \in Key : b[k] # NULL}) \in 1..BatchSize
            /\ \A k \in Key : b[k] # NULL => (b[k].deleted => b[k].of = 0)}

ASSUME NullIsNothing ==
    /\ NULL \notin Write /\ Torn \notin Write /\ Torn # NULL
    /\ NULL \notin Row /\ NULL \notin Entry /\ NULL \notin Batch
    /\ NULL \notin [by : Write, at : Guards]

Read == [pc      : {"idle", "rows", "done"},
         rows    : [Key -> Row \cup {NULL}],
         result  : [Key -> Write \cup {NULL, Torn}],
         touched : SUBSET Key]     \* history: keys changed during the read

TypeOK ==
    /\ root \in [Key -> Row \cup {NULL}]
    /\ chunk \in [Key -> [Slice -> Row \cup {NULL}]]
    /\ reader \in [Reader -> Read]
    /\ sent \in [Write -> Batch \cup {NULL}]
    /\ answer \in [Write -> [Key -> {"none", "upserted", "skipped"}]]

Nothing == [k \in Key |-> NULL]

Init ==
    /\ root = Nothing
    /\ chunk = [k \in Key |-> [i \in Slice |-> NULL]]
    /\ reader = [r \in Reader |->
                   [pc |-> "idle", rows |-> Nothing, result |-> Nothing, touched |-> {}]]
    /\ sent = [w \in Write |-> NULL]
    /\ answer = [w \in Write |-> [k \in Key |-> "none"]]

-----------------------------------------------------------------------------
(* Writing                                                                 *)

(* A slip: the guard does not protect what is there.                       *)
Always(row, at) == row # NULL
OlderOrSame(row, at) == row # NULL /\ row.at <= at

(* The keys whose slices the pattern of k matches.                         *)
Matching(k) == {l \in Key : Folded[l] = Folded[k]}

(* A slip: slices are not deleted.                                         *)
NoneRemoved(batch, l, i) == FALSE

(* CLEANUP_PREFIX_SQL and CLEANUP_KEY_SQL, before anything is put.         *)
SliceRemoved(batch, l, i) ==
    \E k \in Key :
        /\ batch[k] # NULL
        /\ l \in Matching(k)
        /\ OlderOrSame(chunk[l][i], batch[k].at)
RootRemoved(batch, k) ==
    batch[k] # NULL /\ batch[k].deleted /\ OlderOrSame(root[k], batch[k].at)

(* UPSERT_SQL on a row, unless a newer one is there.                       *)
Upserted(row, w, entry) ==
    IF row = NULL \/ OlderOrSame(row, entry.at)
    THEN [by |-> w, of |-> entry.of, at |-> entry.at]
    ELSE row

SliceAfter(w, batch, k, i) ==
    LET left == IF SliceRemoved(batch, k, i) THEN NULL ELSE chunk[k][i]
    IN IF batch[k] # NULL /\ i < batch[k].of THEN Upserted(left, w, batch[k]) ELSE left

RootAfter(w, batch, k) ==
    LET left == IF RootRemoved(batch, k) THEN NULL ELSE root[k]
    IN IF batch[k] # NULL /\ ~batch[k].deleted THEN Upserted(left, w, batch[k]) ELSE left

(* A slip: it counts an entry any row of which was put.                    *)
AnyRowAnswer(w, batch, k) ==
    IF batch[k] = NULL \/ batch[k].deleted THEN "none"
    ELSE IF \/ root[k] = NULL \/ OlderOrSame(root[k], batch[k].at)
            \/ \E i \in Slice : SliceAfter(w, batch, k, i) # chunk[k][i]
         THEN "upserted"
    ELSE "skipped"

(* The answer counts an entry by its own row, not by its slices.           *)
Answer(w, batch, k) ==
    IF batch[k] = NULL \/ batch[k].deleted THEN "none"
    ELSE IF root[k] = NULL \/ OlderOrSame(root[k], batch[k].at) THEN "upserted"
    ELSE "skipped"

Changed(k) == root'[k] # root[k] \/ chunk'[k] # chunk[k]

(* What a reader between its two queries is going to see changed.          *)
Touch ==
    reader' = [r \in Reader |->
                 IF reader[r].pc = "rows"
                 THEN [reader[r] EXCEPT !.touched = @ \cup {k \in Key : Changed(k)}]
                 ELSE reader[r]]

UpsertClientState(w, batch) ==
    /\ sent[w] = NULL
    /\ sent' = [sent EXCEPT ![w] = batch]
    /\ root' = [k \in Key |-> RootAfter(w, batch, k)]
    /\ chunk' = [k \in Key |-> [i \in Slice |-> SliceAfter(w, batch, k, i)]]
    /\ answer' = [answer EXCEPT ![w] = [k \in Key |-> Answer(w, batch, k)]]
    /\ Touch

ClearClientState ==
    /\ root' = Nothing
    /\ chunk' = [k \in Key |-> [i \in Slice |-> NULL]]
    /\ Touch
    /\ UNCHANGED <<sent, answer>>

-----------------------------------------------------------------------------
(* Reading                                                                 *)

(* A slip: slices are put together whatever their guards.                  *)
Present(k, row, i) == chunk[k][i] # NULL
Fitting(k, row, i) == chunk[k][i] # NULL /\ chunk[k][i].at = row.at

(* resolveClientStateEntries for one key: whose value it makes of the row  *)
(* and the slices; Torn if it joins slices of several, or some of one.     *)
Resolved(k, row) ==
    IF row = NULL THEN NULL
    ELSE IF \E i \in Slice : i < row.of /\ ~Fitting(k, row, i) THEN NULL
    ELSE IF \A i \in Slice : i < row.of =>
               chunk[k][i].by = row.by /\ chunk[k][i].of = row.of
         THEN row.by
         ELSE Torn

Uncut(k) == root[k] = NULL \/ root[k].of = 0

GetRows(r) ==
    /\ reader[r].pc = "idle"
    /\ reader' = [reader EXCEPT ![r] =
         IF \A k \in Key : Uncut(k)
         THEN [@ EXCEPT !.pc = "done", !.result = [k \in Key |-> Resolved(k, root[k])]]
         ELSE [@ EXCEPT !.pc = "rows", !.rows = root]]
    /\ UNCHANGED <<root, chunk, sent, answer>>

GetSlices(r) ==
    /\ reader[r].pc = "rows"
    /\ reader' = [reader EXCEPT ![r] =
         [@ EXCEPT !.pc = "done", !.rows = Nothing,
                   !.result = [k \in Key |-> Resolved(k, reader[r].rows[k])]]]
    /\ UNCHANGED <<root, chunk, sent, answer>>

Next ==
    \/ \E w \in Write, batch \in Batch : UpsertClientState(w, batch)
    \/ ClearClientState
    \/ \E r \in Reader : GetRows(r) \/ GetSlices(r)

Spec == Init /\ [][Next]_vars

-----------------------------------------------------------------------------
(* Properties                                                              *)

(* What a read would find now.                                             *)
Stored ==
    [k \in Key |->
       IF Resolved(k, root[k]) \in Write THEN [by |-> root[k].by, at |-> root[k].at]
       ELSE NULL]

LWW == INSTANCE LastWriterWins WITH value <- Stored

(* Cut or not, stored in how many rows ever and cleaned up by whomever,    *)
(* each key behaves as one value that the newest write has set.            *)
ImplementsLWW == LWW!Spec

(* state-accessors.js: a reader never gets half a value, or one put        *)
(* together from two: unless a guard was used twice.                       *)
SameGuard(v, w, k) ==
    /\ sent[v] # NULL /\ sent[w] # NULL
    /\ sent[v][k] # NULL /\ sent[w][k] # NULL /\ sent[v][k].at = sent[w][k].at
ReadWhole ==
    \A r \in Reader, k \in Key : reader[r].result[k] = Torn =>
        \E v, w \in Write : v # w /\ SameGuard(v, w, k)

(* What callers are told is true.  A writer whose entry counts as written  *)
(* has its value stored, and one whose entry was skipped was forestalled   *)
(* by a newer one; a reader finds every value nobody touched meanwhile.    *)
AnswersTrue ==
    [][/\ \A w \in Write, k \in Key :
            answer[w] # answer'[w] =>
              /\ answer'[w][k] = "upserted"
                   => Stored'[k] = [by |-> w, at |-> sent'[w][k].at]
              /\ answer'[w][k] = "skipped"
                   => Stored'[k] # NULL /\ Stored'[k].at > sent'[w][k].at
       /\ \A r \in Reader, k \in Key :
            /\ reader[r].pc # "done" /\ reader'[r].pc = "done"
            /\ root[k] # NULL /\ k \notin reader[r].touched
            => reader'[r].result[k] = root[k].by]_vars

(* A key that is gone leaves no slices behind.                             *)
NothingLeftBehind ==
    \A k \in Key : root[k] = NULL => \A i \in Slice : chunk[k][i] = NULL

(* Holds only if no two keys differ in case only: the pattern of the       *)
(* delete matches the slices of both (README, divergences).                *)
SlicesKept ==
    \A k \in Key : root[k] # NULL =>
        \A i \in Slice : i < root[k].of => Fitting(k, root[k], i)
=============================================================================
