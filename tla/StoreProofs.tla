---------------------------- MODULE StoreProofs ----------------------------
(***************************************************************************)
(* Theorems about the two stores that outlive a request, for every value   *)
(* of their constants.                                                     *)
(*                                                                         *)
(* The client state of the server (ClientState) behaves as one value per   *)
(* key that the newest write has set, provided no two keys look the same   *)
(* to LIKE.  The request outbox of the service worker (RequestQueue, over  *)
(* StoreConnection) gives up a request only after its final answer, lets   *)
(* none overtake an older one, and fails no operation for one dead         *)
(* connection.                                                             *)
(***************************************************************************)
EXTENDS ClientState, RequestQueue, TLAPS

(* No two keys differ in case only.                                        *)
KeysApart == \A k, l \in Key : Folded[k] = Folded[l] => k = l

-----------------------------------------------------------------------------
(* The inductive invariant                                                 *)

StoreType ==
    /\ root \in [Key -> Row \cup {NULL}]
    /\ chunk \in [Key -> [Slice -> Row \cup {NULL}]]

(* No slice is newer than the row of its key, and none is left without it. *)
Covered ==
    \A k \in Key, i \in Slice :
        chunk[k][i] # NULL => root[k] # NULL /\ chunk[k][i].at <= root[k].at

(* A row that says it is cut has its own slices, all of them.              *)
Whole ==
    \A k \in Key : root[k] # NULL =>
        \A i \in Slice : i < root[k].of => chunk[k][i] = root[k]

Store == StoreType /\ Covered /\ Whole

-----------------------------------------------------------------------------
LEMMA StoreInit == ASSUME Init PROVE Store
BY DEF Init, Nothing, Store, StoreType, Covered, Whole

LEMMA BatchEntries ==
    ASSUME NEW batch \in Batch, NEW k \in Key, batch[k] # NULL
    PROVE  /\ batch[k] \in Entry
           /\ batch[k].at \in Nat
           /\ \A w \in Write :
                /\ [by |-> w, of |-> batch[k].of, at |-> batch[k].at] \in Row
                /\ [by |-> w, of |-> batch[k].of, at |-> batch[k].at] # NULL
                /\ [by |-> w, at |-> batch[k].at] # NULL
<1>1. batch[k] \in Entry
    BY DEF Batch
<1>2. batch[k].at \in Guards /\ batch[k].of \in {0} \cup Cuts
    BY <1>1 DEF Entry
<1>3. batch[k].at \in Nat
    BY <1>2, ClientStateConstants
<1>4. ASSUME NEW w \in Write
      PROVE  /\ [by |-> w, of |-> batch[k].of, at |-> batch[k].at] \in Row
             /\ [by |-> w, at |-> batch[k].at] \in [by : Write, at : Guards]
    BY <1>2, <1>4 DEF Row
<1>5. QED BY <1>1, <1>3, <1>4, NullIsNothing

(* The slices a batch deletes are those of its own keys.                   *)
LEMMA OwnSlicesOnly ==
    ASSUME KeysApart, NEW batch, NEW k \in Key, NEW i
    PROVE  SliceRemoved(batch, k, i) <=>
               batch[k] # NULL /\ OlderOrSame(chunk[k][i], batch[k].at)
BY DEF KeysApart, SliceRemoved, Matching

(* What a batch makes of one key.                                          *)
LEMMA KeyStep ==
    ASSUME KeysApart, Store, NEW w \in Write, NEW batch \in Batch,
           UpsertClientState(w, batch), NEW k \in Key
    PROVE  /\ root'[k] \in Row \cup {NULL}
           /\ \A i \in Slice :
                /\ chunk'[k][i] \in Row \cup {NULL}
                /\ chunk'[k][i] # NULL
                     => root'[k] # NULL /\ chunk'[k][i].at <= root'[k].at
                /\ root'[k] # NULL => (i < root'[k].of => chunk'[k][i] = root'[k])
<1> DEFINE new == [by |-> w, of |-> batch[k].of, at |-> batch[k].at]
<1>1. /\ root'[k] = RootAfter(w, batch, k)
      /\ \A i \in Slice : chunk'[k][i] = SliceAfter(w, batch, k, i)
    BY DEF UpsertClientState
<1>2. /\ root[k] \in Row \cup {NULL}
      /\ \A i \in Slice : chunk[k][i] \in Row \cup {NULL}
    BY DEF Store, StoreType
<1>3. /\ root[k] # NULL => root[k].at \in Nat
      /\ \A i \in Slice : chunk[k][i] # NULL => chunk[k][i].at \in Nat
    BY <1>2, ClientStateConstants DEF Row
<1>4. CASE batch[k] = NULL
    <2>1. root'[k] = root[k]
        BY <1>1, <1>4 DEF RootAfter, RootRemoved
    <2>2. \A i \in Slice : chunk'[k][i] = chunk[k][i]
        BY <1>1, <1>4, OwnSlicesOnly DEF SliceAfter
    <2>3. QED BY <1>2, <2>1, <2>2 DEF Store, Covered, Whole
<1>5. CASE batch[k] # NULL
    <2>1. batch[k].at \in Nat /\ new \in Row /\ new # NULL /\ new.at = batch[k].at
        BY <1>5, BatchEntries
    <2>2. \A i \in Slice :
             chunk'[k][i] = IF chunk[k][i] # NULL /\ chunk[k][i].at > batch[k].at
                            THEN chunk[k][i]
                            ELSE IF i < batch[k].of THEN new ELSE NULL
        BY <1>1, <1>3, <1>5, <2>1, OwnSlicesOnly DEF SliceAfter, Upserted, OlderOrSame
    <2>3. root'[k] = IF root[k] # NULL /\ root[k].at > batch[k].at
                     THEN root[k]
                     ELSE IF batch[k].deleted THEN NULL ELSE new
        BY <1>1, <1>3, <1>5, <2>1 DEF RootAfter, RootRemoved, Upserted, OlderOrSame
    <2>4. batch[k].deleted => batch[k].of = 0
        BY <1>5 DEF Batch
    <2>5. CASE root[k] # NULL /\ root[k].at > batch[k].at
        \* The value is newer: so are all of its slices.
        BY <1>2, <1>3, <2>1, <2>2, <2>3, <2>5 DEF Store, Covered, Whole
    <2>6. CASE ~(root[k] # NULL /\ root[k].at > batch[k].at)
        \* The value is not newer: neither is any slice.
        <3>1. \A i \in Slice : chunk'[k][i] = IF i < batch[k].of THEN new ELSE NULL
            BY <1>3, <2>1, <2>2, <2>6 DEF Store, Covered
        <3>2. root'[k] = IF batch[k].deleted THEN NULL ELSE new
            BY <2>3, <2>6
        <3>3. \A i \in Slice : batch[k].deleted => ~(i < batch[k].of)
            BY <2>4, ClientStateConstants DEF Slice
        <3>4. QED BY <2>1, <3>1, <3>2, <3>3
    <2>7. QED BY <2>5, <2>6
<1>6. QED BY <1>4, <1>5

LEMMA StoreStep == ASSUME KeysApart, Store, [Next]_vars PROVE Store'
<1>1. ASSUME NEW w \in Write, NEW batch \in Batch, UpsertClientState(w, batch)
      PROVE  Store'
    <2>1. StoreType'
        BY <1>1, KeyStep DEF UpsertClientState, StoreType
    <2>2. Covered'
        BY <1>1, KeyStep DEF Covered
    <2>3. Whole'
        BY <1>1, KeyStep DEF Whole
    <2>4. QED BY <2>1, <2>2, <2>3 DEF Store
<1>2. CASE ClearClientState
    BY <1>2 DEF ClearClientState, Nothing, Store, StoreType, Covered, Whole
<1>3. ASSUME NEW r \in Reader, GetRows(r) \/ GetSlices(r) PROVE Store'
    BY <1>3 DEF GetRows, GetSlices, Store, StoreType, Covered, Whole
<1>4. CASE UNCHANGED vars
    BY <1>4 DEF vars, Store, StoreType, Covered, Whole
<1>5. QED BY <1>1, <1>2, <1>3, <1>4 DEF Next

-----------------------------------------------------------------------------
(* Refinement                                                              *)

(* What a read would find is what the row of the key says.                 *)
Held(k) == IF root[k] = NULL THEN NULL ELSE [by |-> root[k].by, at |-> root[k].at]

AsHeld == \A k \in Key : Stored[k] = Held(k)

LEMMA StoredIsHeld == Store => AsHeld
<1> SUFFICES ASSUME Store, NEW k \in Key PROVE Stored[k] = Held(k)
    BY DEF AsHeld
<1> USE DEF Held
<1>1. CASE root[k] = NULL
    BY <1>1, NullIsNothing DEF Stored, Resolved
<1>2. CASE root[k] # NULL
    <2>1. root[k] \in Row
        BY <1>2 DEF Store, StoreType
    <2>2. \A i \in Slice : i < root[k].of => chunk[k][i] = root[k]
        BY <1>2 DEF Store, Whole
    <2>3. Resolved(k, root[k]) = root[k].by
        BY <1>2, <2>2 DEF Resolved, Fitting
    <2>4. QED BY <1>2, <2>1, <2>3 DEF Stored, Row
<1>3. QED BY <1>1, <1>2

LEMMA StoredIsHeldNext == Store' => AsHeld'
BY StoredIsHeld, PTL

LEMMA CommitStep ==
    ASSUME KeysApart, Store, NEW w \in Write, NEW batch \in Batch,
           UpsertClientState(w, batch), sent \in [Write -> Batch \cup {NULL}]
    PROVE  LWW!Commit(w)
<1>1. sent[w] = NULL /\ sent'[w] = batch /\ sent' = [sent EXCEPT ![w] = sent'[w]]
    BY DEF UpsertClientState
<1>2. Store'
    BY StoreStep DEF Next
<1>3. ASSUME NEW k \in Key
      PROVE  Stored'[k] = LWW!After(w, batch[k], Stored[k])
    <2>1. Stored'[k] = Held(k)' /\ Stored[k] = Held(k)
        BY <1>2, <1>3, StoredIsHeld, StoredIsHeldNext DEF AsHeld
    <2>2. root'[k] = RootAfter(w, batch, k)
        BY DEF UpsertClientState
    <2>3. root[k] # NULL => /\ root[k].at \in Nat
                            /\ [by |-> root[k].by, at |-> root[k].at] # NULL
        BY NullIsNothing, ClientStateConstants DEF Store, StoreType, Row
    <2>4. CASE batch[k] = NULL
        BY <2>1, <2>2, <2>4 DEF Held, RootAfter, RootRemoved, LWW!After
    <2>5. CASE batch[k] # NULL
        BY <2>1, <2>2, <2>3, <2>5, BatchEntries
           DEF Held, RootAfter, RootRemoved, Upserted, OlderOrSame, LWW!After
    <2>6. QED BY <2>4, <2>5
<1>4. Stored' = [k \in Key |-> LWW!After(w, sent'[w][k], Stored[k])]
    BY <1>1, <1>3 DEF Stored
<1>5. QED BY <1>1, <1>4 DEF LWW!Commit

LEMMA RefinesStep ==
    ASSUME KeysApart, TypeOK, Store, [Next]_vars
    PROVE  [LWW!Next]_<<Stored, sent>>
<1>1. ASSUME NEW w \in Write, NEW batch \in Batch, UpsertClientState(w, batch)
      PROVE  LWW!Next
    BY <1>1, CommitStep DEF LWW!Next, TypeOK
<1>2. CASE ClearClientState
    <2>1. Store' /\ root' = Nothing /\ UNCHANGED sent
        BY <1>2, StoreStep DEF Next, ClearClientState
    <2>2. \A k \in Key : Stored'[k] = NULL
        BY <2>1, StoredIsHeldNext DEF AsHeld, Held, Nothing
    <2>3. Stored' = [k \in Key |-> NULL]
        BY <2>2 DEF Stored
    <2>4. QED BY <2>1, <2>3 DEF LWW!Next, LWW!Clear
<1>3. ASSUME UNCHANGED <<root, chunk, sent>> PROVE UNCHANGED <<Stored, sent>>
    BY <1>3 DEF Stored, Resolved, Fitting
<1>4. ASSUME NEW r \in Reader, GetRows(r) \/ GetSlices(r) PROVE UNCHANGED <<Stored, sent>>
    BY <1>3, <1>4 DEF GetRows, GetSlices
<1>5. CASE UNCHANGED vars
    BY <1>3, <1>5 DEF vars
<1>6. QED BY <1>1, <1>2, <1>4, <1>5 DEF Next

-----------------------------------------------------------------------------
(* Types                                                                   *)

(* A row that is put, or left, is a row.                                   *)
LEMMA RowType ==
    ASSUME NEW w \in Write, NEW batch \in Batch, NEW k \in Key, batch[k] # NULL,
           NEW row \in Row \cup {NULL}
    PROVE  Upserted(row, w, batch[k]) \in Row \cup {NULL}
BY BatchEntries DEF Upserted

LEMMA TouchType ==
    ASSUME TypeOK, Touch PROVE reader' \in [Reader -> Read]
<1>1. ASSUME NEW r \in Reader PROVE reader'[r] \in Read
    <2>1. reader[r] \in Read
        BY DEF TypeOK
    <2>2. CASE reader[r].pc # "rows"
        BY <2>1, <2>2 DEF Touch
    <2>3. CASE reader[r].pc = "rows"
        <3>1. reader'[r] = [reader[r] EXCEPT !.touched = @ \cup {k \in Key : Changed(k)}]
            BY <2>3 DEF Touch
        <3>2. reader[r].touched \cup {k \in Key : Changed(k)} \in SUBSET Key
            BY <2>1 DEF Read
        <3>3. QED BY <2>1, <3>1, <3>2 DEF Read
    <2>4. QED BY <2>2, <2>3
<1>2. QED BY <1>1 DEF Touch

LEMMA ResolvedType ==
    ASSUME NEW k \in Key, NEW row \in Row \cup {NULL}
    PROVE  Resolved(k, row) \in Write \cup {NULL, Torn}
BY DEF Resolved, Row

LEMMA TypeStep == ASSUME TypeOK, [Next]_vars PROVE TypeOK'
<1>1. ASSUME NEW w \in Write, NEW batch \in Batch, UpsertClientState(w, batch)
      PROVE  TypeOK'
    <2>1. \A k \in Key : RootAfter(w, batch, k) \in Row \cup {NULL}
        BY RowType DEF RootAfter, TypeOK
    <2>2. \A k \in Key, i \in Slice : SliceAfter(w, batch, k, i) \in Row \cup {NULL}
        BY RowType DEF SliceAfter, TypeOK
    <2>3. \A k \in Key : Answer(w, batch, k) \in {"none", "upserted", "skipped"}
        BY DEF Answer
    <2>4. sent' \in [Write -> Batch \cup {NULL}]
        BY <1>1 DEF UpsertClientState, TypeOK
    <2>5. answer' \in [Write -> [Key -> {"none", "upserted", "skipped"}]]
        BY <1>1, <2>3 DEF UpsertClientState, TypeOK
    <2>6. QED BY <1>1, <2>1, <2>2, <2>4, <2>5, TouchType DEF UpsertClientState, TypeOK
<1>2. CASE ClearClientState
    BY <1>2, TouchType DEF ClearClientState, Nothing, TypeOK
<1>3. ASSUME NEW r \in Reader, GetRows(r) PROVE TypeOK'
    <2>1. reader[r] \in Read /\ root \in [Key -> Row \cup {NULL}]
        BY DEF TypeOK
    <2>2. [k \in Key |-> Resolved(k, root[k])] \in [Key -> Write \cup {NULL, Torn}]
        BY <2>1, ResolvedType
    <2>3. reader'[r] \in Read /\ reader' = [reader EXCEPT ![r] = reader'[r]]
        <3>1. CASE \A k \in Key : Uncut(k)
            BY <1>3, <2>1, <2>2, <3>1 DEF GetRows, Read, TypeOK
        <3>2. CASE ~ \A k \in Key : Uncut(k)
            BY <1>3, <2>1, <3>2 DEF GetRows, Read, TypeOK
        <3>3. QED BY <3>1, <3>2
    <2>4. QED BY <1>3, <2>3 DEF GetRows, TypeOK
<1>4. ASSUME NEW r \in Reader, GetSlices(r) PROVE TypeOK'
    <2>1. reader[r] \in Read /\ reader[r].rows \in [Key -> Row \cup {NULL}]
        BY DEF TypeOK, Read
    <2>2. [k \in Key |-> Resolved(k, reader[r].rows[k])] \in [Key -> Write \cup {NULL, Torn}]
        BY <2>1, ResolvedType
    <2>3. Nothing \in [Key -> Row \cup {NULL}]
        BY DEF Nothing
    <2>4. reader'[r] \in Read /\ reader' = [reader EXCEPT ![r] = reader'[r]]
        BY <1>4, <2>1, <2>2, <2>3 DEF GetSlices, Read, TypeOK
    <2>5. QED BY <1>4, <2>4 DEF GetSlices, TypeOK
<1>5. CASE UNCHANGED vars
    BY <1>5 DEF vars, TypeOK
<1>6. QED BY <1>1, <1>2, <1>3, <1>4, <1>5 DEF Next

LEMMA TypeInit == ASSUME Init PROVE TypeOK
BY DEF Init, Nothing, TypeOK, Read

-----------------------------------------------------------------------------
(* Every variable keeps its type, whatever LIKE matches.                   *)
THEOREM TypeCorrect == Spec => []TypeOK
<1>1. TypeOK /\ [Next]_vars => TypeOK'
    BY TypeStep
<1>2. QED BY <1>1, TypeInit, PTL DEF Spec

(* The rows and slices of client_state behave as one value per key that    *)
(* the newest write has set, in whatever order batches arrive, if no two   *)
(* keys differ in case only.                                               *)
THEOREM StoreIsLWW == KeysApart => (Spec => ImplementsLWW)
<1> SUFFICES ASSUME KeysApart PROVE Spec => ImplementsLWW
    OBVIOUS
<1>1. Init => TypeOK /\ Store
    BY TypeInit, StoreInit
<1>2. TypeOK /\ Store /\ [Next]_vars => TypeOK' /\ Store'
    BY TypeStep, StoreStep
<1>3. Init => LWW!Init
    BY StoreInit, StoredIsHeld, NullIsNothing
       DEF Init, Nothing, AsHeld, Held, Stored, Resolved, LWW!Init
<1>4. TypeOK /\ Store /\ [Next]_vars => [LWW!Next]_<<Stored, sent>>
    BY RefinesStep
<1>5. QED BY <1>1, <1>2, <1>3, <1>4, PTL DEF Spec, ImplementsLWW, LWW!Spec

(* A key that is gone leaves no slices behind.                             *)
THEOREM SlicesGoWithKey == KeysApart => (Spec => []NothingLeftBehind)
<1> SUFFICES ASSUME KeysApart PROVE Spec => []NothingLeftBehind
    OBVIOUS
<1>1. Store /\ [Next]_vars => Store'
    BY StoreStep
<1>2. Store => NothingLeftBehind
    BY DEF Store, Covered, NothingLeftBehind
<1>3. QED BY <1>1, <1>2, StoreInit, PTL DEF Spec

-----------------------------------------------------------------------------
(* Reading: why a value is whole                                           *)

(* What was sent confirms what a row of k says of itself.                  *)
Signed(s, k, row) ==
    row # NULL => /\ s[row.by] # NULL /\ s[row.by][k] # NULL
                  /\ row.at = s[row.by][k].at /\ row.of = s[row.by][k].of

AllSigned ==
    \A k \in Key :
        /\ Signed(sent, k, root[k])
        /\ \A i \in Slice : Signed(sent, k, chunk[k][i])
        /\ \A r \in Reader : Signed(sent, k, reader[r].rows[k])

(* A batch, once sent, is not sent again: a row stays signed, wherever it  *)
(* is kept.                                                                *)
LEMMA SignedStays ==
    ASSUME TypeOK, [Next]_vars, NEW k \in Key, NEW row \in Row \cup {NULL}, Signed(sent, k, row)
    PROVE  Signed(sent', k, row)
<1>1. \A v \in Write : sent[v] # NULL => sent'[v] = sent[v]
    BY DEF Next, vars, UpsertClientState, ClearClientState, GetRows, GetSlices, TypeOK
<1>2. QED BY <1>1 DEF Signed, Row

LEMMA PutSigned ==
    ASSUME TypeOK, NEW w \in Write, NEW batch \in Batch, UpsertClientState(w, batch),
           NEW k \in Key, batch[k] # NULL, NEW row, Signed(sent', k, row)
    PROVE  Signed(sent', k, Upserted(row, w, batch[k]))
<1>1. sent'[w] = batch /\ batch # NULL
    BY NullIsNothing DEF UpsertClientState, TypeOK
<1>2. QED BY <1>1 DEF Signed, Upserted

LEMMA SignedStep == ASSUME TypeOK, AllSigned, [Next]_vars PROVE AllSigned'
<1> SUFFICES ASSUME NEW k \in Key
             PROVE  /\ Signed(sent', k, root'[k])
                    /\ \A i \in Slice : Signed(sent', k, chunk'[k][i])
                    /\ \A r \in Reader : Signed(sent', k, reader'[r].rows[k])
    BY DEF AllSigned
<1>1. /\ Signed(sent', k, root[k])
      /\ \A i \in Slice : Signed(sent', k, chunk[k][i])
      /\ \A r \in Reader : Signed(sent', k, reader[r].rows[k])
    BY SignedStays DEF AllSigned, TypeOK, Read
<1>2. Signed(sent', k, NULL)
    BY DEF Signed
<1>3. ASSUME NEW w \in Write, NEW batch \in Batch, UpsertClientState(w, batch)
      PROVE  /\ Signed(sent', k, root'[k])
             /\ \A i \in Slice : Signed(sent', k, chunk'[k][i])
    <2>1. Signed(sent', k, RootAfter(w, batch, k))
        BY <1>1, <1>2, <1>3, PutSigned DEF RootAfter
    <2>2. \A i \in Slice : Signed(sent', k, SliceAfter(w, batch, k, i))
        BY <1>1, <1>2, <1>3, PutSigned DEF SliceAfter
    <2>3. QED BY <1>3, <2>1, <2>2 DEF UpsertClientState
<1>4. ASSUME ClearClientState
      PROVE  /\ Signed(sent', k, root'[k])
             /\ \A i \in Slice : Signed(sent', k, chunk'[k][i])
    <2>1. root'[k] = NULL /\ \A i \in Slice : chunk'[k][i] = NULL
        BY <1>4 DEF ClearClientState, Nothing
    <2>2. QED BY <1>2, <2>1
<1>5. (root' = root /\ chunk' = chunk) =>
          /\ Signed(sent', k, root'[k])
          /\ \A i \in Slice : Signed(sent', k, chunk'[k][i])
    BY <1>1
<1>6. \A r \in Reader : reader'[r].rows[k] \in {NULL, root[k], reader[r].rows[k]}
    <2>1. ASSUME Touch, NEW r \in Reader PROVE reader'[r].rows = reader[r].rows
        BY <2>1 DEF Touch, TypeOK, Read
    <2>2. ASSUME NEW q \in Reader, GetRows(q) \/ GetSlices(q), NEW r \in Reader
          PROVE  reader'[r].rows \in {Nothing, root, reader[r].rows}
        <3>1. reader[q] \in Read /\ reader \in [Reader -> Read]
            BY DEF TypeOK
        <3>2. CASE q # r
            BY <2>2, <3>1, <3>2 DEF GetRows, GetSlices
        <3>3. ASSUME q = r, GetRows(q) PROVE reader'[r].rows \in {root, reader[r].rows}
            <4>1. CASE \A l \in Key : Uncut(l)
                BY <3>1, <3>3, <4>1 DEF GetRows, Read
            <4>2. CASE ~ \A l \in Key : Uncut(l)
                BY <3>1, <3>3, <4>2 DEF GetRows, Read
            <4>3. QED BY <4>1, <4>2
        <3>4. ASSUME q = r, GetSlices(q) PROVE reader'[r].rows = Nothing
            BY <3>1, <3>4 DEF GetSlices, Read
        <3>5. QED BY <2>2, <3>2, <3>3, <3>4
    <2>3. QED BY <2>1, <2>2
              DEF Next, vars, UpsertClientState, ClearClientState, Nothing
<1>7. \A r \in Reader : Signed(sent', k, reader'[r].rows[k])
    BY <1>1, <1>2, <1>6
<1>8. QED BY <1>3, <1>4, <1>5, <1>7 DEF Next, vars, GetRows, GetSlices

(* Joined slices of two batches carry one guard.                           *)
LEMMA TornFromTwo ==
    ASSUME TypeOK, AllSigned, NEW k \in Key, NEW row \in Row \cup {NULL},
           Signed(sent, k, row), Resolved(k, row) = Torn
    PROVE  \E v, w \in Write : v # w /\ SameGuard(v, w, k)
<1>1. row \in Row /\ row # NULL
    BY NullIsNothing DEF Resolved
<1>2. row.by # Torn
    BY <1>1, NullIsNothing DEF Row
<1>3. PICK i \in Slice : /\ i < row.of /\ Fitting(k, row, i)
                         /\ ~(chunk[k][i].by = row.by /\ chunk[k][i].of = row.of)
    BY <1>1, <1>2, NullIsNothing DEF Resolved
<1>4. /\ chunk[k][i] \in Row /\ chunk[k][i] # NULL /\ chunk[k][i].at = row.at
      /\ Signed(sent, k, chunk[k][i])
    BY <1>3 DEF Fitting, TypeOK, AllSigned
<1>5. chunk[k][i].by # row.by
    BY <1>1, <1>3, <1>4 DEF Signed
<1>6. SameGuard(chunk[k][i].by, row.by, k)
    BY <1>1, <1>4 DEF Signed, SameGuard
<1>7. QED BY <1>1, <1>4, <1>5, <1>6 DEF Row

LEMMA ReadStep == ASSUME TypeOK, AllSigned, ReadWhole, [Next]_vars PROVE ReadWhole'
<1> SUFFICES ASSUME NEW r \in Reader, NEW k \in Key, reader'[r].result[k] = Torn
             PROVE  \E v, w \in Write : v # w /\ SameGuard(v, w, k)'
    BY DEF ReadWhole
<1>1. ASSUME \E v, w \in Write : v # w /\ SameGuard(v, w, k)
      PROVE  \E v, w \in Write : v # w /\ SameGuard(v, w, k)'
    <2>1. \A v \in Write : sent[v] # NULL => sent'[v] = sent[v]
        BY DEF Next, vars, UpsertClientState, ClearClientState, GetRows, GetSlices, TypeOK
    <2>2. QED BY <1>1, <2>1 DEF SameGuard
<1>2. CASE reader'[r].result = reader[r].result
    BY <1>1, <1>2 DEF ReadWhole
<1>3. ASSUME GetRows(r), reader'[r].result # reader[r].result
      PROVE  \E v, w \in Write : v # w /\ SameGuard(v, w, k)
    <2>1. reader'[r].result = [l \in Key |-> Resolved(l, root[l])]
        BY <1>3 DEF GetRows, TypeOK, Read
    <2>2. QED BY <2>1, TornFromTwo DEF TypeOK, AllSigned
<1>4. ASSUME GetSlices(r)
      PROVE  \E v, w \in Write : v # w /\ SameGuard(v, w, k)
    <2>1. reader'[r].result = [l \in Key |-> Resolved(l, reader[r].rows[l])]
        BY <1>4 DEF GetSlices, TypeOK, Read
    <2>2. reader[r].rows[k] \in Row \cup {NULL} /\ Signed(sent, k, reader[r].rows[k])
        BY DEF TypeOK, Read, AllSigned
    <2>3. QED BY <2>1, <2>2, TornFromTwo
<1>5. ASSUME reader'[r].result # reader[r].result
      PROVE  GetRows(r) \/ GetSlices(r)
    <2>1. ~Touch
        BY <1>5 DEF Touch, TypeOK, Read
    <2>2. PICK q \in Reader : GetRows(q) \/ GetSlices(q)
        BY <1>5, <2>1 DEF Next, vars, UpsertClientState, ClearClientState
    <2>3. q = r
        BY <1>5, <2>2 DEF GetRows, GetSlices, TypeOK
    <2>4. QED BY <2>2, <2>3
<1>6. QED BY <1>1, <1>2, <1>3, <1>4, <1>5

(* A reader never gets half a value, or one put together from two, unless  *)
(* two batches have used one guard for the key: whatever LIKE matches, and *)
(* whatever is written between the two queries.                            *)
THEOREM NeverTorn == Spec => []ReadWhole
<1>1. Init => TypeOK /\ AllSigned /\ ReadWhole
    BY TypeInit, NullIsNothing DEF Init, Nothing, AllSigned, Signed, ReadWhole
<1>2. TypeOK /\ AllSigned /\ ReadWhole /\ [Next]_vars => TypeOK' /\ AllSigned' /\ ReadWhole'
    BY TypeStep, SignedStep, ReadStep
<1>3. QED BY <1>1, <1>2, PTL DEF Spec

-----------------------------------------------------------------------------
(* What callers are told                                                   *)

(* A reader between its two queries holds the row of every key that has    *)
(* not changed since the first.                                            *)
Untouched ==
    \A r \in Reader, k \in Key :
        reader[r].pc = "rows" /\ k \notin reader[r].touched => reader[r].rows[k] = root[k]

LEMMA UntouchedStep == ASSUME TypeOK, Untouched, [Next]_vars PROVE Untouched'
<1> SUFFICES ASSUME NEW r \in Reader, NEW k \in Key,
                    reader'[r].pc = "rows", k \notin reader'[r].touched
             PROVE  reader'[r].rows[k] = root'[k]
    BY DEF Untouched
<1>1. CASE Touch
    <2>1. reader[r] \in Read
        BY DEF TypeOK
    <2>2. CASE reader[r].pc # "rows"
        BY <1>1, <2>2 DEF Touch
    <2>3. CASE reader[r].pc = "rows"
        <3>1. reader'[r] = [reader[r] EXCEPT !.touched = @ \cup {l \in Key : Changed(l)}]
            BY <1>1, <2>3 DEF Touch
        <3>2. /\ reader'[r].rows = reader[r].rows
              /\ reader'[r].touched = reader[r].touched \cup {l \in Key : Changed(l)}
            BY <2>1, <3>1 DEF Read
        <3>3. k \notin reader[r].touched /\ ~Changed(k)
            BY <3>2
        <3>4. QED BY <2>3, <3>2, <3>3 DEF Untouched, Changed
    <2>4. QED BY <2>2, <2>3
<1>2. ASSUME NEW q \in Reader, GetRows(q) \/ GetSlices(q)
      PROVE  reader'[r].rows[k] = root'[k]
    <2>1. reader[q] \in Read /\ reader[r] \in Read /\ reader \in [Reader -> Read] /\ root' = root
        BY <1>2 DEF TypeOK, GetRows, GetSlices
    <2>2. CASE q # r
        BY <1>2, <2>1, <2>2 DEF GetRows, GetSlices, Untouched
    <2>3. CASE q = r /\ GetRows(q)
        <3>1. CASE \A l \in Key : Uncut(l)
            BY <2>1, <2>3, <3>1 DEF GetRows, Read
        <3>2. CASE ~ \A l \in Key : Uncut(l)
            BY <2>1, <2>3, <3>2 DEF GetRows, Read
        <3>3. QED BY <3>1, <3>2
    <2>4. CASE q = r /\ GetSlices(q)
        BY <2>1, <2>4 DEF GetSlices, Read
    <2>5. QED BY <1>2, <2>2, <2>3, <2>4
<1>3. CASE UNCHANGED vars
    BY <1>3 DEF vars, Untouched
<1>4. QED BY <1>1, <1>2, <1>3 DEF Next, UpsertClientState, ClearClientState

(* A row whose slices are all there is its own writer's value.             *)
LEMMA WholeResolves ==
    ASSUME Store, NEW k \in Key, root[k] # NULL PROVE Resolved(k, root[k]) = root[k].by
<1>1. \A i \in Slice : i < root[k].of => chunk[k][i] = root[k]
    BY DEF Store, Whole
<1>2. QED BY <1>1 DEF Resolved, Fitting

LEMMA WritersToldTrue ==
    ASSUME KeysApart, TypeOK, Store, [Next]_vars, NEW w \in Write, NEW k \in Key,
           answer[w] # answer'[w]
    PROVE  /\ answer'[w][k] = "upserted"
                => Stored'[k] = [by |-> w, at |-> sent'[w][k].at]
           /\ answer'[w][k] = "skipped"
                => Stored'[k] # NULL /\ Stored'[k].at > sent'[w][k].at
<1>1. PICK batch \in Batch : UpsertClientState(w, batch)
    <2>1. PICK v \in Write, b \in Batch : UpsertClientState(v, b)
        BY DEF Next, vars, ClearClientState, GetRows, GetSlices
    <2>2. v = w
        BY <2>1 DEF UpsertClientState, TypeOK
    <2>3. QED BY <2>1, <2>2
<1>2. /\ sent'[w] = batch /\ root'[k] = RootAfter(w, batch, k)
      /\ answer'[w][k] = Answer(w, batch, k)
    BY <1>1 DEF UpsertClientState, TypeOK
<1>3. Stored'[k] = Held(k)'
    BY StoreStep, StoredIsHeldNext DEF AsHeld
<1>4. answer'[w][k] \in {"upserted", "skipped"} =>
          batch[k] # NULL /\ ~batch[k].deleted
    BY <1>2 DEF Answer
<1>5. ASSUME answer'[w][k] = "upserted"
      PROVE  Stored'[k] = [by |-> w, at |-> sent'[w][k].at]
    <2>1. root[k] = NULL \/ OlderOrSame(root[k], batch[k].at)
        BY <1>2, <1>4, <1>5 DEF Answer
    <2>2. root'[k] = [by |-> w, of |-> batch[k].of, at |-> batch[k].at]
        BY <1>2, <1>4, <1>5, <2>1 DEF RootAfter, RootRemoved, Upserted
    <2>3. root'[k] # NULL
        BY <1>4, <1>5, <2>2, BatchEntries
    <2>4. QED BY <1>2, <1>3, <2>2, <2>3 DEF Held
<1>6. ASSUME answer'[w][k] = "skipped"
      PROVE  Stored'[k] # NULL /\ Stored'[k].at > sent'[w][k].at
    <2>1. root[k] # NULL /\ ~OlderOrSame(root[k], batch[k].at)
        BY <1>2, <1>4, <1>6 DEF Answer
    <2>2. root'[k] = root[k]
        BY <1>2, <1>4, <1>6, <2>1 DEF RootAfter, RootRemoved, Upserted
    <2>3. root[k] \in Row /\ root[k].at \in Nat /\ batch[k].at \in Nat
        BY <1>4, <1>6, <2>1, BatchEntries, ClientStateConstants DEF TypeOK, Row
    <2>4. root[k].at > batch[k].at
        BY <2>1, <2>3 DEF OlderOrSame
    <2>5. [by |-> root[k].by, at |-> root[k].at] # NULL
        BY <2>3, NullIsNothing DEF Row
    <2>6. Stored'[k] = [by |-> root[k].by, at |-> root[k].at]
        BY <1>3, <2>1, <2>2 DEF Held
    <2>7. QED BY <1>2, <2>4, <2>5, <2>6
<1>7. QED BY <1>5, <1>6

LEMMA ReadersToldTrue ==
    ASSUME TypeOK, Store, Untouched, [Next]_vars, NEW r \in Reader, NEW k \in Key,
           reader[r].pc # "done", reader'[r].pc = "done",
           root[k] # NULL, k \notin reader[r].touched
    PROVE  reader'[r].result[k] = root[k].by
<1>1. ~Touch
    BY DEF Touch, TypeOK, Read
<1>2. PICK q \in Reader : GetRows(q) \/ GetSlices(q)
    BY <1>1 DEF Next, vars, UpsertClientState, ClearClientState
<1>3. q = r
    BY <1>2 DEF GetRows, GetSlices, TypeOK
<1>4. reader[r] \in Read /\ reader \in [Reader -> Read]
    BY DEF TypeOK
<1>5. CASE GetRows(r)
    <2>1. \A l \in Key : Uncut(l)
        BY <1>4, <1>5 DEF GetRows, Read
    <2>2. reader'[r].result = [l \in Key |-> Resolved(l, root[l])]
        BY <1>4, <1>5, <2>1 DEF GetRows, Read
    <2>3. QED BY <2>2, WholeResolves
<1>6. CASE GetSlices(r)
    <2>1. reader'[r].result = [l \in Key |-> Resolved(l, reader[r].rows[l])]
        BY <1>4, <1>6 DEF GetSlices, Read
    <2>2. reader[r].rows[k] = root[k]
        BY <1>6 DEF GetSlices, Untouched
    <2>3. QED BY <2>1, <2>2, WholeResolves
<1>7. QED BY <1>2, <1>3, <1>5, <1>6

(* What callers are told is true, if no two keys differ in case only: an   *)
(* entry counted as written is what the store holds, one that was skipped  *)
(* was forestalled by a newer one, and a read finds every value nobody     *)
(* touched while it was under way (upsert and the accessors of the hooks). *)
THEOREM CallersToldTrue == KeysApart => (Spec => AnswersTrue)
<1> SUFFICES ASSUME KeysApart PROVE Spec => AnswersTrue
    OBVIOUS
<1> DEFINE Told ==
      /\ \A w \in Write, k \in Key :
            answer[w] # answer'[w] =>
              /\ answer'[w][k] = "upserted"
                   => Stored'[k] = [by |-> w, at |-> sent'[w][k].at]
              /\ answer'[w][k] = "skipped"
                   => Stored'[k] # NULL /\ Stored'[k].at > sent'[w][k].at
      /\ \A r \in Reader, k \in Key :
            /\ reader[r].pc # "done" /\ reader'[r].pc = "done"
            /\ root[k] # NULL /\ k \notin reader[r].touched
            => reader'[r].result[k] = root[k].by
<1>1. Init => TypeOK /\ Store /\ Untouched
    BY TypeInit, StoreInit DEF Init, Untouched
<1>2. TypeOK /\ Store /\ Untouched /\ [Next]_vars => TypeOK' /\ Store' /\ Untouched'
    BY TypeStep, StoreStep, UntouchedStep
<1>3. TypeOK /\ Store /\ Untouched /\ [Next]_vars => [Told]_vars
    BY WritersToldTrue, ReadersToldTrue
<1>4. QED BY <1>1, <1>2, <1>3, PTL DEF Spec, AnswersTrue

-----------------------------------------------------------------------------
(***************************************************************************)
(* The connection: what is known of the cached handle, and of an attempt   *)
(* that is already the second one.                                         *)
(***************************************************************************)
ConnInv ==
    /\ deaths <= faults
    /\ cached # NoHandle => conn[cached] # "unused"
    /\ \A c \in Conn : conn[c] = "dead" => deaths >= 1
    /\ \A e \in Event : Doing(e, "opening") /\ io[e].attempt = 1 => deaths >= 1
    /\ SurvivesOneDeath

(***************************************************************************)
(* The outbox: who is in it, and what the lists of the flushes under way   *)
(* have to do with it.                                                     *)
(***************************************************************************)
NoneTwice(list) == \A i, j \in DOMAIN list : list[i] = list[j] => i = j

(* The lists and the outbox hold requests that were handed over; the       *)
(* outbox holds each of them once.                                         *)
AllHandedOver ==
    /\ NoneTwice(handedOver)
    /\ NoneTwice(outbox)
    /\ ToSet(outbox) \subseteq ToSet(handedOver)
    /\ \A e \in Event : ToSet(event[e].list) \subseteq ToSet(handedOver)

(* A request that is still to be added is in no list, and only one event   *)
(* adds it.                                                                *)
AddedByOne ==
    \A e \in Event : At(e, "adding") =>
        /\ event[e].req \in ToSet(handedOver) \ ToSet(outbox)
        /\ \A d \in Event :
              /\ event[e].req \notin ToSet(event[d].list)
              /\ At(d, "adding") /\ event[d].req = event[e].req => d = e

(* A flush sends and removes the head of its list, and removes it after    *)
(* its final answer only.                                                  *)
HeadsSettled ==
    \A e \in Event :
        /\ event[e].pc \in {"sending", "removing"} => event[e].list # <<>>
        /\ At(e, "removing") => Head(event[e].list) \in settled

(* What is before a request of a list, in the outbox and by createdAt, is  *)
(* settled or before it in the list.                                       *)
OlderFirst ==
    \A e \in Event : \A k \in DOMAIN event[e].list : \A i, j \in DOMAIN outbox :
        /\ i < j /\ outbox[j] = event[e].list[k]
        /\ CreatedBefore(outbox[i], outbox[j])
        => \/ outbox[i] \in settled
           \/ \E m \in DOMAIN event[e].list : m < k /\ event[e].list[m] = outbox[i]

QueueInv == AllHandedOver /\ AddedByOne /\ HeadsSettled /\ OlderFirst

-----------------------------------------------------------------------------
(* What an attempt does, by what it finds in the cache.                    *)
LEMMA AttemptDoes ==
    ASSUME NEW e \in Event, NEW n \in {0, 1}, Attempt(e, n)
    PROVE  \/ Opens(e, n) /\ cached' = cached
           \/ /\ cached # NoHandle /\ conn[cached] = "open"
              /\ Runs(e, cached) /\ cached' = cached
           \/ /\ n = 0 /\ cached # NoHandle /\ conn[cached] # "open"
              /\ Opens(e, 1) /\ cached' = NoHandle
           \/ /\ n = 1 /\ cached # NoHandle /\ conn[cached] # "open"
              /\ Rejects(e) /\ cached' = cached
  <1>1. CASE cached = NoHandle
    BY <1>1 DEF Attempt
  <1>2. CASE cached # NoHandle /\ conn[cached] = "open"
    BY <1>2 DEF Attempt
  <1>3. CASE cached # NoHandle /\ conn[cached] # "open" /\ n = 0
    BY <1>3 DEF Attempt, Invalidated
  <1>4. CASE cached # NoHandle /\ conn[cached] # "open" /\ n = 1
    BY <1>4 DEF Attempt
  <1>5. QED
    BY <1>1, <1>2, <1>3, <1>4

(* Collecting handles closes open ones only, and never the cached one.     *)
LEMMA CollectedKeeps ==
    ASSUME NEW handles \in [Conn -> {"unused", "open", "dead"}]
    PROVE  /\ Collected(handles) \in [Conn -> {"unused", "open", "dead"}]
           /\ \A c \in Conn : Collected(handles)[c] = "dead" <=> handles[c] = "dead"
           /\ \A c \in Conn : cached' = c => Collected(handles)[c] = handles[c]
  BY DEF Collected

(* The steps of the connection, whoever takes them.                        *)
ConnStep ==
    \/ \E e \in Event : \/ Connect(e) \/ OpenSucceeds(e) \/ OpenFails(e)
                        \/ Completed(e) \/ Dies(e)
    \/ \E e \in Event : /\ io' = [io EXCEPT ![e] = NoOperation]
                        /\ UNCHANGED <<conn, cached, deaths, faults>>
    \/ \E c \in Conn : ForceClose(c) \/ CloseEvent(c) \/ VersionChange(c)
    \/ Fault /\ ConnectionsGone
    \/ UNCHANGED connVars

(* What an operation may become.                                           *)
LEMMA OperationTyped ==
    /\ NoOperation \in Operation
    /\ \A n \in {0, 1} : OperationAt("opening", n, NoHandle) \in Operation
    /\ \A c \in Conn : OperationAt("running", 0, c) \in Operation
    /\ \A aborted \in BOOLEAN : Failed(aborted) \in Operation
  BY DEF NoOperation, OperationAt, Failed, Operation

LEMMA ConnTyped == ConnTypeOK /\ deaths <= faults /\ ConnStep => ConnTypeOK' /\ (deaths <= faults)'
  <1> SUFFICES ASSUME ConnTypeOK, deaths <= faults, ConnStep
               PROVE  ConnTypeOK' /\ (deaths <= faults)'
    OBVIOUS
  <1> USE ConnectionConstants
  <1>1. ASSUME NEW e \in Event, Connect(e)
        PROVE  ConnTypeOK' /\ (deaths <= faults)'
    <2>1. Attempt(e, 0) /\ UNCHANGED <<conn, deaths, faults>>
      BY <1>1 DEF Connect
    <2>2. io' \in [Event -> Operation] /\ cached' \in Conn \cup {NoHandle}
      BY <2>1, AttemptDoes, OperationTyped DEF Opens, Runs, Rejects, ConnTypeOK
    <2>3. QED
      BY <2>1, <2>2 DEF ConnTypeOK
  <1>2. ASSUME NEW e \in Event, OpenSucceeds(e)
        PROVE  ConnTypeOK' /\ (deaths <= faults)'
    <2>1. PICK c \in Conn : /\ cached' = c
                            /\ Runs(e, c)
                            /\ conn' = Collected([conn EXCEPT ![c] = "open"])
      BY <1>2 DEF OpenSucceeds
    <2>2. io' \in [Event -> Operation]
      BY <2>1, OperationTyped DEF Runs, ConnTypeOK
    <2>3. conn' \in [Conn -> {"unused", "open", "dead"}]
      BY <2>1, CollectedKeeps DEF ConnTypeOK
    <2>4. QED
      BY <1>2, <2>1, <2>2, <2>3 DEF OpenSucceeds, ConnTypeOK
  <1>3. ASSUME NEW e \in Event, OpenFails(e)
        PROVE  ConnTypeOK' /\ (deaths <= faults)'
    <2>1. io' \in [Event -> Operation] /\ cached' \in Conn \cup {NoHandle}
      <3>1. CASE io[e].attempt = 0
        BY <1>3, <3>1, AttemptDoes, OperationTyped
           DEF OpenFails, Opens, Runs, Rejects, ConnTypeOK
      <3>2. CASE io[e].attempt # 0
        BY <1>3, <3>2, OperationTyped DEF OpenFails, Rejects, ConnTypeOK
      <3>3. QED
        BY <3>1, <3>2
    <2>2. conn' = conn /\ faults < MaxFaults /\ faults' = faults + 1 /\ deaths' = deaths + 1
      BY <1>3 DEF OpenFails, Death, Fault
    <2>3. QED
      BY <2>1, <2>2 DEF ConnTypeOK
  <1>4. ASSUME NEW e \in Event, Completed(e)
        PROVE  ConnTypeOK' /\ (deaths <= faults)'
    <2>1. conn' \in [Conn -> {"unused", "open", "dead"}]
      BY <1>4, CollectedKeeps DEF Completed, ConnTypeOK
    <2>2. io' \in [Event -> Operation]
      BY <1>4, OperationTyped DEF Completed, ConnTypeOK
    <2>3. QED
      BY <1>4, <2>1, <2>2 DEF Completed, ConnTypeOK
  <1>5. ASSUME NEW c, NEW answered, Dead(c, answered)
        PROVE  ConnTypeOK' /\ (deaths <= faults)'
    <2>1. io' \in [Event -> Operation]
      <3>1. Aborted(c, answered) \in [Event -> Operation]
        BY OperationTyped DEF Aborted, ConnTypeOK
      <3>2. QED
        BY <1>5, <3>1 DEF Dead
    <2>2. conn' \in [Conn -> {"unused", "open", "dead"}]
      BY <1>5 DEF Dead, ConnTypeOK
    <2>3. faults < MaxFaults /\ faults' = faults + 1 /\ deaths' = deaths + 1 /\ cached' = cached
      BY <1>5 DEF Dead, Death, Fault
    <2>4. QED
      BY <2>1, <2>2, <2>3 DEF ConnTypeOK
  <1>6. ASSUME NEW c \in Conn, CloseEvent(c) \/ VersionChange(c)
        PROVE  ConnTypeOK' /\ (deaths <= faults)'
    <2>1. conn' \in [Conn -> {"unused", "open", "dead"}]
      BY <1>6, CollectedKeeps DEF CloseEvent, VersionChange, ConnTypeOK
    <2>2. QED
      BY <1>6, <2>1 DEF CloseEvent, VersionChange, Without, Fault, ConnTypeOK
  <1>7. ASSUME Fault, ConnectionsGone
        PROVE  ConnTypeOK' /\ (deaths <= faults)'
    BY <1>7, OperationTyped DEF ConnectionsGone, Fault, ConnTypeOK
  <1>8. ASSUME NEW e \in Event, io' = [io EXCEPT ![e] = NoOperation],
               UNCHANGED <<conn, cached, deaths, faults>>
        PROVE  ConnTypeOK' /\ (deaths <= faults)'
    BY <1>8, OperationTyped DEF ConnTypeOK
  <1>9. CASE UNCHANGED connVars
    BY <1>9 DEF connVars, ConnTypeOK
  <1>10. QED
    BY <1>1, <1>2, <1>3, <1>4, <1>5, <1>6, <1>7, <1>8, <1>9 DEF ConnStep, ForceClose, Dies

(* An attempt rejects its operation only when the cached handle is dead    *)
(* and it is the second one; what it leaves in the cache is not unused.    *)
LEMMA AttemptSurvives ==
    ASSUME ConnTypeOK, ConnInv, NEW e \in Event, NEW n \in {0, 1},
           Attempt(e, n), UNCHANGED conn, deaths' \in Nat, deaths' >= deaths,
           n = 1 => deaths' >= 1,
           n = 1 /\ (\E c \in Conn : conn[c] = "dead") => deaths' >= 2,
           deaths' <= faults'
    PROVE  ConnInv'
  <1>0. deaths \in Nat
    BY ConnectionConstants DEF ConnTypeOK
  <1>1. \A c \in Conn : conn[c] # "open" /\ conn[c] # "unused" => conn[c] = "dead"
    BY DEF ConnTypeOK
  <1>2. (cached # NoHandle => conn[cached] # "unused")'
    BY AttemptDoes DEF ConnInv
  <1>3. \A c \in Conn : conn'[c] = "dead" => deaths' >= 1
    BY <1>0 DEF ConnInv
  <1>4. \A d \in Event : d # e => io'[d] = io[d]
    BY AttemptDoes DEF Opens, Runs, Rejects, ConnTypeOK
  <1>6. io'[e].at = "opening" /\ io'[e].attempt = 1 => deaths' >= 1
    <2>1. CASE Opens(e, n)
      BY <2>1 DEF Opens, OperationAt, ConnTypeOK
    <2>2. CASE Runs(e, cached) \/ Rejects(e)
      BY <2>2 DEF Runs, Rejects, OperationAt, Failed, ConnTypeOK
    <2>3. CASE cached # NoHandle /\ conn[cached] # "open" /\ Opens(e, 1)
      <3>1. conn[cached] = "dead" /\ cached \in Conn
        BY <1>1, <2>3 DEF ConnInv, ConnTypeOK
      <3>2. QED
        BY <1>3, <3>1
    <2>4. QED
      BY <2>1, <2>2, <2>3, AttemptDoes
  <1>7. io'[e].at = "rejected" => deaths' >= 2
    <2>1. CASE n = 1 /\ cached # NoHandle /\ conn[cached] # "open"
      <3>1. conn[cached] = "dead" /\ cached \in Conn
        BY <1>1, <2>1 DEF ConnInv, ConnTypeOK
      <3>2. QED
        BY <2>1, <3>1
    <2>2. CASE \/ Opens(e, n) \/ Opens(e, 1) \/ Runs(e, cached)
      BY <2>2 DEF Opens, Runs, OperationAt, ConnTypeOK
    <2>3. QED
      BY <2>1, <2>2, AttemptDoes
  <1>8. (\A d \in Event : Doing(d, "opening") /\ io[d].attempt = 1 => deaths >= 1)'
    BY <1>4, <1>0, <1>6 DEF Doing, ConnInv
  <1>9. SurvivesOneDeath'
    BY <1>4, <1>0, <1>7 DEF Doing, SurvivesOneDeath, ConnInv
  <1>10. QED
    BY <1>2, <1>3, <1>8, <1>9 DEF ConnInv

(* A step that opens no operation and rejects none without an abort, and   *)
(* after which the dead handles are counted.                               *)
DeathsCounted ==
    \A c \in Conn : conn'[c] = "dead" => conn[c] = "dead" \/ deaths' > deaths
NoneRejected ==
    \A d \in Event : \/ io'[d] = io[d] \/ io'[d] = NoOperation
                     \/ io'[d].at = "running" \/ io'[d] = Failed(TRUE)

LEMMA NothingRejected ==
    ASSUME ConnTypeOK, ConnInv,
           deaths' \in Nat, deaths' >= deaths, deaths' <= faults',
           (cached # NoHandle => conn[cached] # "unused")',
           DeathsCounted, NoneRejected
    PROVE  ConnInv'
  <1>1. deaths \in Nat
    BY ConnectionConstants DEF ConnTypeOK
  <1>2. \A c \in Conn : conn'[c] = "dead" => deaths' >= 1
    BY <1>1 DEF DeathsCounted, ConnInv
  <1>3. (\A d \in Event : Doing(d, "opening") /\ io[d].attempt = 1 => deaths >= 1)'
    BY <1>1 DEF NoneRejected, Doing, ConnInv, NoOperation, OperationAt, Failed
  <1>4. SurvivesOneDeath'
    BY <1>1 DEF NoneRejected, Doing, SurvivesOneDeath, ConnInv, NoOperation, OperationAt, Failed
  <1>5. QED
    BY <1>2, <1>3, <1>4 DEF ConnInv

LEMMA ConnStepInv == ConnTypeOK /\ ConnInv /\ ConnStep => ConnTypeOK' /\ ConnInv'
  <1> SUFFICES ASSUME ConnTypeOK, ConnInv, ConnStep
               PROVE  ConnInv'
    BY ConnTyped DEF ConnInv
  <1>0. ConnTypeOK' /\ deaths' <= faults'
    BY ConnTyped DEF ConnInv
  <1>a. deaths \in Nat /\ deaths' \in Nat
    BY <1>0, ConnectionConstants DEF ConnTypeOK
  <1>b. cached # NoHandle => cached \in Conn
    BY DEF ConnTypeOK
  <1>c. conn \in [Conn -> {"unused", "open", "dead"}]
    BY DEF ConnTypeOK
  <1> USE ConnectionConstants
  <1>1. ASSUME NEW e \in Event, Connect(e)
        PROVE  ConnInv'
    <2>1. Attempt(e, 0) /\ UNCHANGED <<conn, deaths, faults>>
      BY <1>1 DEF Connect
    <2>2. QED
      BY <1>0, <1>a, <2>1, AttemptSurvives
  <1>2. ASSUME NEW e \in Event, OpenSucceeds(e)
        PROVE  ConnInv'
    <2>1. PICK c \in Conn : /\ cached' = c
                            /\ Runs(e, c)
                            /\ conn' = Collected([conn EXCEPT ![c] = "open"])
      BY <1>2 DEF OpenSucceeds
    <2>a. [conn EXCEPT ![c] = "open"] \in [Conn -> {"unused", "open", "dead"}]
      BY <1>c
    <2>2. /\ conn'[c] = "open"
          /\ \A b \in Conn : conn'[b] = "dead" => conn[b] = "dead"
      BY <1>c, <2>1, <2>a, CollectedKeeps
    <2>3. \A d \in Event : io'[d] = io[d] \/ io'[d].at = "running"
      BY <2>1 DEF Runs, OperationAt, ConnTypeOK
    <2>4. deaths' = deaths
      BY <1>2 DEF OpenSucceeds
    <2>5. DeathsCounted /\ NoneRejected
      BY <2>2, <2>3 DEF DeathsCounted, NoneRejected
    <2>6. (cached # NoHandle => conn[cached] # "unused")'
      BY <2>1, <2>2
    <2>7. QED
      BY <1>0, <1>a, <2>4, <2>5, <2>6, NothingRejected
  <1>3. ASSUME NEW e \in Event, OpenFails(e)
        PROVE  ConnInv'
    <2>1. deaths' = deaths + 1 /\ conn' = conn /\ Doing(e, "opening")
      BY <1>3 DEF OpenFails, Death
    <2>2. CASE io[e].attempt = 0
      <3>1. Attempt(e, 1)
        BY <1>3, <2>2 DEF OpenFails
      <3>2. (\E c \in Conn : conn[c] = "dead") => deaths >= 1
        BY DEF ConnInv
      <3>3. QED
        BY <1>0, <1>a, <2>1, <3>1, <3>2, AttemptSurvives
    <2>3. CASE io[e].attempt # 0
      <3>1. io' = [io EXCEPT ![e] = Failed(FALSE)] /\ cached' = cached
        BY <1>3, <2>3 DEF OpenFails, Rejects
      <3>2. io[e].attempt = 1
        BY <2>3 DEF ConnTypeOK, Operation
      <3>3. deaths' >= 2
        BY <1>a, <2>1, <3>2 DEF ConnInv
      <3>4. \A d \in Event : d # e => io'[d] = io[d]
        BY <3>1 DEF ConnTypeOK
      <3>5. io'[e].at = "rejected"
        BY <3>1 DEF ConnTypeOK, Failed, OperationAt
      <3>6. SurvivesOneDeath'
        BY <1>a, <2>1, <3>3, <3>4 DEF SurvivesOneDeath, ConnInv, Doing
      <3>7. (\A d \in Event : Doing(d, "opening") /\ io[d].attempt = 1 => deaths >= 1)'
        BY <1>a, <3>3
      <3>8. (cached # NoHandle => conn[cached] # "unused")'
        BY <2>1, <3>1 DEF ConnInv
      <3>9. (\A c \in Conn : conn[c] = "dead" => deaths >= 1)'
        BY <1>a, <3>3
      <3>10. QED
        BY <1>0, <3>6, <3>7, <3>8, <3>9 DEF ConnInv
    <2>4. QED
      BY <2>2, <2>3
  <1>4. ASSUME NEW e \in Event, Completed(e)
        PROVE  ConnInv'
    <2>1. /\ cached' = cached /\ deaths' = deaths
          /\ conn' = Collected(conn)
          /\ io' = [io EXCEPT ![e] = NoOperation]
      BY <1>4 DEF Completed
    <2>2. /\ cached # NoHandle => conn'[cached] = conn[cached]
          /\ \A b \in Conn : conn'[b] = "dead" => conn[b] = "dead"
      BY <1>b, <1>c, <2>1, CollectedKeeps
    <2>3. \A d \in Event : io'[d] = io[d] \/ io'[d] = NoOperation
      BY <2>1 DEF ConnTypeOK
    <2>4. (cached # NoHandle => conn[cached] # "unused")'
      BY <2>1, <2>2 DEF ConnInv
    <2>5. DeathsCounted /\ NoneRejected
      BY <2>2, <2>3 DEF DeathsCounted, NoneRejected
    <2>6. QED
      BY <1>0, <1>a, <2>1, <2>4, <2>5, NothingRejected
  <1>5. ASSUME NEW c, NEW answered, Dead(c, answered)
        PROVE  ConnInv'
    <2>1. /\ cached' = cached /\ deaths' = deaths + 1
          /\ conn' = [conn EXCEPT ![c] = "dead"]
          /\ io' = Aborted(c, answered)
      BY <1>5 DEF Dead, Death
    <2>2. \A d \in Event : io'[d] = io[d] \/ io'[d] = NoOperation \/ io'[d] = Failed(TRUE)
      BY <2>1 DEF Aborted
    <2>3. (cached # NoHandle => conn[cached] # "unused")'
      BY <1>b, <1>c, <2>1 DEF ConnInv
    <2>4. deaths' > deaths
      BY <1>a, <2>1
    <2>5. DeathsCounted /\ NoneRejected
      BY <2>2, <2>4 DEF DeathsCounted, NoneRejected
    <2>6. QED
      BY <1>0, <1>a, <2>3, <2>4, <2>5, NothingRejected
  <1>6. ASSUME NEW c \in Conn, CloseEvent(c)
        PROVE  ConnInv'
    <2> DEFINE closed == [conn EXCEPT ![c] = "unused"]
    <2>1. /\ cached' = Without(c) /\ deaths' = deaths /\ io' = io
          /\ conn' = Collected(closed)
      BY <1>6 DEF CloseEvent
    <2>2. closed \in [Conn -> {"unused", "open", "dead"}]
      BY <1>c
    <2>3. \A b \in Conn : /\ conn'[b] = "dead" => conn[b] = "dead"
                          /\ cached' = b => conn'[b] = closed[b]
      BY <1>c, <2>1, <2>2, CollectedKeeps
    <2>4. cached' # NoHandle => cached' = cached /\ cached \in Conn /\ cached # c
      BY <1>b, <2>1 DEF Without
    <2>5. (cached # NoHandle => conn[cached] # "unused")'
      BY <1>c, <2>3, <2>4 DEF ConnInv
    <2>6. DeathsCounted /\ NoneRejected
      BY <2>1, <2>3 DEF DeathsCounted, NoneRejected
    <2>7. QED
      BY <1>0, <1>a, <2>1, <2>5, <2>6, NothingRejected
  <1>7. ASSUME NEW c \in Conn, VersionChange(c)
        PROVE  ConnInv'
    <2>1. /\ cached' = NoHandle /\ deaths' = deaths /\ io' = io
          /\ conn' = Collected(conn)
      BY <1>7 DEF VersionChange, Without
    <2>2. \A b \in Conn : conn'[b] = "dead" => conn[b] = "dead"
      BY <1>c, <2>1, CollectedKeeps
    <2>3. DeathsCounted /\ NoneRejected
      BY <2>1, <2>2 DEF DeathsCounted, NoneRejected
    <2>4. QED
      BY <1>0, <1>a, <2>1, <2>3, NothingRejected
  <1>8. ASSUME Fault, ConnectionsGone
        PROVE  ConnInv'
    BY <1>0, <1>8 DEF ConnectionsGone, ConnInv, SurvivesOneDeath, Doing, NoOperation, OperationAt
  <1>9. ASSUME NEW e \in Event, io' = [io EXCEPT ![e] = NoOperation],
               UNCHANGED <<conn, cached, deaths, faults>>
        PROVE  ConnInv'
    <2>1. \A d \in Event : io'[d] = io[d] \/ io'[d] = NoOperation
      BY <1>9 DEF ConnTypeOK
    <2>2. (cached # NoHandle => conn[cached] # "unused")'
      BY <1>9 DEF ConnInv
    <2>3. DeathsCounted /\ NoneRejected
      BY <1>9, <2>1 DEF DeathsCounted, NoneRejected
    <2>4. QED
      BY <1>0, <1>9, <1>a, <2>2, <2>3, NothingRejected
  <1>10. CASE UNCHANGED connVars
    BY <1>10 DEF connVars, ConnInv, SurvivesOneDeath, Doing
  <1>11. QED
    BY <1>1, <1>2, <1>3, <1>4, <1>5, <1>6, <1>7, <1>8, <1>9, <1>10 DEF ConnStep, ForceClose, Dies

-----------------------------------------------------------------------------
(* Every step of the queue does one step of the connection.                *)
LEMMA QueueStepsConn == [QueueNext]_flushVars => ConnStep
  <1> SUFFICES ASSUME [QueueNext]_flushVars
               PROVE  ConnStep
    OBVIOUS
  <1>1. ASSUME NEW e \in Event,
               \/ EnqueueRequest(e) \/ RegisterSync(e) \/ FlushMessage(e) \/ SyncFires(e)
        PROVE  ConnStep
    BY <1>1 DEF EnqueueRequest, RegisterSync, FlushMessage, SyncFires, ConnStep
  <1>2. ASSUME NEW e \in Event,
               \/ AddQueuedRequest(e) \/ ListQueuedRequests(e) \/ RemoveQueuedRequest(e)
        PROVE  ConnStep
    BY <1>2 DEF AddQueuedRequest, ListQueuedRequests, RemoveQueuedRequest, ConnStep
  <1>3. ASSUME NEW e \in Event, Fetch(e) \/ Fail(e)
        PROVE  ConnStep
    BY <1>3 DEF Fetch, Fail, ConnStep
  <1>4. ASSUME NEW e \in Event, RequestFails(e) \/ WriteLost(e) \/ OpenSucceeds(e)
        PROVE  ConnStep
    BY <1>4 DEF RequestFails, WriteLost, ConnStep
  <1>5. CASE ConnNext \/ StopWorker \/ UNCHANGED flushVars
    BY <1>5 DEF ConnNext, StopWorker, flushVars, ConnStep
  <1>6. QED
    BY <1>1, <1>2, <1>3, <1>4, <1>5 DEF QueueNext, Step

LEMMA ConnStarts == QueueInit => ConnTypeOK /\ ConnInv
  BY ConnectionConstants, OperationTyped
     DEF QueueInit, ConnInit, ConnTypeOK, ConnInv, SurvivesOneDeath, Doing,
         NoOperation, OperationAt

(* One closed connection fails no operation that had no transaction on it  *)
(* (SurvivesOneDeath), whatever the events that share the handle do:       *)
(* withConnectionRetry tries each once more, and clears the cache first.   *)
THEOREM OneDeathSurvived == QueueSpec => [](ConnTypeOK /\ SurvivesOneDeath)
  <1>1. QueueInit => ConnTypeOK /\ ConnInv
    BY ConnStarts
  <1>2. ConnTypeOK /\ ConnInv /\ [QueueNext]_flushVars => (ConnTypeOK /\ ConnInv)'
    BY ConnStepInv, QueueStepsConn
  <1>3. ConnTypeOK /\ ConnInv => ConnTypeOK /\ SurvivesOneDeath
    BY DEF ConnInv
  <1>4. QED
    BY <1>1, <1>2, <1>3, PTL DEF QueueSpec

-----------------------------------------------------------------------------
(* Sequences                                                               *)
LEMMA RemovedAt ==
    ASSUME NEW S, NEW s \in Seq(S), NEW i \in DOMAIN s
    PROVE  /\ RemoveAt(s, i) \in Seq(S)
           /\ DOMAIN RemoveAt(s, i) = 1..(Len(s) - 1)
           /\ \A k \in DOMAIN RemoveAt(s, i) :
                 RemoveAt(s, i)[k] = IF k < i THEN s[k] ELSE s[k + 1]
  <1> DEFINE front == SubSeq(s, 1, i - 1)
             back == SubSeq(s, i + 1, Len(s))
  <1>1. i \in 1..Len(s) /\ Len(s) \in Nat
    OBVIOUS
  <1>2. /\ front \in Seq(S) /\ Len(front) = i - 1
        /\ \A k \in 1..(i - 1) : front[k] = s[k]
    BY <1>1
  <1>3. /\ back \in Seq(S) /\ Len(back) = Len(s) - i
        /\ \A k \in 1..(Len(s) - i) : back[k] = s[i + k]
    BY <1>1
  <1>4. RemoveAt(s, i) = front \o back
    BY DEF RemoveAt
  <1> HIDE DEF front, back
  <1>5. /\ front \o back \in Seq(S)
        /\ DOMAIN (front \o back) = 1..(Len(s) - 1)
    BY <1>1, <1>2, <1>3
  <1>6. ASSUME NEW k \in 1..(Len(s) - 1)
        PROVE  (front \o back)[k] = IF k < i THEN s[k] ELSE s[k + 1]
    <2>1. CASE k < i
      BY <1>1, <1>2, <1>3, <2>1
    <2>2. CASE ~(k < i)
      <3>1. k - (i - 1) \in 1..(Len(s) - i) /\ k > Len(front)
        BY <1>1, <1>2, <2>2
      <3>a. k \in 1..(Len(front) + Len(back)) /\ k > Len(front)
        BY <1>1, <1>2, <1>3, <3>1
      <3>b. (front \o back)[k] = back[k - Len(front)]
        BY <1>2, <1>3, <3>a
      <3>2. (front \o back)[k] = back[k - (i - 1)]
        BY <1>2, <3>b
      <3>3. back[k - (i - 1)] = s[i + (k - (i - 1))]
        BY <1>3, <3>1
      <3>4. i + (k - (i - 1)) = k + 1
        BY <1>1
      <3>5. QED
        BY <2>2, <3>2, <3>3, <3>4
    <2>3. QED
      BY <2>1, <2>2
  <1>7. QED
    BY <1>4, <1>5, <1>6

LEMMA AppendedAt ==
    ASSUME NEW S, NEW s \in Seq(S), NEW x \in S
    PROVE  /\ Append(s, x) \in Seq(S)
           /\ DOMAIN Append(s, x) = DOMAIN s \cup {Len(s) + 1}
           /\ Len(s) + 1 \notin DOMAIN s /\ \A k \in DOMAIN s : k < Len(s) + 1
           /\ \A k \in DOMAIN s : Append(s, x)[k] = s[k]
           /\ Append(s, x)[Len(s) + 1] = x
           /\ ToSet(Append(s, x)) = ToSet(s) \cup {x}
  <1>1. /\ Append(s, x) \in Seq(S)
        /\ DOMAIN Append(s, x) = DOMAIN s \cup {Len(s) + 1}
        /\ Len(s) + 1 \notin DOMAIN s /\ \A k \in DOMAIN s : k < Len(s) + 1
        /\ \A k \in DOMAIN s : Append(s, x)[k] = s[k]
        /\ Append(s, x)[Len(s) + 1] = x
    OBVIOUS
  <1>2. QED
    BY <1>1 DEF ToSet

LEMMA TailAt ==
    ASSUME NEW S, NEW s \in Seq(S), s # <<>>
    PROVE  /\ Head(s) = s[1] /\ 1 \in DOMAIN s /\ Head(s) \in S
           /\ Tail(s) \in Seq(S)
           /\ \A k \in DOMAIN Tail(s) : k + 1 \in DOMAIN s /\ Tail(s)[k] = s[k + 1]
           /\ \A k \in DOMAIN s : k # 1 => k - 1 \in DOMAIN Tail(s)
           /\ ToSet(Tail(s)) \subseteq ToSet(s)
  <1>1. /\ Head(s) = s[1] /\ 1 \in DOMAIN s /\ Head(s) \in S
        /\ Tail(s) \in Seq(S)
        /\ \A k \in DOMAIN Tail(s) : k + 1 \in DOMAIN s /\ Tail(s)[k] = s[k + 1]
        /\ \A k \in DOMAIN s : k # 1 => k - 1 \in DOMAIN Tail(s)
    OBVIOUS
  <1>2. QED
    BY <1>1 DEF ToSet

-----------------------------------------------------------------------------
(* Handlers                                                                *)
QueuePc == {"idle", "adding", "registering", "listing", "sending",
            "removing", "failing"}

LEMMA GotoDoes ==
    ASSUME QueueTypeOK, NEW e \in Event, NEW pc \in QueuePc, Goto(e, pc)
    PROVE  /\ event' \in [Event -> Handler]
           /\ event'[e].pc = pc
           /\ event'[e].list = event[e].list /\ event'[e].req = event[e].req
           /\ \A d \in Event : d # e => event'[d] = event[d]
  BY DEF Goto, QueueTypeOK, Handler, QueuePc

LEMMA GoOnDoes ==
    ASSUME QueueTypeOK, NEW e \in Event, NEW rest \in Seq(Request), GoOn(e, rest)
    PROVE  /\ event' \in [Event -> Handler]
           /\ event'[e].pc = IF rest = <<>> THEN "idle" ELSE "sending"
           /\ event'[e].list = rest
           /\ \A d \in Event : d # e => event'[d] = event[d]
  BY DEF GoOn, QueueTypeOK, Handler

-----------------------------------------------------------------------------
(* A step that hands nothing over and adds nothing: the outbox may lose    *)
(* requests, lists their heads when those are settled.                     *)
OutboxShrinks ==
    \A i, j \in DOMAIN outbox' : \E a, b \in DOMAIN outbox :
        /\ outbox'[i] = outbox[a] /\ outbox'[j] = outbox[b]
        /\ (i < j => a < b) /\ (j < i => b < a)

ListsShrink ==
    \A d \in Event : \/ event'[d].list = event[d].list
                     \/ event'[d].list = <<>>
                     \/ /\ event[d].list # <<>> /\ Head(event[d].list) \in settled
                        /\ event'[d].list = Tail(event[d].list)

NoneAdded ==
    \A d \in Event : event'[d].pc = "adding" =>
                        event[d].pc = "adding" /\ event'[d].req = event[d].req

LEMMA ShrunkList ==
    ASSUME QueueTypeOK, ListsShrink, NEW d \in Event
    PROVE  /\ ToSet(event'[d].list) \subseteq ToSet(event[d].list)
           /\ \A k \in DOMAIN event'[d].list : \E n \in DOMAIN event[d].list :
                 /\ event'[d].list[k] = event[d].list[n]
                 /\ \A m \in DOMAIN event[d].list : m < n =>
                       \/ event[d].list[m] \in settled
                       \/ \E l \in DOMAIN event'[d].list :
                             l < k /\ event'[d].list[l] = event[d].list[m]
  <1> DEFINE list == event[d].list
             rest == event'[d].list
  <1>0. list \in Seq(Request)
    BY DEF QueueTypeOK, Handler
  <1>1. CASE rest = list
    <2>1. \A k \in DOMAIN list : \A m \in DOMAIN list : m < k =>
             \E l \in DOMAIN rest : l < k /\ rest[l] = list[m]
      BY <1>1
    <2>2. QED
      BY <1>1, <2>1
  <1>2. CASE rest = <<>>
    BY <1>2 DEF ToSet
  <1>3. CASE list # <<>> /\ Head(list) \in settled /\ rest = Tail(list)
    <2> HIDE DEF list
    <2>1. /\ Head(list) = list[1] /\ 1 \in DOMAIN list
          /\ rest \in Seq(Request)
          /\ \A k \in DOMAIN rest : k + 1 \in DOMAIN list /\ rest[k] = list[k + 1]
          /\ \A k \in DOMAIN list : k # 1 => k - 1 \in DOMAIN rest
          /\ ToSet(rest) \subseteq ToSet(list)
      BY <1>0, <1>3, TailAt
    <2> HIDE DEF rest
    <2>2. ASSUME NEW k \in DOMAIN rest, NEW m \in DOMAIN list, m < k + 1
          PROVE  \/ list[m] \in settled
                 \/ \E l \in DOMAIN rest : l < k /\ rest[l] = list[m]
      <3>1. CASE m = 1
        BY <1>3, <2>1, <3>1
      <3>2. CASE m # 1
        <4>1. k \in Int /\ m \in Int
          BY <1>0, <2>1
        <4>2. m - 1 \in DOMAIN rest /\ m - 1 < k /\ rest[m - 1] = list[(m - 1) + 1]
          BY <2>1, <2>2, <3>2, <4>1
        <4>3. (m - 1) + 1 = m
          BY <4>1
        <4>4. QED
          BY <4>2, <4>3
      <3>3. QED
        BY <3>1, <3>2
    <2>3. \A k \in DOMAIN rest : \E n \in DOMAIN list :
             /\ rest[k] = list[n]
             /\ \A m \in DOMAIN list : m < n =>
                   \/ list[m] \in settled
                   \/ \E l \in DOMAIN rest : l < k /\ rest[l] = list[m]
      BY <2>1, <2>2
    <2>4. QED
      BY <2>1, <2>3 DEF list, rest
  <1>4. QED
    BY <1>1, <1>2, <1>3 DEF ListsShrink

LEMMA QueueKeeps ==
    ASSUME QueueTypeOK, QueueTypeOK', QueueInv,
           settled \subseteq settled', handedOver' = handedOver,
           OutboxShrinks, ListsShrink, NoneAdded, HeadsSettled'
    PROVE  QueueInv'
  <1>1. \A d \in Event : ToSet(event'[d].list) \subseteq ToSet(event[d].list)
    BY ShrunkList
  <1>2. ToSet(outbox') \subseteq ToSet(outbox)
    BY DEF OutboxShrinks, ToSet
  <1>3. DOMAIN outbox \subseteq Int /\ DOMAIN outbox' \subseteq Int
    BY DEF QueueTypeOK
  <1>4. NoneTwice(outbox')
    <2>1. SUFFICES ASSUME NEW i \in DOMAIN outbox', NEW j \in DOMAIN outbox',
                          outbox'[i] = outbox'[j]
                   PROVE  i = j
      BY DEF NoneTwice
    <2>2. PICK a \in DOMAIN outbox, b \in DOMAIN outbox :
             /\ outbox'[i] = outbox[a] /\ outbox'[j] = outbox[b]
             /\ (i < j => a < b) /\ (j < i => b < a)
      BY DEF OutboxShrinks
    <2>3. a = b
      BY <2>1, <2>2 DEF QueueInv, AllHandedOver, NoneTwice
    <2>4. QED
      BY <1>3, <2>2, <2>3
  <1>5. AllHandedOver'
    BY <1>1, <1>2, <1>4 DEF QueueInv, AllHandedOver
  <1>6. AddedByOne'
    BY <1>1, <1>2 DEF QueueInv, AddedByOne, NoneAdded, At
  <1>7. OlderFirst'
    <2>1. SUFFICES ASSUME NEW d \in Event, NEW k \in DOMAIN event'[d].list,
                          NEW i \in DOMAIN outbox', NEW j \in DOMAIN outbox',
                          i < j, outbox'[j] = event'[d].list[k],
                          CreatedBefore(outbox'[i], outbox'[j])
                   PROVE  \/ outbox'[i] \in settled'
                          \/ \E l \in DOMAIN event'[d].list :
                                l < k /\ event'[d].list[l] = outbox'[i]
      BY DEF OlderFirst, CreatedBefore
    <2>2. PICK a \in DOMAIN outbox, b \in DOMAIN outbox :
             outbox'[i] = outbox[a] /\ outbox'[j] = outbox[b] /\ a < b
      BY <2>1 DEF OutboxShrinks
    <2>3. PICK n \in DOMAIN event[d].list :
             /\ event'[d].list[k] = event[d].list[n]
             /\ \A m \in DOMAIN event[d].list : m < n =>
                   \/ event[d].list[m] \in settled
                   \/ \E l \in DOMAIN event'[d].list :
                         l < k /\ event'[d].list[l] = event[d].list[m]
      BY ShrunkList
    <2>4. \/ outbox[a] \in settled
          \/ \E m \in DOMAIN event[d].list : m < n /\ event[d].list[m] = outbox[a]
      BY <2>1, <2>2, <2>3 DEF QueueInv, OlderFirst
    <2>5. QED
      BY <2>2, <2>3, <2>4
  <1>8. QED
    BY <1>5, <1>6, <1>7 DEF QueueInv

-----------------------------------------------------------------------------
(* The steps of the flushes                                                *)
LEMMA OutboxSame == QueueTypeOK /\ outbox' = outbox => OutboxShrinks
  BY DEF OutboxShrinks

(* A step that only moves one handler on, to a place where it sends,       *)
(* removes and adds nothing.                                               *)
LEMMA MovedOn ==
    ASSUME QueueTypeOK, QueueInv, ConnTypeOK', NEW e \in Event,
           event' \in [Event -> Handler],
           event'[e].pc \in {"idle", "registering", "listing", "failing"},
           \/ event'[e].list = event[e].list \/ event'[e].list = <<>>,
           \A d \in Event : d # e => event'[d] = event[d],
           syncAsked' \in BOOLEAN, outbox' = outbox, handedOver' = handedOver,
           processed' \in Seq(Request),
           settled \subseteq settled', settled' \subseteq Request
    PROVE  QueueTypeOK' /\ QueueInv'
  <1>1. QueueTypeOK'
    BY DEF QueueTypeOK
  <1>2. ListsShrink
    BY DEF ListsShrink
  <1>3. NoneAdded
    BY DEF NoneAdded
  <1>4. HeadsSettled'
    BY DEF QueueInv, HeadsSettled, At
  <1>5. QED
    BY <1>1, <1>2, <1>3, <1>4, OutboxSame, QueueKeeps

(* A step that goes on with the rest of a list whose head is settled, or   *)
(* ends the flush.                                                         *)
LEMMA WentOn ==
    ASSUME QueueTypeOK, QueueInv, ConnTypeOK', NEW e \in Event,
           NEW rest \in Seq(Request), GoOn(e, rest),
           \/ rest = <<>>
           \/ /\ event[e].list # <<>> /\ Head(event[e].list) \in settled
              /\ rest = Tail(event[e].list),
           syncAsked' \in BOOLEAN, outbox' \in Seq(Request), OutboxShrinks,
           UNCHANGED <<handedOver, processed, settled>>
    PROVE  QueueTypeOK' /\ QueueInv'
  <1>1. /\ event' \in [Event -> Handler]
        /\ event'[e].pc = IF rest = <<>> THEN "idle" ELSE "sending"
        /\ event'[e].list = rest
        /\ \A d \in Event : d # e => event'[d] = event[d]
    BY GoOnDoes
  <1>2. QueueTypeOK'
    BY <1>1 DEF QueueTypeOK
  <1>3. ListsShrink
    BY <1>1 DEF ListsShrink
  <1>4. NoneAdded
    BY <1>1 DEF NoneAdded
  <1>5. HeadsSettled'
    BY <1>1 DEF QueueInv, HeadsSettled, At
  <1>6. QED
    BY <1>2, <1>3, <1>4, <1>5, QueueKeeps

LEMMA EnqueueKeeps ==
    ASSUME QueueTypeOK, QueueInv, ConnTypeOK', NEW e \in Event, EnqueueRequest(e)
    PROVE  QueueTypeOK' /\ QueueInv'
  <1>1. PICK r \in Request \ ToSet(handedOver) :
           /\ event' = [event EXCEPT ![e].pc = "adding", ![e].req = r]
           /\ handedOver' = Append(handedOver, r)
    BY DEF EnqueueRequest, Accepted
  <1>2. UNCHANGED <<outbox, syncAsked, processed, settled>>
    BY DEF EnqueueRequest, historyVars
  <1>3. /\ event' \in [Event -> Handler]
        /\ event'[e].pc = "adding" /\ event'[e].req = r
        /\ event'[e].list = event[e].list
        /\ \A d \in Event : d # e => event'[d] = event[d]
    BY <1>1 DEF QueueTypeOK, Handler
  <1>4. handedOver \in Seq(Request) /\ outbox \in Seq(Request)
    BY DEF QueueTypeOK
  <1> DEFINE n == Len(handedOver) + 1
  <1>5. /\ handedOver' \in Seq(Request)
        /\ DOMAIN handedOver' = DOMAIN handedOver \cup {n}
        /\ n \notin DOMAIN handedOver /\ \A k \in DOMAIN handedOver : k < n
        /\ \A k \in DOMAIN handedOver : handedOver'[k] = handedOver[k]
        /\ handedOver'[n] = r
        /\ ToSet(handedOver') = ToSet(handedOver) \cup {r}
    BY <1>1, <1>4, AppendedAt
  <1> HIDE DEF n
  <1>6. QueueTypeOK'
    BY <1>2, <1>3, <1>5 DEF QueueTypeOK
  <1>7. AllHandedOver'
    <2>1. NoneTwice(handedOver')
      BY <1>1, <1>5 DEF QueueInv, AllHandedOver, NoneTwice, ToSet
    <2>2. \A d \in Event : event'[d].list = event[d].list
      BY <1>3
    <2>3. QED
      BY <1>2, <1>5, <2>1, <2>2 DEF QueueInv, AllHandedOver
  <1>8. AddedByOne'
    <2>1. \A d \in Event : event'[d].list = event[d].list
      BY <1>3
    <2>2. r \notin ToSet(outbox) /\ \A d \in Event : r \notin ToSet(event[d].list)
      BY <1>1 DEF QueueInv, AllHandedOver
    <2>3. \A d \in Event : event[d].pc = "adding" => event[d].req # r
      BY <1>1 DEF QueueInv, AddedByOne, At
    <2>4. QED
      BY <1>2, <1>3, <1>5, <2>1, <2>2, <2>3 DEF QueueInv, AddedByOne, At
  <1>9. HeadsSettled'
    BY <1>2, <1>3 DEF QueueInv, HeadsSettled, At
  <1>10. OlderFirst'
    <2>1. \A d \in Event : event'[d].list = event[d].list
      BY <1>3
    <2>2. ASSUME NEW i \in DOMAIN outbox, NEW j \in DOMAIN outbox,
                 NEW a \in DOMAIN handedOver', NEW b \in DOMAIN handedOver',
                 a < b, handedOver'[a] = outbox[i], handedOver'[b] = outbox[j]
          PROVE  CreatedBefore(outbox[i], outbox[j])
      <3>1. outbox[i] # r /\ outbox[j] # r
        BY <1>1 DEF QueueInv, AllHandedOver, ToSet
      <3>2. a # n /\ b # n
        BY <1>5, <2>2, <3>1
      <3>3. QED
        BY <1>5, <2>2, <3>2 DEF CreatedBefore
    <2>3. QED
      BY <1>2, <2>1, <2>2 DEF QueueInv, OlderFirst, CreatedBefore
  <1>11. QED
    BY <1>6, <1>7, <1>8, <1>9, <1>10 DEF QueueInv

LEMMA AddKeeps ==
    ASSUME QueueTypeOK, QueueInv, ConnTypeOK', NEW e \in Event, AddQueuedRequest(e)
    PROVE  QueueTypeOK' /\ QueueInv'
  <1> DEFINE r == event[e].req
             n == Len(outbox) + 1
  <1>1. /\ Goto(e, "registering") /\ At(e, "adding")
        /\ outbox' = Append(outbox, r)
        /\ UNCHANGED <<syncAsked, handedOver, processed, settled>>
    BY DEF AddQueuedRequest, historyVars
  <1>2. /\ event' \in [Event -> Handler]
        /\ event'[e].pc = "registering"
        /\ \A d \in Event : event'[d].list = event[d].list
        /\ \A d \in Event : d # e => event'[d] = event[d]
    BY <1>1, GotoDoes DEF QueuePc
  <1>3. r \in Request /\ outbox \in Seq(Request)
    BY DEF QueueTypeOK, Handler
  <1>4. /\ r \in ToSet(handedOver) /\ r \notin ToSet(outbox)
        /\ \A d \in Event : /\ r \notin ToSet(event[d].list)
                            /\ At(d, "adding") /\ event[d].req = r => d = e
    BY <1>1 DEF QueueInv, AddedByOne
  <1> HIDE DEF r
  <1>5. /\ outbox' \in Seq(Request)
        /\ DOMAIN outbox' = DOMAIN outbox \cup {n}
        /\ n \notin DOMAIN outbox /\ \A k \in DOMAIN outbox : k < n
        /\ \A k \in DOMAIN outbox : outbox'[k] = outbox[k]
        /\ outbox'[n] = r
        /\ ToSet(outbox') = ToSet(outbox) \cup {r}
    BY <1>1, <1>3, AppendedAt
  <1>a. n \in Int /\ \A k \in DOMAIN outbox : k \in Int
    BY <1>3
  <1> HIDE DEF n
  <1>6. QueueTypeOK'
    BY <1>1, <1>2, <1>5 DEF QueueTypeOK
  <1>7. AllHandedOver'
    <2>1. NoneTwice(outbox')
      BY <1>4, <1>5 DEF QueueInv, AllHandedOver, NoneTwice, ToSet
    <2>2. QED
      BY <1>1, <1>2, <1>4, <1>5, <2>1 DEF QueueInv, AllHandedOver
  <1>8. AddedByOne'
    BY <1>1, <1>2, <1>4, <1>5 DEF QueueInv, AddedByOne, At
  <1>9. HeadsSettled'
    BY <1>1, <1>2 DEF QueueInv, HeadsSettled, At
  <1>10. OlderFirst'
    <2>1. SUFFICES ASSUME NEW d \in Event, NEW k \in DOMAIN event[d].list,
                          NEW i \in DOMAIN outbox', NEW j \in DOMAIN outbox',
                          i < j, outbox'[j] = event[d].list[k],
                          CreatedBefore(outbox'[i], outbox'[j])
                   PROVE  \/ outbox'[i] \in settled
                          \/ \E m \in DOMAIN event[d].list :
                                m < k /\ event[d].list[m] = outbox'[i]
      BY <1>1, <1>2 DEF OlderFirst, CreatedBefore
    <2>2. outbox'[j] # r
      BY <1>4, <2>1 DEF ToSet
    <2>3. j \in DOMAIN outbox /\ i # n
      BY <1>5, <1>a, <2>1, <2>2
    <2>4. i \in DOMAIN outbox /\ outbox'[i] = outbox[i] /\ outbox'[j] = outbox[j]
      BY <1>5, <2>3
    <2>5. CreatedBefore(outbox[i], outbox[j])
      BY <2>1, <2>4 DEF CreatedBefore
    <2>6. \/ outbox[i] \in settled
          \/ \E m \in DOMAIN event[d].list : m < k /\ event[d].list[m] = outbox[i]
      BY <2>1, <2>3, <2>4, <2>5 DEF QueueInv, OlderFirst
    <2>7. QED
      BY <2>4, <2>6
  <1>11. QED
    BY <1>6, <1>7, <1>8, <1>9, <1>10 DEF QueueInv

LEMMA ListKeeps ==
    ASSUME QueueTypeOK, QueueInv, ConnTypeOK', NEW e \in Event, ListQueuedRequests(e)
    PROVE  QueueTypeOK' /\ QueueInv'
  <1>1. PICK list \in ByCreation : GoOn(e, list)
    BY DEF ListQueuedRequests
  <1>2. UNCHANGED <<outbox, syncAsked, handedOver, processed, settled>>
    BY DEF ListQueuedRequests, historyVars
  <1>3. /\ list \in [DOMAIN outbox -> ToSet(outbox)]
        /\ ToSet(list) = ToSet(outbox)
        /\ \A i, j \in DOMAIN list : i < j => CreatedBefore(list[i], list[j])
    BY DEF ByCreation
  <1>4. outbox \in Seq(Request) /\ ToSet(outbox) \subseteq Request
    BY DEF QueueTypeOK, ToSet
  <1>5. list \in Seq(Request)
    BY <1>3, <1>4
  <1>6. /\ event' \in [Event -> Handler]
        /\ event'[e].pc = IF list = <<>> THEN "idle" ELSE "sending"
        /\ event'[e].list = list
        /\ \A d \in Event : d # e => event'[d] = event[d]
    BY <1>1, <1>5, GoOnDoes
  <1>7. QueueTypeOK'
    BY <1>2, <1>6 DEF QueueTypeOK
  <1>8. AllHandedOver'
    BY <1>2, <1>3, <1>6 DEF QueueInv, AllHandedOver
  <1>9. AddedByOne'
    BY <1>2, <1>3, <1>6 DEF QueueInv, AddedByOne, At
  <1>10. HeadsSettled'
    BY <1>2, <1>6 DEF QueueInv, HeadsSettled, At
  <1>11. ASSUME NEW k \in DOMAIN list, NEW i \in DOMAIN outbox, NEW j \in DOMAIN outbox,
                i < j, outbox[j] = list[k], CreatedBefore(outbox[i], outbox[j])
         PROVE  \E m \in DOMAIN list : m < k /\ list[m] = outbox[i]
    <2>1. PICK m \in DOMAIN list : list[m] = outbox[i]
      BY <1>3 DEF ToSet
    <2>2. i \in Int /\ j \in Int /\ k \in Int /\ m \in Int
      BY <1>4, <1>5
    <2>3. m # k
      BY <1>11, <2>1, <2>2 DEF QueueInv, AllHandedOver, NoneTwice
    <2>4. ~(k < m)
      <3>1. SUFFICES ASSUME k < m
                     PROVE  FALSE
        OBVIOUS
      <3>2. CreatedBefore(outbox[j], outbox[i])
        BY <1>3, <1>11, <2>1, <3>1
      <3>3. PICK a \in DOMAIN handedOver, b \in DOMAIN handedOver :
               a < b /\ handedOver[a] = outbox[i] /\ handedOver[b] = outbox[j]
        BY <1>11 DEF CreatedBefore
      <3>4. PICK c \in DOMAIN handedOver, d \in DOMAIN handedOver :
               c < d /\ handedOver[c] = outbox[j] /\ handedOver[d] = outbox[i]
        BY <3>2 DEF CreatedBefore
      <3>5. a = d /\ b = c
        BY <3>3, <3>4 DEF QueueInv, AllHandedOver, NoneTwice
      <3>6. a \in Int /\ b \in Int
        BY DEF QueueTypeOK
      <3>7. QED
        BY <3>3, <3>4, <3>5, <3>6
    <2>5. QED
      BY <2>1, <2>2, <2>3, <2>4
  <1>12. OlderFirst'
    <2>1. SUFFICES ASSUME NEW d \in Event, NEW k \in DOMAIN event'[d].list,
                          NEW i \in DOMAIN outbox, NEW j \in DOMAIN outbox,
                          i < j, outbox[j] = event'[d].list[k],
                          CreatedBefore(outbox[i], outbox[j])
                   PROVE  \/ outbox[i] \in settled
                          \/ \E m \in DOMAIN event'[d].list :
                                m < k /\ event'[d].list[m] = outbox[i]
      BY <1>2 DEF OlderFirst, CreatedBefore
    <2>2. CASE d = e
      BY <1>6, <1>11, <2>1, <2>2
    <2>3. CASE d # e
      BY <1>6, <2>1, <2>3 DEF QueueInv, OlderFirst
    <2>4. QED
      BY <2>2, <2>3
  <1>13. QED
    BY <1>7, <1>8, <1>9, <1>10, <1>12 DEF QueueInv

(* What removing a request does to the outbox.                             *)
LEMMA DeletedShrinks ==
    ASSUME QueueTypeOK, NEW r, Deleted(r)
    PROVE  /\ outbox' \in Seq(Request) /\ OutboxShrinks
           /\ ToSet(outbox) \ ToSet(outbox') \subseteq {r}
  <1>0. outbox \in Seq(Request)
    BY DEF QueueTypeOK
  <1>1. CASE outbox' = outbox
    BY <1>0, <1>1, OutboxSame
  <1>2. ASSUME NEW p \in DOMAIN outbox, outbox[p] = r, outbox' = RemoveAt(outbox, p)
        PROVE  /\ outbox' \in Seq(Request) /\ OutboxShrinks
               /\ ToSet(outbox) \ ToSet(outbox') \subseteq {r}
    <2> DEFINE was(k) == IF k < p THEN k ELSE k + 1
    <2>1. /\ outbox' \in Seq(Request)
          /\ DOMAIN outbox' = 1..(Len(outbox) - 1)
          /\ \A k \in DOMAIN outbox' : outbox'[k] = IF k < p THEN outbox[k] ELSE outbox[k + 1]
      BY <1>0, <1>2, RemovedAt
    <2>2. DOMAIN outbox = 1..Len(outbox) /\ Len(outbox) \in Nat
      BY <1>0
    <2>3. \A k \in DOMAIN outbox' : was(k) \in DOMAIN outbox /\ outbox'[k] = outbox[was(k)]
      BY <1>2, <2>1, <2>2
    <2>4. \A i, j \in DOMAIN outbox' :
             (i < j => was(i) < was(j)) /\ (j < i => was(j) < was(i))
      BY <1>2, <2>1, <2>2
    <2>5. OutboxShrinks
      BY <2>3, <2>4 DEF OutboxShrinks
    <2>6. ASSUME NEW k \in DOMAIN outbox, outbox[k] # r
          PROVE  \E l \in DOMAIN outbox' : outbox'[l] = outbox[k]
      <3>1. CASE k < p
        BY <1>2, <2>1, <2>2, <3>1
      <3>2. CASE k > p
        <4>1. k - 1 \in DOMAIN outbox' /\ ~(k - 1 < p) /\ (k - 1) + 1 = k
          BY <1>2, <2>1, <2>2, <3>2
        <4>2. QED
          BY <2>1, <4>1
      <3>3. QED
        BY <1>2, <2>2, <2>6, <3>1, <3>2
    <2>7. ToSet(outbox) \ ToSet(outbox') \subseteq {r}
      BY <2>6 DEF ToSet
    <2>8. QED
      BY <2>1, <2>5, <2>7
  <1>3. QED
    BY <1>1, <1>2 DEF Deleted

LEMMA FetchKeeps ==
    ASSUME QueueTypeOK, QueueInv, ConnTypeOK', NEW e \in Event, Fetch(e)
    PROVE  QueueTypeOK' /\ QueueInv'
  <1> DEFINE r == Head(event[e].list)
  <1>1. /\ At(e, "sending")
        /\ UNCHANGED <<outbox, syncAsked, handedOver>>
    BY DEF Fetch
  <1>2. event[e].list \in Seq(Request) /\ event[e].list # <<>> /\ r \in Request
    <2>1. event[e].list \in Seq(Request) /\ event[e].list # <<>>
      BY <1>1 DEF QueueInv, HeadsSettled, At, QueueTypeOK, Handler
    <2>2. QED
      BY <2>1, TailAt
  <1> HIDE DEF r
  <1>3. /\ \/ Goto(e, "removing") /\ settled' = settled \cup {r}
           \/ Goto(e, "failing") /\ settled' \in {settled, settled \cup {r}}
        /\ Processed(r) \/ UNCHANGED processed
    BY DEF Fetch, FinalAnswer, r
  <1>4. processed' \in Seq(Request)
    <2>1. processed \in Seq(Request)
      BY DEF QueueTypeOK
    <2>2. Append(processed, r) \in Seq(Request)
      BY <1>2, <2>1, AppendedAt
    <2>3. processed' \in {processed, Append(processed, r)}
      BY <1>3 DEF Processed
    <2>4. QED
      BY <2>1, <2>2, <2>3
  <1>5. settled \subseteq settled' /\ settled' \subseteq Request
    BY <1>2, <1>3 DEF QueueTypeOK
  <1>6. CASE Goto(e, "failing")
    <2>1. /\ event' \in [Event -> Handler]
          /\ event'[e].pc = "failing"
          /\ event'[e].list = event[e].list
          /\ \A d \in Event : d # e => event'[d] = event[d]
      BY <1>6, GotoDoes DEF QueuePc
    <2>2. syncAsked' \in BOOLEAN
      BY <1>1 DEF QueueTypeOK
    <2>3. QED
      BY <1>1, <1>4, <1>5, <2>1, <2>2, MovedOn
  <1>7. CASE Goto(e, "removing") /\ settled' = settled \cup {r}
    <2>1. /\ event' \in [Event -> Handler]
          /\ event'[e].pc = "removing"
          /\ event'[e].list = event[e].list
          /\ \A d \in Event : d # e => event'[d] = event[d]
      BY <1>7, GotoDoes DEF QueuePc
    <2>2. QueueTypeOK'
      BY <1>1, <1>4, <1>5, <2>1 DEF QueueTypeOK
    <2>3. ListsShrink
      BY <2>1 DEF ListsShrink
    <2>4. NoneAdded
      BY <2>1 DEF NoneAdded
    <2>5. HeadsSettled'
      <3>1. /\ event'[e].list # <<>>
            /\ Head(event'[e].list) \in settled'
        BY <1>2, <1>7, <2>1 DEF r
      <3>2. QED
        BY <1>7, <2>1, <3>1 DEF QueueInv, HeadsSettled, At
    <2>6. QED
      BY <1>1, <1>5, <2>2, <2>3, <2>4, <2>5, OutboxSame, QueueKeeps
  <1>8. QED
    BY <1>3, <1>6, <1>7

LEMMA QueueStepInv ==
    ASSUME QueueTypeOK, ConnInv, QueueInv, [QueueNext]_flushVars
    PROVE  QueueTypeOK' /\ ConnInv' /\ QueueInv'
  <1>0. ConnTypeOK' /\ ConnInv'
    BY QueueStepsConn, ConnStepInv DEF QueueTypeOK
  <1> SUFFICES QueueTypeOK' /\ QueueInv'
    BY <1>0
  <1>1. ASSUME NEW e \in Event,
               \/ EnqueueRequest(e) \/ AddQueuedRequest(e) \/ ListQueuedRequests(e) \/ Fetch(e)
        PROVE  QueueTypeOK' /\ QueueInv'
    BY <1>0, <1>1, EnqueueKeeps, AddKeeps, ListKeeps, FetchKeeps
  <1>2. ASSUME NEW e \in Event, RegisterSync(e) \/ FlushMessage(e) \/ SyncFires(e)
        PROVE  QueueTypeOK' /\ QueueInv'
    <2>1. /\ Goto(e, "listing") /\ syncAsked' \in BOOLEAN
          /\ UNCHANGED <<outbox, handedOver, processed, settled>>
      BY <1>2 DEF RegisterSync, FlushMessage, SyncFires, historyVars, QueueTypeOK
    <2>2. /\ event' \in [Event -> Handler]
          /\ event'[e].pc = "listing"
          /\ event'[e].list = event[e].list
          /\ \A d \in Event : d # e => event'[d] = event[d]
      BY <2>1, GotoDoes DEF QueuePc
    <2>3. processed' \in Seq(Request) /\ settled \subseteq settled' /\ settled' \subseteq Request
      BY <2>1 DEF QueueTypeOK
    <2>4. QED
      BY <1>0, <2>1, <2>2, <2>3, MovedOn
  <1>3. ASSUME NEW e \in Event, RemoveQueuedRequest(e)
        PROVE  QueueTypeOK' /\ QueueInv'
    <2>1. /\ At(e, "removing") /\ Deleted(Head(event[e].list))
          /\ GoOn(e, Tail(event[e].list))
          /\ UNCHANGED <<syncAsked, handedOver, processed, settled>>
      BY <1>3 DEF RemoveQueuedRequest, historyVars
    <2>2. /\ event[e].list \in Seq(Request) /\ event[e].list # <<>>
          /\ Head(event[e].list) \in settled
      BY <2>1 DEF QueueInv, HeadsSettled, At, QueueTypeOK, Handler
    <2>3. Tail(event[e].list) \in Seq(Request)
      BY <2>2, TailAt
    <2>4. outbox' \in Seq(Request) /\ OutboxShrinks
      BY <2>1, DeletedShrinks
    <2>5. syncAsked' \in BOOLEAN
      BY <2>1 DEF QueueTypeOK
    <2>6. QED
      BY <1>0, <2>1, <2>2, <2>3, <2>4, <2>5, WentOn
  <1>4. ASSUME NEW e \in Event, WriteLost(e)
        PROVE  QueueTypeOK' /\ QueueInv'
    <2>1. /\ \/ At(e, "adding") /\ Goto(e, "registering")
             \/ At(e, "removing") /\ GoOn(e, Tail(event[e].list))
          /\ UNCHANGED <<outbox, syncAsked, handedOver, processed, settled>>
      BY <1>4 DEF WriteLost, historyVars
    <2>2. /\ syncAsked' \in BOOLEAN /\ outbox' \in Seq(Request) /\ OutboxShrinks
          /\ processed' \in Seq(Request) /\ settled \subseteq settled' /\ settled' \subseteq Request
      BY <2>1, OutboxSame DEF QueueTypeOK
    <2>3. CASE Goto(e, "registering")
      <3>1. /\ event' \in [Event -> Handler]
            /\ event'[e].pc = "registering"
            /\ event'[e].list = event[e].list
            /\ \A d \in Event : d # e => event'[d] = event[d]
        BY <2>3, GotoDoes DEF QueuePc
      <3>2. QED
        BY <1>0, <2>1, <2>2, <3>1, MovedOn
    <2>4. CASE At(e, "removing") /\ GoOn(e, Tail(event[e].list))
      <3>1. /\ event[e].list \in Seq(Request) /\ event[e].list # <<>>
            /\ Head(event[e].list) \in settled
        BY <2>4 DEF QueueInv, HeadsSettled, At, QueueTypeOK, Handler
      <3>2. Tail(event[e].list) \in Seq(Request)
        BY <3>1, TailAt
      <3>3. QED
        BY <1>0, <2>1, <2>2, <2>4, <3>1, <3>2, WentOn
    <2>5. QED
      BY <2>1, <2>3, <2>4
  <1>5. ASSUME NEW e \in Event, Fail(e)
        PROVE  QueueTypeOK' /\ QueueInv'
    <2>1. /\ GoOn(e, <<>>) /\ syncAsked' = TRUE
          /\ UNCHANGED <<outbox, handedOver, processed, settled>>
      BY <1>5 DEF Fail, FailFlush, historyVars
    <2>2. outbox' \in Seq(Request) /\ OutboxShrinks /\ <<>> \in Seq(Request)
      BY <2>1, OutboxSame DEF QueueTypeOK
    <2>3. QED
      BY <1>0, <2>1, <2>2, WentOn
  <1>6. ASSUME NEW e \in Event, RequestFails(e)
        PROVE  QueueTypeOK' /\ QueueInv'
    <2>1. /\ event' = [event EXCEPT ![e].pc = "idle", ![e].list = <<>>]
          /\ syncAsked' \in {syncAsked, TRUE}
          /\ UNCHANGED <<outbox, handedOver, processed, settled>>
      BY <1>6 DEF RequestFails, historyVars
    <2>2. /\ event' \in [Event -> Handler]
          /\ event'[e].pc = "idle" /\ event'[e].list = <<>>
          /\ \A d \in Event : d # e => event'[d] = event[d]
      <3>1. event \in [Event -> Handler] /\ <<>> \in Seq(Request)
        BY DEF QueueTypeOK
      <3>2. QED
        BY <2>1, <3>1 DEF Handler
    <2>3. /\ processed' \in Seq(Request) /\ settled \subseteq settled' /\ settled' \subseteq Request
          /\ syncAsked' \in BOOLEAN
      BY <2>1 DEF QueueTypeOK
    <2>4. QED
      BY <1>0, <2>1, <2>2, <2>3, MovedOn
  <1>7. CASE StopWorker
    <2>1. /\ event' = [e \in Event |-> [event[e] EXCEPT !.pc = "idle", !.list = <<>>]]
          /\ UNCHANGED <<outbox, syncAsked, handedOver, processed, settled>>
      BY <1>7 DEF StopWorker, historyVars
    <2>2. /\ event' \in [Event -> Handler]
          /\ \A d \in Event : event'[d].pc = "idle" /\ event'[d].list = <<>>
      <3>1. ASSUME NEW d \in Event
            PROVE  /\ [event[d] EXCEPT !.pc = "idle", !.list = <<>>] \in Handler
                   /\ [event[d] EXCEPT !.pc = "idle", !.list = <<>>].pc = "idle"
                   /\ [event[d] EXCEPT !.pc = "idle", !.list = <<>>].list = <<>>
        <4>1. event[d] \in Handler /\ <<>> \in Seq(Request)
          BY DEF QueueTypeOK
        <4>2. QED
          BY <4>1 DEF Handler
      <3>2. QED
        BY <2>1, <3>1
    <2>3. QueueTypeOK'
      BY <1>0, <2>1, <2>2 DEF QueueTypeOK
    <2>4. ListsShrink /\ NoneAdded /\ HeadsSettled'
      BY <2>2 DEF ListsShrink, NoneAdded, HeadsSettled, At
    <2>5. QED
      BY <2>1, <2>3, <2>4, OutboxSame, QueueKeeps
  <1>8. CASE UNCHANGED queueVars
    <2>1. QueueTypeOK'
      BY <1>0, <1>8 DEF queueVars, historyVars, QueueTypeOK
    <2>2. ListsShrink /\ NoneAdded /\ HeadsSettled'
      BY <1>8 DEF queueVars, historyVars, ListsShrink, NoneAdded, HeadsSettled, At, QueueInv
    <2>3. UNCHANGED <<outbox, handedOver, settled>>
      BY <1>8 DEF queueVars, historyVars
    <2>4. QED
      BY <2>1, <2>2, <2>3, OutboxSame, QueueKeeps
  <1>9. QED
    BY <1>1, <1>2, <1>3, <1>4, <1>5, <1>6, <1>7, <1>8 DEF QueueNext, Step, flushVars

QueueStrong == QueueTypeOK /\ ConnInv /\ QueueInv

LEMMA QueueStarts == QueueInit => QueueStrong
  <1> SUFFICES ASSUME QueueInit
               PROVE  QueueStrong
    OBVIOUS
  <1>1. ConnTypeOK /\ ConnInv
    BY ConnStarts
  <1>2. (CHOOSE r \in Request : TRUE) \in Request
    BY QueueConstants
  <1>3. /\ event \in [Event -> Handler]
        /\ \A e \in Event : event[e].pc = "idle" /\ event[e].list = <<>>
    BY <1>2 DEF QueueInit, Handler
  <1>4. /\ outbox = <<>> /\ syncAsked = FALSE
        /\ handedOver = <<>> /\ processed = <<>> /\ settled = {}
    BY DEF QueueInit
  <1>a. <<>> \in Seq(Request)
    OBVIOUS
  <1>5. QueueTypeOK
    BY <1>1, <1>3, <1>4, <1>a DEF QueueTypeOK
  <1>6. QueueInv
    BY <1>3, <1>4 DEF QueueInv, AllHandedOver, NoneTwice, AddedByOne, HeadsSettled,
                      OlderFirst, At, ToSet
  <1>7. QED
    BY <1>1, <1>5, <1>6 DEF QueueStrong

LEMMA QueueAlways == QueueSpec => []QueueStrong
  <1>1. QueueStrong /\ [QueueNext]_flushVars => QueueStrong'
    BY QueueStepInv DEF QueueStrong
  <1>2. QED
    BY <1>1, QueueStarts, PTL DEF QueueSpec

(* Every reachable state of the worker's outbox and of its connection is   *)
(* well typed, for any number of requests, events, handles and faults.     *)
THEOREM QueueTyped == QueueSpec => []QueueTypeOK
  <1>1. QueueStrong => QueueTypeOK
    BY DEF QueueStrong
  <1>2. QED
    BY <1>1, QueueAlways, PTL

(* A request leaves the outbox only after a final answer                   *)
(* (RemovedOnlySettled), however many flushes send it and remove it.       *)
THEOREM RemovalsAreSettled == QueueSpec => RemovedOnlySettled
  <1>1. QueueStrong /\ [QueueNext]_flushVars
          => [ToSet(outbox) \ ToSet(outbox') \subseteq settled]_outbox
    <2> DEFINE Gone == ToSet(outbox) \ ToSet(outbox')
    <2> SUFFICES ASSUME QueueStrong, [QueueNext]_flushVars, outbox' # outbox
                 PROVE  Gone \subseteq settled
      OBVIOUS
    <2>0. QueueTypeOK /\ QueueInv
      BY DEF QueueStrong
    <2>1. \E e \in Event : AddQueuedRequest(e) \/ RemoveQueuedRequest(e)
      BY DEF QueueNext, Step, EnqueueRequest, RegisterSync, FlushMessage, SyncFires,
             ListQueuedRequests, Fetch, Fail, RequestFails, WriteLost, StopWorker,
             queueVars, flushVars
    <2>2. ASSUME NEW e \in Event, AddQueuedRequest(e)
          PROVE  Gone \subseteq settled
      <3>1. outbox' = Append(outbox, event[e].req)
        BY <2>2 DEF AddQueuedRequest
      <3>2. outbox \in Seq(Request) /\ event[e].req \in Request
        BY <2>0 DEF QueueTypeOK, Handler
      <3>3. ToSet(outbox) \subseteq ToSet(outbox')
        BY <3>1, <3>2, AppendedAt
      <3>4. QED
        BY <3>3
    <2>3. ASSUME NEW e \in Event, RemoveQueuedRequest(e)
          PROVE  Gone \subseteq settled
      <3>1. Head(event[e].list) \in settled
        BY <2>0, <2>3 DEF RemoveQueuedRequest, QueueInv, HeadsSettled
      <3>2. Gone \subseteq {Head(event[e].list)}
        BY <2>0, <2>3, DeletedShrinks DEF RemoveQueuedRequest
      <3>3. QED
        BY <3>1, <3>2
    <2>4. QED
      BY <2>1, <2>2, <2>3
  <1>2. QED
    BY <1>1, QueueAlways, PTL DEF QueueSpec, RemovedOnlySettled

(* The server never processes a request while an older one of the outbox   *)
(* still waits for its final answer (ProcessedInOrder): a flush sends its  *)
(* list in order and ends at the first failure, so whatever it has passed  *)
(* over is settled, also while other flushes add, send and remove.         *)
THEOREM OlderOnesFirst == QueueSpec => ProcessedInOrder
  <1> DEFINE InOrder ==
        \A i, j \in DOMAIN outbox :
          /\ i < j /\ CreatedBefore(outbox[i], outbox[j])
          /\ processed' # processed /\ Last(processed') = outbox[j]
          => outbox[i] \in settled
  <1>1. QueueStrong /\ [QueueNext]_flushVars => InOrder
    <2> SUFFICES ASSUME QueueStrong, [QueueNext]_flushVars, processed' # processed,
                        NEW i \in DOMAIN outbox, NEW j \in DOMAIN outbox,
                        i < j, CreatedBefore(outbox[i], outbox[j]),
                        Last(processed') = outbox[j]
                 PROVE  outbox[i] \in settled
      OBVIOUS
    <2>0. QueueTypeOK /\ QueueInv
      BY DEF QueueStrong
    <2>1. PICK e \in Event : Fetch(e)
      BY DEF QueueNext, Step, EnqueueRequest, AddQueuedRequest, RegisterSync, FlushMessage,
             SyncFires, ListQueuedRequests, RemoveQueuedRequest, Fail, RequestFails,
             WriteLost, StopWorker, historyVars, queueVars, flushVars
    <2>2. event[e].list \in Seq(Request) /\ event[e].list # <<>>
      BY <2>0, <2>1 DEF Fetch, QueueInv, HeadsSettled, At, QueueTypeOK, Handler
    <2>3. /\ Head(event[e].list) = event[e].list[1] /\ 1 \in DOMAIN event[e].list
          /\ Head(event[e].list) \in Request
      BY <2>2, TailAt
    <2>4. processed' = Append(processed, Head(event[e].list))
      BY <2>1 DEF Fetch, Processed
    <2>5. Last(processed') = Head(event[e].list)
      <3>1. processed \in Seq(Request)
        BY <2>0 DEF QueueTypeOK
      <3>2. Len(processed') = Len(processed) + 1
        BY <2>3, <2>4, <3>1
      <3>3. QED
        BY <2>3, <2>4, <3>1, <3>2, AppendedAt DEF Last
    <2>6. outbox[j] = event[e].list[1]
      BY <2>3, <2>5
    <2>7. \/ outbox[i] \in settled
          \/ \E m \in DOMAIN event[e].list : m < 1 /\ event[e].list[m] = outbox[i]
      BY <2>0, <2>3, <2>6 DEF QueueInv, OlderFirst
    <2>8. \A m \in DOMAIN event[e].list : ~(m < 1)
      BY <2>2
    <2>9. QED
      BY <2>7, <2>8
  <1>2. QED
    BY <1>1, QueueAlways, PTL DEF QueueSpec, ProcessedInOrder
=============================================================================
