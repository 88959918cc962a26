----------------------------- MODULE Multipart -----------------------------
(***************************************************************************)
(* Reassembly of multipart pushes in the service worker (sw/src/index.js). *)
(*                                                                         *)
(* A payload too long for one push is sent as Total chunks of one id, all  *)
(* with the same createdAt, ttl and total.  They arrive in any order and   *)
(* more than once.  Accepting a chunk takes several IndexedDB requests;    *)
(* calls for one id run one after the other, in a chain of promises that   *)
(* lives in the worker's memory.  The clean-up of expired messages runs    *)
(* outside that chain.  The module follows one id.                         *)
(***************************************************************************)
EXTENDS Integers, FiniteSets, Sequences

CONSTANTS
    Arrival,    \* pushes that carry a chunk of the message
    Total,      \* meta.total
    Limits,     \* how many chunks may fit into maxTotalBytes
    TTL,        \* meta.ttlMs; the message is created at instant 0
    MaxTime,    \* bound: the clock stops here
    MaxFaults   \* bound: worker stops and failing requests in one behaviour

ASSUME MultipartConstants ==
    /\ Total \in Nat \ {0}
    /\ Limits \subseteq Nat \ {0} /\ Limits # {}
    /\ TTL \in Nat \ {0}
    /\ MaxTime \in Nat /\ MaxFaults \in Nat

VARIABLES
    now,
    fits,         \* chunks of this message that fit into maxTotalBytes
    pending,      \* receivedCount of the pending record; 0 if there is none
    chunks,       \* indexes in the chunk store
    done,         \* expiresAt of the done marker; 0 if there is none
    chain,        \* multipartLocks: the calls waiting for their turn, in order
    call,         \* call[a]: the handlePushPayload of arrival a
    faults,       \* faults injected so far
    handed,       \* history: how often the payload was handed on
    expired,      \* history: MULTIPART_EXPIRED was broadcast
    interrupted   \* history: a worker stop or a failing request has occurred

stores == <<pending, chunks, done>>
historyVars == <<handed, expired, interrupted>>
vars == <<now, fits, stores, chain, call, faults, historyVars>>

Index == 1..Total
ExpiresAt == TTL    \* createdAt + ttlMs

Cleaning == {"listing", "purging", "sweeping", "listingDone", "purgingDone"}
Accepting == {"checking", "forgetting", "reading", "dropping", "testing",
              "storing", "saving", "completing", "restoring", "clearing",
              "discarding", "emptying", "marking"}
Over == {"over", "stopped"}

Stage == {"idle", "queued", "restored"} \cup Cleaning \cup Accepting \cup Over

Call == [pc    : Stage,
         index : Index,
         count : Nat,     \* base.receivedCount
         stamp : Nat]     \* the last Date.now() it acts on

TypeOK ==
    /\ now \in Nat
    /\ fits \in Limits
    /\ pending \in Nat
    /\ chunks \subseteq Index
    /\ done \in Nat
    /\ chain \in Seq(Arrival)
    /\ call \in [Arrival -> Call]
    /\ faults \in Nat
    /\ handed \in Nat
    /\ expired \in BOOLEAN /\ interrupted \in BOOLEAN

Init ==
    /\ now = 0
    /\ fits \in Limits
    /\ pending = 0 /\ chunks = {} /\ done = 0
    /\ chain = <<>>
    /\ call = [a \in Arrival |-> [pc |-> "idle", index |-> 1, count |-> 0, stamp |-> 0]]
    /\ faults = 0
    /\ handed = 0 /\ expired = FALSE /\ interrupted = FALSE

-----------------------------------------------------------------------------
Fault == faults < MaxFaults /\ faults' = faults + 1 /\ interrupted' = TRUE

At(a, pc) == call[a].pc = pc
Goto(a, pc) == call' = [call EXCEPT ![a].pc = pc]
GotoAt(a, pc, instant) == call' = [call EXCEPT ![a].pc = pc, ![a].stamp = instant]
GotoWith(a, pc, count) ==
    call' = [call EXCEPT ![a].pc = pc, ![a].count = count, ![a].stamp = 0]

(* A call forgets what it does not need again.                             *)
Rest(a, pc) == call' = [call EXCEPT ![a].pc = pc, ![a].count = 0, ![a].stamp = 0]

(* acceptMultipartChunk: the call is appended to the chain of its id.      *)
Queue(a) ==
    /\ Rest(a, "queued")
    /\ chain' = Append(chain, a)

(* Whose turn it is; and a slip that lets calls overlap.                   *)
AnyTurn(a) == chain # <<>>
Turn(a) == chain # <<>> /\ Head(chain) = a

(* The call leaves the chain, and the next one has its turn.               *)
Leave(a, pc) ==
    /\ Rest(a, pc)
    /\ chain' = Tail(chain)

-----------------------------------------------------------------------------
(* Clean-up, at the start of a delivery if it is due                       *)

Receive(a) ==
    /\ At(a, "idle")
    /\ \E i \in Index, pc \in {"listing", "queued"} :
          /\ call' = [call EXCEPT ![a].pc = pc, ![a].index = i,
                                   ![a].stamp = IF pc = "listing" THEN now ELSE 0]
          /\ chain' = IF pc = "queued" THEN Append(chain, a) ELSE chain
    /\ UNCHANGED <<now, fits, stores, faults, historyVars>>

ListExpired(a) ==
    /\ At(a, "listing")
    /\ Goto(a, IF pending > 0 /\ ExpiresAt <= call[a].stamp
               THEN "purging" ELSE "listingDone")
    /\ UNCHANGED <<now, fits, stores, chain, faults, historyVars>>

PurgePending(a) ==
    /\ At(a, "purging")
    /\ Goto(a, "sweeping")
    /\ pending' = 0
    /\ UNCHANGED <<now, fits, chunks, done, chain, faults, historyVars>>

SweepChunks(a) ==
    /\ At(a, "sweeping")
    /\ Goto(a, "listingDone")
    /\ chunks' = {}
    /\ expired' = TRUE
    /\ UNCHANGED <<now, fits, pending, done, chain, faults, handed, interrupted>>

ListDone(a) ==
    /\ At(a, "listingDone")
    /\ \/ /\ done > 0 /\ done <= call[a].stamp
          /\ Goto(a, "purgingDone")
          /\ UNCHANGED chain
       \/ /\ ~(done > 0 /\ done <= call[a].stamp)
          /\ Queue(a)
    /\ UNCHANGED <<now, fits, stores, faults, historyVars>>

PurgeDone(a) ==
    /\ At(a, "purgingDone")
    /\ Queue(a)
    /\ done' = 0
    /\ UNCHANGED <<now, fits, pending, chunks, faults, historyVars>>

-----------------------------------------------------------------------------
(* acceptMultipartChunkInternal, one IndexedDB request after the other     *)

(* A chunk that comes too late is only reported.                           *)
Begin(a) ==
    /\ At(a, "queued") /\ Turn(a)
    /\ IF ExpiresAt <= now
       THEN Leave(a, "over") /\ expired' = TRUE
       ELSE Goto(a, "checking") /\ UNCHANGED <<chain, expired>>
    /\ UNCHANGED <<now, fits, stores, faults, handed, interrupted>>

(* A slip: the done marker is not consulted.                               *)
Unmarked == FALSE
MarkedDone == done > now

CheckDone(a) ==
    /\ At(a, "checking")
    /\ IF MarkedDone
       THEN Leave(a, "over")
       ELSE /\ GotoAt(a, IF done > 0 THEN "forgetting" ELSE "reading", now)
            /\ UNCHANGED chain
    /\ UNCHANGED <<now, fits, stores, faults, historyVars>>

ForgetDone(a) ==
    /\ At(a, "forgetting")
    /\ GotoAt(a, "reading", now)
    /\ done' = 0
    /\ UNCHANGED <<now, fits, pending, chunks, chain, faults, historyVars>>

ReadPending(a) ==
    /\ At(a, "reading")
    /\ IF pending > 0 /\ ExpiresAt <= call[a].stamp
       THEN GotoWith(a, "dropping", 0)
       ELSE GotoWith(a, "testing", pending)
    /\ UNCHANGED <<now, fits, stores, chain, faults, historyVars>>

(* It has expired while the call was under way.                            *)
DropExpired(a) ==
    /\ At(a, "dropping")
    /\ Goto(a, "testing")
    /\ pending' = 0
    /\ expired' = TRUE
    /\ UNCHANGED <<now, fits, chunks, done, chain, faults, handed, interrupted>>

StoredAs(a) == call[a].index

(* More bytes than maxTotalBytes.                                          *)
TooMuch(n) == n > fits

TestChunk(a) ==
    /\ At(a, "testing")
    /\ IF StoredAs(a) \in chunks
       THEN Leave(a, "over")
       ELSE /\ LET count == call[a].count + 1
               IN GotoWith(a, IF TooMuch(count) THEN "discarding" ELSE "storing", count)
            /\ UNCHANGED chain
    /\ UNCHANGED <<now, fits, stores, faults, historyVars>>

(* Everything received is thrown away.                                     *)
Discard(a) ==
    /\ At(a, "discarding")
    /\ Goto(a, "emptying")
    /\ pending' = 0
    /\ UNCHANGED <<now, fits, chunks, done, chain, faults, historyVars>>

StoreChunk(a) ==
    /\ At(a, "storing")
    /\ Goto(a, IF call[a].count < Total THEN "saving" ELSE "completing")
    /\ chunks' = chunks \cup {StoredAs(a)}
    /\ UNCHANGED <<now, fits, pending, done, chain, faults, historyVars>>

SavePending(a) ==
    /\ At(a, "saving")
    /\ Leave(a, "over")
    /\ pending' = call[a].count
    /\ UNCHANGED <<now, fits, chunks, done, faults, historyVars>>

Complete(a) ==
    /\ At(a, "completing")
    /\ Goto(a, "restoring")
    /\ pending' = 0
    /\ UNCHANGED <<now, fits, chunks, done, chain, faults, historyVars>>

(* restoreMultipartPayload throws if a chunk cannot be read or is missing, *)
(* or if all of them are too much: the message is given up.                *)
Restore(a) ==
    /\ At(a, "restoring")
    /\ \/ /\ Goto(a, IF chunks = Index /\ ~TooMuch(Total) THEN "clearing" ELSE "emptying")
          /\ UNCHANGED <<faults, interrupted>>
       \/ Goto(a, "emptying") /\ Fault
    /\ UNCHANGED <<now, fits, stores, chain, handed, expired>>

EmptyChunks(a) ==
    /\ At(a, "emptying")
    /\ Leave(a, "over")
    /\ chunks' = {}
    /\ UNCHANGED <<now, fits, pending, done, faults, historyVars>>

ClearChunks(a) ==
    /\ At(a, "clearing")
    /\ Goto(a, "marking")
    /\ chunks' = {}
    /\ UNCHANGED <<now, fits, pending, done, chain, faults, historyVars>>

MarkDone(a) ==
    /\ At(a, "marking")
    /\ Leave(a, "restored")
    /\ done' = now + 2 * TTL
    /\ UNCHANGED <<now, fits, pending, chunks, faults, historyVars>>

(* The restored payload goes through handlePushPayload as a push of its    *)
(* own: see Dedupe.  A clean-up is not due again so soon.                  *)
HandOn(a) ==
    /\ At(a, "restored")
    /\ Goto(a, "over")
    /\ handed' = handed + 1
    /\ UNCHANGED <<now, fits, stores, chain, faults, expired, interrupted>>

-----------------------------------------------------------------------------
(* Faults and time                                                         *)

(* A request is rejected: accepting the chunk ends there, and so does the  *)
(* clean-up, which must not keep the chunk from being accepted.            *)
RequestFails(a) ==
    /\ Fault
    /\ \/ call[a].pc \in Accepting \ {"restoring"} /\ Leave(a, "stopped")
       \/ call[a].pc \in Cleaning /\ Queue(a)
    /\ UNCHANGED <<now, fits, stores, handed, expired>>

(* The browser stops the worker; the chain is gone with it.                *)
StopWorker ==
    /\ Fault
    /\ chain' = <<>>
    /\ call' = [a \in Arrival |->
                  IF call[a].pc \in Over \cup {"idle"} THEN call[a]
                  ELSE [call[a] EXCEPT !.pc = "stopped", !.count = 0, !.stamp = 0]]
    /\ UNCHANGED <<now, fits, stores, handed, expired>>

Advance ==
    /\ now < MaxTime
    /\ now' = now + 1
    /\ UNCHANGED <<fits, stores, chain, call, faults, historyVars>>

Step(a) ==
    \/ ListExpired(a) \/ PurgePending(a) \/ SweepChunks(a) \/ ListDone(a) \/ PurgeDone(a)
    \/ Begin(a) \/ CheckDone(a) \/ ForgetDone(a) \/ ReadPending(a) \/ DropExpired(a)
    \/ TestChunk(a) \/ Discard(a) \/ StoreChunk(a) \/ SavePending(a)
    \/ Complete(a) \/ Restore(a) \/ EmptyChunks(a) \/ ClearChunks(a) \/ MarkDone(a)
    \/ HandOn(a)

Next ==
    \/ \E a \in Arrival : Receive(a) \/ Step(a) \/ RequestFails(a)
    \/ StopWorker
    \/ Advance

Spec == Init /\ [][Next]_vars

-----------------------------------------------------------------------------
(* Properties                                                              *)

Quiet == \A a \in Arrival : call[a].pc \in Over \cup {"idle"}
Received == {call[a].index : a \in {b \in Arrival : At(b, "over")}}

(* However often its chunks are pushed, wherever the worker is stopped or  *)
(* a request fails, the payload is handed on at most once.                 *)
HandedOnce == handed <= 1

(* Chunks that arrive at the same time are all counted: between two calls  *)
(* the count and the chunk store agree until the message expires, and once *)
(* every chunk has been accepted in time the payload has been handed on,   *)
(* if it is not over the limit.                                            *)
CompleteWhenReceived ==
    Quiet =>
      /\ ~interrupted /\ now < ExpiresAt => pending = Cardinality(chunks)
      /\ Received = Index /\ fits >= Total => handed = 1 \/ expired \/ interrupted
      /\ fits < Total => handed = 0

(* Does not hold: a stop between StoreChunk and SavePending loses the      *)
(* count of the chunk (project README, divergences).                       *)
CompleteDespiteRestart ==
    Quiet /\ Received = Index
    => handed = 1 \/ fits < Total \/ expired
=============================================================================
