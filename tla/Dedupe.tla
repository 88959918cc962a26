------------------------------- MODULE Dedupe -------------------------------
(***************************************************************************)
(* Delivery dedupe of the service worker (sw/src/index.js).                *)
(*                                                                         *)
(* One message may reach the worker several times: over the page's         *)
(* transport (REI_AMSG_DELIVER), as its Web Push backup, as a sender's     *)
(* retry.  Every arrival is one call of handlePushPayload.  The first one  *)
(* claims the message's key by adding a record to IndexedDB the     *)
(* notification and runs the business callback; later ones are duplicates, *)
(* which repair what the first one could not do.  Calls interleave at      *)
(* every await: each IndexedDB request is a transaction of its own.        *)
(*                                                                         *)
(* The module follows one key; records of different keys never meet.       *)
(***************************************************************************)
EXTENDS Integers, FiniteSets

CONSTANTS
    Delivery,     \* arrivals of the message
    NULL,
    TTL,          \* dedupe.ttlMs
    Renders,      \* what notification.show may decide at an arrival
    ShowMayFail,  \* TRUE: showNotification may reject
    MaxTime,      \* bound: the clock stops here
    MaxFaults     \* bound: worker stops and failing requests in one behaviour

Time == Nat

ASSUME DedupeConstants ==
    /\ NULL \notin [firstSeenAt : Time, shown : BOOLEAN, pending : BOOLEAN,
                    businessError : BOOLEAN]
    /\ TTL \in Nat \ {0}
    /\ Renders \subseteq BOOLEAN /\ Renders # {}
    /\ ShowMayFail \in BOOLEAN
    /\ MaxTime \in Nat /\ MaxFaults \in Nat

VARIABLES
    now,
    record,      \* the dedupe record of the key, or NULL
    call,        \* call[d]: the handlePushPayload of arrival d
    business,    \* business[d]: the business callback run on behalf of d
    faults,      \* faults injected so far
    reported,    \* history: first deliveries that put a failed business on record
    raced,       \* history: a write fell between a read and the write based on it
    interrupted  \* history: a worker stop or a failing request has occurred

historyVars == <<reported, raced, interrupted>>
vars == <<now, record, call, business, faults, historyVars>>

Record == [firstSeenAt : Time, shown : BOOLEAN, pending : BOOLEAN,
           businessError : BOOLEAN]

Claiming == {"idle", "adding", "reading", "deleting", "readding"}
First == {"dispatching", "notifying", "awaiting", "reporting", "writing"}
Duplicate == {"duplicate", "showing", "marking", "checking", "rerunning",
              "repairing", "rewriting"}
Over == {"clean", "error", "rejected", "stopped"}    \* how a call has ended

Stage == Claiming \cup First \cup Duplicate \cup Over

Call == [pc       : Stage,
         stamp    : Time,                   \* Date.now() of the claim
         first    : BOOLEAN,                \* it has claimed the key
         existing : Record \cup {NULL},     \* claim.existing
         base     : Record \cup {NULL}]     \* `latest' of a merge

TypeOK ==
    /\ now \in Time
    /\ record \in Record \cup {NULL}
    /\ call \in [Delivery -> Call]
    /\ business \in [Delivery -> {"none", "running", "landed", "failed"}]
    /\ faults \in Nat
    /\ reported \subseteq Delivery
    /\ raced \in BOOLEAN /\ interrupted \in BOOLEAN

Init ==
    /\ now = 0
    /\ record = NULL
    /\ call = [d \in Delivery |-> [pc |-> "idle", stamp |-> 0, first |-> FALSE,
                                   existing |-> NULL, base |-> NULL]]
    /\ business = [d \in Delivery |-> "none"]
    /\ faults = 0
    /\ reported = {}
    /\ raced = FALSE /\ interrupted = FALSE

-----------------------------------------------------------------------------
(* Writing the record                                                      *)

At(d, pc) == call[d].pc = pc
Expired(r, instant) == r.firstSeenAt + TTL <= instant

(* A merge reads the latest record in one transaction and writes it back,  *)
(* with a change, in another; the renewal of an expired claim deletes in   *)
(* one what it has read in another; the first delivery puts the record of  *)
(* its claim again.                                                        *)
Merging(d) == call[d].pc \in {"marking", "writing", "rewriting"}
Renewing(d) == At(d, "deleting")
Unsettled(d) == call[d].pc \in {"dispatching", "notifying"}
WillWrite(d) == Merging(d) \/ Renewing(d) \/ Unsettled(d)

Write(d, r) ==
    /\ record' = r
    /\ raced' = (raced \/ \E e \in Delivery \ {d} : WillWrite(e))

Goto(d, pc) == call' = [call EXCEPT ![d].pc = pc]
GotoWith(d, pc, base) == call' = [call EXCEPT ![d].pc = pc, ![d].base = base]

Fault == faults < MaxFaults /\ faults' = faults + 1 /\ interrupted' = TRUE

(* The write throws: the code logs it and goes on.                         *)
WriteFails == Fault /\ UNCHANGED <<record, raced>>

Written(d, r) == Write(d, r) /\ UNCHANGED <<faults, interrupted>>

-----------------------------------------------------------------------------
(* claimDedupe                                                             *)

(* The record of a new claim.                                              *)
Claimed(stamp) == [firstSeenAt |-> stamp, shown |-> FALSE, pending |-> TRUE,
                   businessError |-> FALSE]

(* The periodic clean-up may be due; then the expired record goes first.   *)
Arrive(d) ==
    /\ At(d, "idle")
    /\ call' = [call EXCEPT ![d].pc = "adding", ![d].stamp = now]
    /\ \/ UNCHANGED <<record, raced>>
       \/ record # NULL /\ Expired(record, now) /\ Write(d, NULL)
    /\ UNCHANGED <<now, business, faults, reported, interrupted>>

(* A slip: the record is put without asking whether there is one.          *)
AddRegardless(d, refusedPc) ==
    /\ Write(d, Claimed(call[d].stamp))
    /\ call' = [call EXCEPT ![d].pc = "dispatching", ![d].first = TRUE]

(* addDedupeRecord succeeds only while there is no record of the key.      *)
Add(d, refusedPc) ==
    IF record = NULL
    THEN /\ Write(d, Claimed(call[d].stamp))
         /\ call' = [call EXCEPT ![d].pc = "dispatching", ![d].first = TRUE]
    ELSE /\ Goto(d, refusedPc)
         /\ UNCHANGED <<record, raced>>

AddRecord(d) ==
    /\ \/ At(d, "adding") /\ Add(d, "reading")
       \/ At(d, "readding") /\ Add(d, "duplicate")
    /\ UNCHANGED <<now, business, faults, reported, interrupted>>

ReadExisting(d) ==
    /\ At(d, "reading")
    /\ LET pc == IF record # NULL /\ Expired(record, call[d].stamp)
                 THEN "deleting" ELSE "duplicate"
       IN call' = [call EXCEPT ![d].pc = pc, ![d].existing = record]
    /\ UNCHANGED <<now, record, business, faults, historyVars>>

(* Deletes whatever record the key has by now.                             *)
DeleteExpired(d) ==
    /\ At(d, "deleting")
    /\ Goto(d, "readding")
    /\ Write(d, NULL)
    /\ UNCHANGED <<now, business, faults, reported, interrupted>>

-----------------------------------------------------------------------------
(* The first delivery: dispatchBusinessPayload                             *)

(* The business callback is started beside the notification.               *)
Dispatch(d) ==
    /\ At(d, "dispatching")
    /\ Goto(d, "notifying")
    /\ business' = [business EXCEPT ![d] = "running"]
    /\ UNCHANGED <<now, record, faults, historyVars>>

Shown == {TRUE} \cap Renders
NotShown == IF ShowMayFail \/ FALSE \in Renders THEN {FALSE} ELSE {}

(* The record of the claim with the outcome; and a slip that settles it    *)
(* only when showNotification has resolved.                                *)
SettledIfShown(d, shown) ==
    [Claimed(call[d].stamp) EXCEPT !.shown = shown, !.pending = ~shown]
Settled(d, shown) == [Claimed(call[d].stamp) EXCEPT !.shown = shown, !.pending = FALSE]

(* updateDedupeNotificationState puts it over whatever is there, while the *)
(* business callback may still be running.                                 *)
SettleNotification(d) ==
    /\ At(d, "notifying")
    /\ Goto(d, "awaiting")
    /\ \E shown \in Shown \cup NotShown :
          Written(d, Settled(d, shown)) \/ WriteFails
    /\ UNCHANGED <<now, business, reported>>

(* The callback returns, resolves, throws or rejects; or never settles.    *)
BusinessSettles(d) ==
    /\ business[d] = "running"
    /\ ~At(d, "stopped")
    /\ \E outcome \in {"landed", "failed"} :
          business' = [business EXCEPT ![d] = outcome]
    /\ UNCHANGED <<now, record, call, faults, historyVars>>

BusinessAwaited(d) ==
    /\ At(d, "awaiting")
    /\ business[d] # "running"
    /\ Goto(d, IF business[d] = "landed" THEN "clean" ELSE "reporting")
    /\ UNCHANGED <<now, record, business, faults, historyVars>>

(* The latest record still belongs to the given claim.                     *)
SameClaim(firstSeenAt) == record # NULL /\ record.firstSeenAt = firstSeenAt

(* updateDedupeBusinessState, its read ...                                 *)
ReadForReport(d) ==
    /\ At(d, "reporting")
    /\ IF SameClaim(call[d].stamp)
       THEN GotoWith(d, "writing", record) ELSE Goto(d, "error")
    /\ UNCHANGED <<now, record, business, faults, historyVars>>

Reported(d) == [call[d].base EXCEPT !.businessError = TRUE]

(* ... and its write.                                                      *)
WriteReport(d) ==
    /\ At(d, "writing")
    /\ Goto(d, "error")
    /\ \/ Written(d, Reported(d))
       \/ WriteFails
    /\ reported' = reported \cup {d}
    /\ UNCHANGED <<now, business>>

-----------------------------------------------------------------------------
(* A duplicate: repairs                                                    *)

(* maybeShowDuplicateNotification: a notification the first delivery has   *)
(* not shown may be due by now.                                            *)
MayRepairNotification(d) ==
    call[d].existing # NULL /\ ~call[d].existing.shown /\ ~call[d].existing.pending

SkipNotification(d) ==
    /\ At(d, "duplicate")
    /\ ~MayRepairNotification(d) \/ FALSE \in Renders
    /\ Goto(d, "checking")
    /\ UNCHANGED <<now, record, business, faults, historyVars>>

(* A rejection here ends the call: REI_AMSG_DELIVER answers ok: false.     *)
RepairNotification(d) ==
    /\ At(d, "duplicate")
    /\ MayRepairNotification(d)
    /\ TRUE \in Renders
    /\ \/ Goto(d, "showing")
       \/ ShowMayFail /\ Goto(d, "rejected")
    /\ UNCHANGED <<now, record, business, faults, historyVars>>

(* What MarkShown merges onto: the latest record, or what was read at the  *)
(* claim if there is none any more; and a slip that takes the latter.      *)
MergeOntoSnapshot(d) == call[d].existing
MergeOnto(d) == IF record # NULL THEN record ELSE call[d].existing

ReadAfterShow(d) ==
    /\ At(d, "showing")
    /\ GotoWith(d, "marking", MergeOnto(d))
    /\ UNCHANGED <<now, record, business, faults, historyVars>>

(* A failing write ends the call.                                          *)
MarkShown(d) ==
    /\ At(d, "marking")
    /\ \/ /\ Written(d, [call[d].base EXCEPT !.shown = TRUE, !.pending = FALSE])
          /\ Goto(d, "checking")
       \/ WriteFails /\ Goto(d, "rejected")
    /\ UNCHANGED <<now, business, reported>>

(* A slip: whatever is not known to have landed is run again.              *)
RerunUnlessSettled(d) ==
    /\ call[d].existing # NULL
    /\ record # NULL => record.businessError \/ record.pending

(* readDuplicateBusinessError: the live record of the same claim decides,  *)
(* else, as when it cannot be read, what was read at the claim.            *)
ErrorAtClaim(d) == call[d].existing # NULL /\ call[d].existing.businessError
ErrorOnRecord(d) ==
    /\ call[d].existing # NULL
    /\ IF SameClaim(call[d].existing.firstSeenAt)
       THEN record.businessError ELSE call[d].existing.businessError

CheckBusiness(d) ==
    /\ At(d, "checking")
    /\ \E failed \in {ErrorOnRecord(d), ErrorAtClaim(d)} :
          /\ \/ failed = ErrorOnRecord(d) /\ UNCHANGED <<faults, interrupted>>
             \/ Fault
          /\ IF failed
             THEN /\ Goto(d, "rerunning")
                  /\ business' = [business EXCEPT ![d] = "running"]
             ELSE /\ Goto(d, "clean")
                  /\ UNCHANGED business
    /\ UNCHANGED <<now, record, reported, raced>>

RerunAwaited(d) ==
    /\ At(d, "rerunning")
    /\ business[d] # "running"
    /\ Goto(d, "repairing")
    /\ UNCHANGED <<now, record, business, faults, historyVars>>

Answer(d) == IF business[d] = "landed" THEN "clean" ELSE "error"

(* repairDuplicateBusiness: the outcome is merged onto the latest record   *)
(* of the claim this call is a duplicate of.                               *)
ReadForRepair(d) ==
    /\ At(d, "repairing")
    /\ IF SameClaim(call[d].existing.firstSeenAt)
       THEN GotoWith(d, "rewriting", record) ELSE Goto(d, Answer(d))
    /\ UNCHANGED <<now, record, business, faults, historyVars>>

(* A slip: the error is taken off the record whatever the outcome.         *)
RepairedRegardless(d) == [call[d].base EXCEPT !.businessError = FALSE]
Repaired(d) == [call[d].base EXCEPT !.businessError = (business[d] = "failed")]

WriteRepair(d) ==
    /\ At(d, "rewriting")
    /\ Goto(d, Answer(d))
    /\ Written(d, Repaired(d)) \/ WriteFails
    /\ UNCHANGED <<now, business, reported>>

-----------------------------------------------------------------------------
(* A request other than a merge's write is rejected: the call ends there,  *)
(* unless it only keeps the outcome of a business callback.                *)
RequestFails(d) ==
    /\ Fault
    /\ \/ call[d].pc \in (Claiming \ {"idle"}) \cup {"showing"} /\ Goto(d, "rejected")
       \/ At(d, "reporting") /\ Goto(d, "error")
       \/ At(d, "repairing") /\ Goto(d, Answer(d))
    /\ UNCHANGED <<now, record, business, reported, raced>>

(* The browser stops the worker: every call under way is gone.             *)
StopWorker ==
    /\ Fault
    /\ call' = [d \in Delivery |->
                  IF call[d].pc \in Over \cup {"idle"} THEN call[d]
                  ELSE [call[d] EXCEPT !.pc = "stopped"]]
    /\ UNCHANGED <<now, record, business, reported, raced>>

Advance ==
    /\ now < MaxTime
    /\ now' = now + 1
    /\ UNCHANGED <<record, call, business, faults, historyVars>>

Step(d) ==
    \/ AddRecord(d) \/ ReadExisting(d) \/ DeleteExpired(d)
    \/ Dispatch(d) \/ SettleNotification(d) \/ BusinessAwaited(d)
    \/ ReadForReport(d) \/ WriteReport(d)
    \/ SkipNotification(d) \/ RepairNotification(d) \/ ReadAfterShow(d) \/ MarkShown(d)
    \/ CheckBusiness(d) \/ RerunAwaited(d) \/ ReadForRepair(d) \/ WriteRepair(d)

Next ==
    \/ \E d \in Delivery : Arrive(d) \/ Step(d) \/ BusinessSettles(d) \/ RequestFails(d)
    \/ StopWorker
    \/ Advance

Spec == Init /\ [][Next]_vars

-----------------------------------------------------------------------------
(* Properties                                                              *)

(* A message is claimed anew only when the TTL of every earlier claim is   *)
(* over: one arrival alone dispatches it.  The exception is a write that   *)
(* fell between somebody's read and the write based on it.                 *)
OneFirst ==
    [][\A d, e \in Delivery :
          d # e /\ ~call[d].first /\ call'[d].first /\ call[e].first
              => call[e].stamp + TTL <= now \/ raced]_vars

(* A duplicate runs the business callback only when the claim it is a      *)
(* duplicate of is known to have failed: never beside a first run that is  *)
(* still under way or has landed.                                          *)
RerunOnlyAfterFailure ==
    [][\A d \in Delivery :
          At(d, "checking") /\ At(d, "rerunning")'
              => \E e \in reported : call[e].stamp = call[d].existing.firstSeenAt]_vars

(* Within the TTL, failures that every first delivery of a claim has       *)
(* reported stay on record until a run has landed, through the merges of   *)
(* duplicates.  Excepted: a write that falls between the read and the      *)
(* write of another merge (raced), which loses the failure, and a stop or  *)
(* a failing request (interrupted), which may keep it from the record.     *)
FailureRemembered ==
    /\ record # NULL /\ ~Expired(record, now)
    /\ {d \in Delivery : call[d].first /\ call[d].stamp = record.firstSeenAt} \subseteq reported
    /\ \A d \in Delivery : business[d] # "landed"
    => record.businessError \/ raced \/ interrupted

(* The answer to a delivery is clean only if the business callback has     *)
(* landed or the first run is still under way, within the TTL of the claim *)
(* it is a duplicate of; a race of merges or a fault may have lost the     *)
(* outcome.                                                                *)
AnswersHonest ==
    [][\A d \in Delivery :
          /\ ~At(d, "clean") /\ At(d, "clean")'
          /\ \/ call[d].first
             \/ call[d].existing # NULL /\ ~Expired(call[d].existing, now)
          => \/ \E e \in Delivery : business[e] = "landed"
             \/ \E e \in Delivery : call[e].pc \in First
             \/ raced \/ interrupted']_vars

(* The record says that the notification is pending only while the first   *)
(* delivery is still deciding about it: not while its business callback    *)
(* runs, and not after showNotification has rejected, or every backup of   *)
(* the message would be turned away.                                       *)
PendingMeansUnderWay ==
    record # NULL /\ record.pending
    => \/ \E d \in Delivery : Unsettled(d) /\ call[d].stamp = record.firstSeenAt
       \/ raced \/ interrupted
=============================================================================
