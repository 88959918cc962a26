--------------------------- MODULE RequestQueue ----------------------------
(***************************************************************************)
(* The request outbox of the service worker (sw/src/index.js): requests a  *)
(* page hands over are stored in IndexedDB and sent in order, at once, on  *)
(* demand, and on background sync.  Every event of the worker runs a flush *)
(* of its own, so several flushes of one outbox may be under way.  Every   *)
(* access to the store goes through the connection of StoreConnection.     *)
(***************************************************************************)
EXTENDS StoreConnection, Sequences, SequencesExt

CONSTANTS
    Request,     \* requests pages hand over
    Malformed    \* stands for those without a usable url or body

ASSUME QueueConstants == Request # {} /\ Malformed \notin Request

VARIABLES
    outbox,      \* the object store, in the order of its ids
    event,       \* event[e]: the handler of event e
    syncAsked,   \* a background sync is registered
    handedOver,  \* requests pages have handed over, in the order of createdAt
    processed,   \* history: requests in the order their first copy was processed
    settled      \* history: requests that got a final answer

historyVars == <<processed, settled>>
queueVars == <<outbox, event, syncAsked, handedOver, historyVars>>
flushVars == <<queueVars, connVars>>

Handler == [pc   : {"idle", "adding", "registering", "listing", "sending",
                    "removing", "failing"},
            req  : Request,          \* what it adds
            list : Seq(Request)]     \* what its flush still has to send

QueueTypeOK ==
    /\ outbox \in Seq(Request)
    /\ event \in [Event -> Handler]
    /\ syncAsked \in BOOLEAN
    /\ ConnTypeOK
    /\ handedOver \in Seq(Request)
    /\ processed \in Seq(Request)
    /\ settled \subseteq Request

QueueInit ==
    /\ outbox = <<>>
    /\ event = [e \in Event |-> [pc |-> "idle", req |-> CHOOSE r \in Request : TRUE,
                                  list |-> <<>>]]
    /\ syncAsked = FALSE
    /\ ConnInit
    /\ handedOver = <<>> /\ processed = <<>> /\ settled = {}

-----------------------------------------------------------------------------
At(e, pc) == event[e].pc = pc
Goto(e, pc) == event' = [event EXCEPT ![e].pc = pc]

(* normalizeQueuedRequest throws on a malformed request, which is answered *)
(* and forgotten.                                                          *)
Accepted == Request

(* enqueueAndFlush: stamp, add, ask for a background sync, flush.          *)
EnqueueRequest(e) ==
    /\ At(e, "idle")
    /\ \E r \in Accepted \ ToSet(handedOver) :
          /\ event' = [event EXCEPT ![e].pc = "adding", ![e].req = r]
          /\ handedOver' = Append(handedOver, r)
    /\ Connect(e)
    /\ UNCHANGED <<outbox, syncAsked, historyVars>>

AddQueuedRequest(e) ==
    /\ At(e, "adding")
    /\ Completed(e)
    /\ Goto(e, "registering")
    /\ outbox' = Append(outbox, event[e].req)
    /\ UNCHANGED <<syncAsked, handedOver, historyVars>>

RegisterSync(e) ==
    /\ At(e, "registering")
    /\ Goto(e, "listing")
    /\ Connect(e)
    /\ syncAsked' = TRUE
    /\ UNCHANGED <<outbox, handedOver, historyVars>>

FlushMessage(e) ==
    /\ At(e, "idle")
    /\ Goto(e, "listing")
    /\ Connect(e)
    /\ UNCHANGED <<outbox, syncAsked, handedOver, historyVars>>

(* The browser fires the sync event once for a registration.               *)
SyncFires(e) ==
    /\ At(e, "idle")
    /\ syncAsked
    /\ syncAsked' = FALSE
    /\ Goto(e, "listing")
    /\ Connect(e)
    /\ UNCHANGED <<outbox, handedOver, historyVars>>

(* flushQueuedRequests goes on with the rest of its list.                  *)
GoOn(e, rest) ==
    event' = [event EXCEPT ![e].list = rest,
                           ![e].pc = IF rest = <<>> THEN "idle" ELSE "sending"]

CreatedBefore(r, s) ==
    \E i, j \in DOMAIN handedOver : i < j /\ handedOver[i] = r /\ handedOver[j] = s

(* What getAll returns, sorted by createdAt.                               *)
ByCreation ==
    {list \in [DOMAIN outbox -> ToSet(outbox)] :
        /\ ToSet(list) = ToSet(outbox)
        /\ \A i, j \in DOMAIN list : i < j => CreatedBefore(list[i], list[j])}

ListQueuedRequests(e) ==
    /\ At(e, "listing")
    /\ Completed(e)
    /\ \E list \in ByCreation : GoOn(e, list)
    /\ UNCHANGED <<outbox, syncAsked, handedOver, historyVars>>

Processed(r) ==
    processed' = IF r \in ToSet(processed) THEN processed ELSE Append(processed, r)

(* An answer of 2xx or 4xx is final; and a slip that takes any answer.     *)
AnyAnswer == {"ok", "refused", "unavailable"}
FinalAnswer == {"ok", "refused"}

(* fetch: the request is processed and answered, or refused, or the server *)
(* is unavailable (5xx); or it is processed and the answer is lost; or the *)
(* network is down.                                                        *)
Fetch(e) ==
    /\ At(e, "sending")
    /\ LET r == Head(event[e].list)
       IN \/ \E answer \in {"ok", "refused", "unavailable"} :
                /\ IF answer \in FinalAnswer THEN Goto(e, "removing") /\ Connect(e)
                   ELSE Goto(e, "failing") /\ UNCHANGED connVars
                /\ settled' = IF answer = "unavailable" THEN settled
                              ELSE settled \cup {r}
                /\ IF answer = "ok" THEN Processed(r) ELSE UNCHANGED processed
          \/ /\ Goto(e, "failing")
             /\ Processed(r) \/ UNCHANGED processed
             /\ UNCHANGED <<settled, connVars>>
    /\ UNCHANGED <<outbox, syncAsked, handedOver>>

(* delete(id) is no failure when another flush has removed the request.    *)
Deleted(r) ==
    IF r \in ToSet(outbox)
    THEN \E i \in DOMAIN outbox : outbox[i] = r /\ outbox' = RemoveAt(outbox, i)
    ELSE UNCHANGED outbox

RemoveQueuedRequest(e) ==
    /\ At(e, "removing")
    /\ Completed(e)
    /\ Deleted(Head(event[e].list))
    /\ GoOn(e, Tail(event[e].list))
    /\ UNCHANGED <<syncAsked, handedOver, historyVars>>

(* addRequest and deleteRequest answer before the transaction commits: the *)
(* handle may die in between, and the handler goes on without its write.   *)
WriteLost(e) ==
    /\ Dies(e)
    /\ \/ At(e, "adding") /\ Goto(e, "registering")
       \/ At(e, "removing") /\ GoOn(e, Tail(event[e].list))
    /\ UNCHANGED <<outbox, syncAsked, handedOver, historyVars>>

(* Slips: the flush goes on after a failure, or ends without a sync.       *)
FailAndGoOn(e) == GoOn(e, Tail(event[e].list)) /\ syncAsked' = TRUE
FailQuietly(e) == GoOn(e, <<>>) /\ UNCHANGED syncAsked
FailFlush(e) == GoOn(e, <<>>) /\ syncAsked' = TRUE

(* The first failure ends the flush.                                       *)
Fail(e) ==
    /\ At(e, "failing")
    /\ FailFlush(e)
    /\ UNCHANGED <<outbox, handedOver, historyVars, connVars>>

(* The operation is rejected, and with it the event: the page is answered  *)
(* ok: false; the browser may fire a sync once more.                       *)
RequestFails(e) ==
    /\ Doing(e, "rejected")
    /\ io' = [io EXCEPT ![e] = NoOperation]
    /\ event' = [event EXCEPT ![e].pc = "idle", ![e].list = <<>>]
    /\ syncAsked' \in {syncAsked, TRUE}
    /\ UNCHANGED <<outbox, handedOver, historyVars, conn, cached, deaths, faults>>

(* The browser stops the worker; the outbox survives.                      *)
StopWorker ==
    /\ Fault
    /\ ConnectionsGone
    /\ event' = [e \in Event |-> [event[e] EXCEPT !.pc = "idle", !.list = <<>>]]
    /\ UNCHANGED <<outbox, syncAsked, handedOver, historyVars>>

Step(e) ==
    \/ OpenSucceeds(e) /\ UNCHANGED queueVars
    \/ AddQueuedRequest(e) \/ RegisterSync(e) \/ ListQueuedRequests(e)
    \/ Fetch(e) \/ RemoveQueuedRequest(e) \/ Fail(e) \/ RequestFails(e)

QueueNext ==
    \/ \E e \in Event : EnqueueRequest(e) \/ FlushMessage(e) \/ SyncFires(e) \/ Step(e)
                       \/ WriteLost(e)
    \/ ConnNext /\ UNCHANGED queueVars
    \/ StopWorker

QueueSpec == QueueInit /\ [][QueueNext]_flushVars

(* The worker goes on with what it has begun; the browser fires a sync     *)
(* that is registered; a request that is sent again and again is answered  *)
(* in the end.  Pages and worker stops are not fair.                       *)
Answered(e) == Fetch(e) /\ At(e, "removing")'
FairSpec ==
    /\ QueueSpec
    /\ \A e \in Event : WF_flushVars(Step(e)) /\ SF_flushVars(Answered(e))
    /\ WF_flushVars(\E e \in Event : SyncFires(e))

-----------------------------------------------------------------------------
(* Properties                                                              *)

(* A request leaves the outbox only after a final answer, although several *)
(* flushes send and remove it.                                             *)
RemovedOnlySettled ==
    [][ToSet(outbox) \ ToSet(outbox') \subseteq settled]_outbox

(* The server never processes a request while one that is older, by its    *)
(* place in the outbox and by createdAt, still waits for its final answer. *)
ProcessedInOrder ==
    [][\A i, j \in DOMAIN outbox :
          /\ i < j /\ CreatedBefore(outbox[i], outbox[j])
          /\ processed' # processed /\ Last(processed') = outbox[j]
          => outbox[i] \in settled]_flushVars

(* Every queued request gets its final answer and leaves the outbox,       *)
(* unless a fault leaves it waiting for the next event of the page.        *)
EventuallySent ==
    \A r \in Request : r \in ToSet(outbox) ~> r \notin ToSet(outbox) \/ faults > 0
=============================================================================
