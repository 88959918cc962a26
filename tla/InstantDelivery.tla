--------------------------- MODULE InstantDelivery ---------------------------
(***************************************************************************)
(* An instant request from both ends: the server that runs the model and   *)
(* sends what it says over the stream and as pushes, and the client that   *)
(* waits for the stream, for a receipt and for its timer.  They share the  *)
(* connection, which either end or the network may drop.                   *)
(***************************************************************************)
EXTENDS Deliver

vars == <<serverVars, clientVars>>

TypeOK == ServerTypeOK /\ ClientTypeOK

Init == ServerInit /\ ClientInit

(* Steps of the client before the request is out, and of its callbacks.    *)
ClientAlone ==
    /\ Begin \/ BuildThrows \/ CancelledWhileBuilding
    /\ UNCHANGED serverVars
ClientOnConnection ==
    /\ \/ ReadFrame \/ ChunkHandled \/ ReadEnd \/ ReadAnswer \/ ConnectionFails
       \/ ReceiptArrives \/ Abort \/ TimerFires \/ Advance \/ Disconnect
    /\ UNCHANGED <<srv, mode, hooked, wrap, round, left, items, usable,
                   doneSent, thrown, status>>

Next ==
    \/ ServerStep /\ UNCHANGED clientVars
    \/ ClientAlone
    \/ Dispatch
    \/ ClientOnConnection

Spec == Init /\ [][Next]_vars

-----------------------------------------------------------------------------
(* Properties.                                                             *)

(* Each outcome of deliver() means what its typedef says (index.js         *)
(* 106-131): delivered, that a valid receipt came, so something has        *)
(* reached the device; completed-unconfirmed, a clean transport and nobody *)
(* to confirm; send-failed, a real error of the transport; stalled, a      *)
(* clean one; cancelled, that the caller said so; and none of the          *)
(* outcomes that deny delivery has missed a receipt that was there.  It    *)
(* comes within timeoutMs of the moment the request was built, whatever    *)
(* grace a late receipt is still granted (1724-1730).                      *)
OutcomeTrue ==
    /\ outcome = "delivered" => /\ style = "observed" /\ receipt = "valid"
                                /\ Reached
    /\ outcome = "completed-unconfirmed" => /\ style = "transport-only"
                                            /\ detail.ended
    /\ outcome = "send-failed" => detail.error /\ ~signal
    /\ outcome = "timeout" => /\ detail.stalled => detail.ended
                              /\ ~detail.cancelled
    /\ outcome = "cancelled" => signal /\ detail.cancelled
    /\ outcome \in {"timeout", "cancelled", "send-failed"} => receipt # "valid"
    /\ outcome \notin {"none", "resolved", "rejected"} =>
          detail.waited <= MaxBuild + Timeout

(* What the server says of the run is true (543-548, 709-715): with the    *)
(* done frame the client has read every payload the run handed to deliver, *)
(* nothing went round the stream; 200 says that every content push was     *)
(* accepted, 502 that the LLM call or a push failed upstream.              *)
AnswerTrue ==
    /\ transport = "ended" /\ doneSent => read = Len(items)
    /\ srv = "answered" =>
        /\ status = 200 => \A i \in DOMAIN items :
                              items[i].kind = "content" => items[i].push = "sent"
        /\ status = 502 => \/ thrown = "llm"
                           \/ \E i \in DOMAIN items : items[i].push = "failed"

(* A transport that ends cleanly, by the done frame, by the end of the     *)
(* stream or by a JSON answer, leaves no payload in the air: each was read *)
(* by the client, or its push has been answered for (571-577).             *)
CleanMeansHandled ==
    transport = "ended" =>
        \A i \in DOMAIN items : i <= read \/ ~Under(items[i].push)

(* A run over SSE that fails is reported once: by the diagnostic the hook  *)
(* path sends before it throws, or by the error frame, never by both, and  *)
(* a run that does not fail by neither (549-568).                          *)
ReportedOnce ==
    srv = "closed" =>
        Cardinality({i \in DOMAIN items :
                        items[i].kind \in {"hook_threw", "stream_error"}})
            = IF thrown = "none" THEN 0 ELSE 1

-----------------------------------------------------------------------------
(* Progress.  The handler and its promises go on (the LLM call and the     *)
(* push service answer, or fail), and so do the client's timers and the    *)
(* clock.  The reader, onChunk, the caller and the network need not.       *)
ClientProgress == \/ ClientAlone \/ Dispatch
                  \/ (TimerFires \/ Advance) /\ ClientOnConnection
Fairness == /\ WF_vars(ServerStep /\ UNCHANGED clientVars)
            /\ WF_vars(ClientProgress)

FairSpec == Spec /\ Fairness

(* Every deliver() returns, whatever its transport and its callbacks do;   *)
(* and every request that reached the server is closed or answered.        *)
Resolves ==
    /\ <>(style = "low-level" \/ call = "done")
    /\ srv = "arrived" ~> srv \in {"closed", "answered"}
=============================================================================
