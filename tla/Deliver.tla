------------------------------- MODULE Deliver -------------------------------
(***************************************************************************)
(* The client of an instant request (client/src/index.js): deliver(),      *)
(* which races the transport against a receipt the caller observes         *)
(* elsewhere, its timeout and its cancel signal; and, as style "low-level",*)
(* sendInstant and consumeInstantStream, which only know the transport.    *)
(*                                                                         *)
(* What the race decides is decided in the turn of the event loop that     *)
(* brings the event, so a decision is part of the action of its event.     *)
(* Timers are punctual: the clock does not pass a timer that is due.       *)
(***************************************************************************)
EXTENDS InstantServer

CONSTANTS
    Timeout,     \* timeoutMs
    Grace,       \* postTransportGraceMs, or what stands for it
    MaxBuild     \* longest time building the request takes

ASSUME TimesAreTyped == Timeout \in Nat \ {0} /\ Grace \in Nat /\ MaxBuild \in Nat

VARIABLES
    now,        \* time since deliver() was called
    style,      \* "observed", "transport-only" or "low-level"
    call,       \* where the call is
    due,        \* when the timer in charge fires
    signal,     \* the caller's signal is aborted
    transport,  \* what the foreground transport has come to
    read,       \* items of the stream that were read
    handler,    \* onChunk is running
    receipt,    \* what the observed promise has settled with
    outcome,    \* what the call returned, "none" before
    detail      \* the caller's detail object

clientVars == <<now, style, call, due, signal, transport, read, handler,
                receipt, outcome, detail>>

Calling == {"start", "building", "racing", "cancelGrace", "lateGrace"}
Outcome == {"delivered", "completed-unconfirmed", "timeout", "cancelled",
            "send-failed", "threw", "resolved", "rejected"}
Detail == [waited : Nat, cancelled : BOOLEAN, ended : BOOLEAN, error : BOOLEAN,
           stalled : BOOLEAN, chunkError : BOOLEAN, response : BOOLEAN]

ClientTypeOK ==
    /\ now \in Nat /\ due \in Nat
    /\ style \in {"observed", "transport-only", "low-level"}
    /\ call \in Calling \cup {"done"}
    /\ signal \in BOOLEAN /\ handler \in BOOLEAN
    /\ transport \in {"idle", "open", "ended", "error"}
    /\ read \in Nat
    /\ receipt \in {"none", "valid", "invalid"}
    /\ outcome \in Outcome \cup {"none"}
    /\ detail \in Detail

(* sendInstant takes no signal.                                            *)
Cancellable == ~(style = "low-level" /\ mode = "push")

ClientInit ==
    /\ now = 0 /\ due = 0
    /\ style \in {"observed", "transport-only", "low-level"}
    /\ call = "start"
    /\ signal \in BOOLEAN
    /\ signal => Cancellable
    /\ handler = FALSE
    /\ transport = "idle"
    /\ read = 0
    /\ receipt = "none"
    /\ outcome = "none"
    /\ detail = [waited |-> 0, cancelled |-> FALSE, ended |-> FALSE,
                 error |-> FALSE, stalled |-> FALSE, chunkError |-> FALSE,
                 response |-> FALSE]

Least(m, n) == IF m < n THEN m ELSE n
Remaining == IF now < Timeout THEN Timeout - now ELSE 0
(* _computeGrace.                                                          *)
ComputeGrace == Least(Grace, Remaining)

-----------------------------------------------------------------------------
(* finalize: the only way out once the transport runs.  The timer is       *)
(* cleared and the transport aborted, so that the server loses its         *)
(* connection.  `settled' is what the transport has come to, `d' the       *)
(* detail so far.                                                          *)
Finalize(result, settled, d) ==
    /\ call' = "done"
    /\ outcome' = result
    /\ connected' = FALSE
    /\ due' = 0
    /\ detail' = [d EXCEPT !.waited = now,
                           !.ended = settled = "ended",
                           !.error = settled = "error"]

(* The transport settles: with "ended" or "error", and a body if JSON.     *)
(* Once the call is done the continuation returns at its first line.       *)
TransportSettles(settled, body) ==
    LET d == [detail EXCEPT !.response = body] IN
    /\ transport' = settled
    /\ CASE call = "racing" /\ style = "transport-only" ->
              /\ Finalize(IF settled = "error" THEN "send-failed"
                                               ELSE "completed-unconfirmed",
                          settled, d)
         [] call = "racing" /\ style = "observed" ->
              /\ call' = "lateGrace"
              /\ due' = now + ComputeGrace
              /\ detail' = d
              /\ UNCHANGED <<outcome, connected>>
         [] call = "racing" /\ style = "low-level" ->
              /\ Finalize(IF settled = "error" THEN "rejected" ELSE "resolved",
                          settled, d)
         [] call = "cancelGrace" ->
              /\ detail' = d
              /\ UNCHANGED <<call, due, outcome, connected>>
         [] OTHER ->
              UNCHANGED <<call, due, outcome, connected, detail>>
    /\ UNCHANGED <<now, style, signal, receipt>>

-----------------------------------------------------------------------------
(* Before the request is out.                                              *)

(* The checks of the arguments have passed; an aborted signal ends it here.*)
Begin ==
    /\ call = "start"
    /\ IF signal /\ style # "low-level"
       THEN /\ call' = "done" /\ outcome' = "cancelled"
            /\ detail' = [detail EXCEPT !.cancelled = TRUE]
       ELSE call' = "building" /\ UNCHANGED <<outcome, detail>>
    /\ UNCHANGED <<now, style, due, signal, transport, read, handler, receipt>>

(* _buildInstantRequest rejects: the body is too large, or nothing to      *)
(* encrypt with.                                                           *)
BuildThrows ==
    /\ call = "building"
    /\ call' = "done" /\ outcome' = "threw"
    /\ UNCHANGED <<now, style, due, signal, transport, read, handler,
                   receipt, detail>>

(* The second look at the signal; fetch rejects one that is aborted.       *)
CancelledWhileBuilding ==
    /\ call = "building" /\ signal
    /\ call' = "done"
    /\ outcome' = IF style = "low-level" THEN "rejected" ELSE "cancelled"
    /\ detail' = [detail EXCEPT !.cancelled = TRUE, !.waited = now]
    /\ UNCHANGED <<now, style, due, signal, transport, read, handler,
                   receipt>>

(* The request goes out and the timer is set, for all of timeoutMs; fetch  *)
(* of the low-level calls is given the signal itself.                      *)
Dispatch ==
    /\ call = "building"
    /\ ~signal
    /\ call' = "racing"
    /\ due' = now + Timeout
    /\ transport' = "open"
    /\ srv' = "arrived"
    /\ UNCHANGED <<now, style, signal, read, handler, receipt, outcome,
                   detail>>
    /\ UNCHANGED <<mode, hooked, wrap, round, left, items, usable, connected,
                   doneSent, thrown, status>>

-----------------------------------------------------------------------------
(* The transport: _runInstantTransport and _consumeSseStream.              *)

Streamed == Cardinality({i \in DOMAIN items : items[i].streamed})
Reading == transport = "open" /\ ~handler /\ connected /\ mode = "sse"

(* One frame.  A payload is given to onChunk, and the reader waits for it; *)
(* an error frame ends the transport.                                      *)
ReadFrame ==
    /\ Reading /\ read < Streamed
    /\ read' = read + 1
    /\ IF items[read + 1].kind = "stream_error"
       THEN TransportSettles("error", FALSE) /\ UNCHANGED handler
       ELSE /\ handler' \in BOOLEAN
            /\ UNCHANGED <<now, style, call, due, signal, transport,
                           receipt, outcome, detail, connected>>

Returned == call = "done"
(* onChunk settles.  deliver() keeps its error aside, for detail as long   *)
(* as the call has not returned; elsewhere it ends the transport.          *)
ChunkHandled ==
    /\ handler
    /\ handler' = FALSE
    /\ UNCHANGED read
    /\ \/ UNCHANGED <<now, style, call, due, signal, transport, receipt,
                      outcome, detail, connected>>
       \/ /\ style # "low-level"
          /\ detail' = IF Returned THEN detail
                       ELSE [detail EXCEPT !.chunkError = TRUE]
          /\ UNCHANGED <<now, style, call, due, signal, transport,
                         receipt, outcome, connected>>
       \/ style = "low-level" /\ TransportSettles("error", FALSE)

(* The done frame, or the end of the stream.                               *)
ReadEnd ==
    /\ Reading /\ read = Streamed
    /\ doneSent \/ srv = "closed"
    /\ TransportSettles("ended", FALSE)
    /\ UNCHANGED <<read, handler>>

(* A JSON answer, to a call that wanted it or instead of the stream.       *)
(* sendInstant takes any for the result; the others reject a bad status.   *)
ReadAnswer ==
    /\ transport = "open" /\ connected /\ srv = "answered"
    /\ IF status = 200 \/ (style = "low-level" /\ mode = "push")
       THEN TransportSettles("ended", TRUE)
       ELSE TransportSettles("error", FALSE)
    /\ UNCHANGED <<read, handler>>

(* fetch or read() rejects, because the network failed or it was aborted.  *)
ConnectionFails ==
    /\ transport = "open" /\ ~handler /\ ~connected
    /\ TransportSettles("error", FALSE)
    /\ UNCHANGED <<read, handler>>

-----------------------------------------------------------------------------
(* The other racers.                                                       *)

(* Something the server sent has come out on the device: a push, or a      *)
(* frame the page has passed on.                                           *)
Reached == read > 0 \/ \E i \in DOMAIN items : items[i].push = "sent"

Waiting == {"racing", "cancelGrace", "lateGrace"}
(* A slip: while it cancels the call does not listen for receipts.         *)
DeafWhileCancelling == {"racing", "lateGrace"}
Listening == Waiting

(* A valid receipt ends every wait.  One without an id, or a rejection,    *)
(* leaves the race as if nothing had come.                                 *)
ReceiptArrives ==
    /\ style = "observed" /\ receipt = "none" /\ call \in Waiting
    /\ \/ /\ receipt' = "invalid"
          /\ UNCHANGED <<call, due, outcome, detail, connected>>
       \/ /\ Reached
          /\ receipt' = "valid"
          /\ IF call \in Listening
             THEN Finalize("delivered", transport, detail)
             ELSE UNCHANGED <<call, due, outcome, detail, connected>>
    /\ UNCHANGED <<now, style, signal, transport, read, handler>>

(* The caller's signal.  Abort and the transport's abort come with it.     *)
Abort ==
    /\ ~signal /\ call # "done" /\ Cancellable
    /\ signal' = TRUE
    /\ LET d == [detail EXCEPT !.cancelled = TRUE] IN
       CASE call = "racing" /\ style = "observed" ->
              /\ call' = "cancelGrace"
              /\ due' = now + ComputeGrace \div 2
              /\ detail' = d
              /\ connected' = FALSE
              /\ UNCHANGED outcome
         [] \/ call = "racing" /\ style = "transport-only"
            \/ call = "lateGrace" ->
              Finalize("cancelled", transport, d)
         [] call = "racing" /\ style = "low-level" ->
              /\ connected' = FALSE
              /\ UNCHANGED <<call, due, outcome, detail>>
         [] OTHER -> UNCHANGED <<call, due, outcome, detail, connected>>
    /\ UNCHANGED <<now, style, transport, read, handler, receipt>>

TimerDue == /\ call \in Waiting
            /\ style # "low-level"
            /\ now >= due

(* The timeout, or the end of a grace period without a receipt.            *)
TimerFires ==
    /\ TimerDue
    /\ CASE call = "racing" -> Finalize("timeout", transport, detail)
         [] call = "cancelGrace" -> Finalize("cancelled", transport, detail)
         [] call = "lateGrace" /\ transport = "error" ->
              Finalize("send-failed", transport, detail)
         [] OTHER -> Finalize("timeout", transport,
                              [detail EXCEPT !.stalled = TRUE])
    /\ UNCHANGED <<now, style, signal, transport, read, handler,
                   receipt>>

(* The clock.  Building takes at most MaxBuild; after the call has         *)
(* returned, and in calls that look at no clock, time does not matter.     *)
Advance ==
    /\ style # "low-level"
    /\ call # "start" /\ call # "done"
    /\ ~TimerDue
    /\ call = "building" => now < MaxBuild
    /\ now' = now + 1
    /\ UNCHANGED <<style, call, due, signal, transport, read, handler,
                   receipt, outcome, detail, connected>>

(* The network drops the connection of the request.                        *)
Disconnect ==
    /\ connected /\ transport = "open"
    /\ connected' = FALSE
    /\ UNCHANGED clientVars
=============================================================================
