---------------------------- MODULE InstantServer ----------------------------
(***************************************************************************)
(* One request to the stateless instant server (instant/src/index.js,      *)
(* message-processor.js): the checks a request passes, the one LLM call or *)
(* the loop of calls with the host's hook, and the way each payload goes   *)
(* out.  A payload is an item here.  Over SSE an item is written into the  *)
(* response and pushed as a backup in the background; once the stream is   *)
(* unusable, and for callers that want JSON, it is pushed and waited for.  *)
(*                                                                         *)
(* The streamed items are a prefix of `items': a stream that has become    *)
(* unusable stays so.  The response's bytes are not modelled; the client   *)
(* (Deliver) reads the items of that prefix in their order.                *)
(***************************************************************************)
EXTENDS Integers, Sequences, FiniteSets

CONSTANTS
    MaxRounds,   \* maxLoopIterations
    MaxBatch,    \* pushes one decision of the hook, or one text, comes to
    Parts,       \* chunks an oversized item is cut into
    Wraps,       \* what a deployment may have for oversized pushes
    MaxItems     \* bound: an optional item leaves room for what must follow

ASSUME BoundsArePositive ==
    MaxRounds \in Nat \ {0} /\ MaxBatch \in Nat \ {0} /\ Parts \in Nat \ {0}
ASSUME WrapsAreKnown == Wraps \subseteq {"blob", "multipart", "none"}

VARIABLES
    srv,        \* where the handler is
    mode,       \* "sse", or "push" for Accept: application/json
    hooked,     \* createInstantHandler was given onLLMOutput
    wrap,       \* what carries oversized pushes: "blob", "multipart", "none"
    round,      \* iteration of the loop
    left,       \* pushes of the batch not yet handed to deliver
    items,      \* what was handed to deliver, in order
    usable,     \* streamUsable
    connected,  \* the connection of the request holds
    doneSent,   \* the done frame was written
    thrown,     \* the error that ended the run, "none" if none did
    status      \* HTTP status of a JSON answer, 0 before

serverVars == <<srv, mode, hooked, wrap, round, left, items, usable,
                connected, doneSent, thrown, status>>

Size == {"small", "large", "huge", "bad"}
Kind == {"reasoning", "content", "extra",
         "hook_threw", "loop_exceeded", "stream_error"}
Error == {"none", "hook", "llm", "push", "shape", "other"}
Settled == {"sent", "failed", "refused"}
Item == [kind : Kind, streamed : BOOLEAN, push : {"put", "send"} \cup Settled,
         left : 0..Parts]
Stage == {"idle", "arrived", "before", "llm", "decide", "batch", "after",
          "extra", "finish", "throw", "settle", "closed", "answered"}

ServerTypeOK ==
    /\ srv \in Stage
    /\ mode \in {"sse", "push"}
    /\ hooked \in BOOLEAN
    /\ wrap \in {"blob", "multipart", "none"}
    /\ round \in 0..MaxRounds
    /\ left \in 0..MaxBatch
    /\ items \in Seq(Item)
    /\ usable \in BOOLEAN /\ connected \in BOOLEAN /\ doneSent \in BOOLEAN
    /\ thrown \in Error
    /\ status \in {0, 200, 400, 401, 405, 500, 502}

ServerInit ==
    /\ srv = "idle"
    /\ mode \in {"sse", "push"}
    /\ hooked \in BOOLEAN
    /\ wrap \in Wraps
    /\ round = 0 /\ left = 0
    /\ items = <<>>
    /\ usable = (mode = "sse")
    /\ connected = TRUE
    /\ doneSent = FALSE
    /\ thrown = "none"
    /\ status = 0

-----------------------------------------------------------------------------
(* The checks of a request.                                                *)

(* A body: the path it is posted to, which of completePrompt and messages  *)
(* it has, whether it names a session, the iteration (-1: none), and       *)
(* whether every other field it must or may have is in order.              *)
Body == [path : {"instant", "continue"}, prompt : BOOLEAN, messages : BOOLEAN,
         session : BOOLEAN, iteration : -1..MaxRounds, inOrder : BOOLEAN]

SharedFieldsValid(b) == b.iteration < MaxRounds
ValidInstant(b) ==
    /\ b.inOrder
    /\ hooked => ~b.prompt
    /\ b.prompt # b.messages
    /\ SharedFieldsValid(b)
ValidContinue(b) ==
    /\ b.inOrder
    /\ b.session
    /\ ~b.prompt /\ b.messages
    /\ SharedFieldsValid(b)
Valid(b) == IF b.path = "continue" THEN hooked /\ ValidContinue(b)
                                   ELSE ValidInstant(b)

(* The method, the two tokens, an unreadable body, VAPID: none of them     *)
(* depends on what the body says.                                          *)
OtherRefusal == {405, 401, 400, 500}

Refuse ==
    /\ srv = "arrived"
    /\ \/ status' \in OtherRefusal
       \/ (\E b \in Body : ~Valid(b)) /\ status' = 400
    /\ srv' = "answered"
    /\ UNCHANGED <<mode, hooked, wrap, round, left, items, usable, connected,
                   doneSent, thrown>>

(* Only the loop looks at the iteration; without a hook there is none.     *)
Accept ==
    /\ srv = "arrived"
    /\ \E b \in Body :
          /\ Valid(b)
          /\ round' = IF hooked /\ b.iteration > 0 THEN b.iteration ELSE 0
    /\ srv' = "before"
    /\ UNCHANGED <<mode, hooked, wrap, left, items, usable, connected,
                   doneSent, thrown, status>>

-----------------------------------------------------------------------------
(* How an item goes out: sendPushWithMaybeBlob.                            *)

FirstPush(size) ==
    IF size = "small" \/ (size = "large" /\ wrap = "multipart") THEN "send"
    ELSE IF size \in {"large", "huge"} /\ wrap = "blob" THEN "put"
    ELSE "refused"

NewItem(kind, size) ==
    [kind |-> kind, streamed |-> usable /\ size # "bad",
     push |-> FirstPush(size),
     left |-> CASE FirstPush(size) = "refused" -> 0
                [] wrap = "multipart" /\ size = "large" -> Parts
                [] OTHER -> 1]

(* A slip: the stream is used again after an item that could not be written.*)
HandToDeliverForgiving(kind, size) ==
    /\ items' = Append(items, NewItem(kind, size))
    /\ usable' = usable
(* deliver of both transports.  What JSON cannot express is noticed while  *)
(* the frame is built, and taken for a stream that has gone.               *)
HandToDeliver(kind, size) ==
    /\ items' = Append(items, NewItem(kind, size))
    /\ usable' = (usable /\ size # "bad")

Under(push) == push \in {"put", "send"}

RoomFor(n) == Len(items) + n <= MaxItems

(* Slips: an await is forgotten; it waits until such a push is accepted.   *)
NotAwaited == FALSE
AwaitingAccepted == items # <<>> /\ LET it == items[Len(items)]
                                    IN ~it.streamed /\ it.push # "sent"
(* The handler waits for the push of an item that was not streamed.        *)
Awaiting == items # <<>> /\ LET it == items[Len(items)]
                            IN ~it.streamed /\ Under(it.push)
At(stage) == srv = stage /\ ~Awaiting

(* deliver throws only for callers that want JSON: over SSE the failure of *)
(* the fallback push is caught.  The run goes on when it was reasoning or  *)
(* a diagnostic that did not get out.                                      *)
Threw == /\ mode = "push"
         /\ items # <<>>
         /\ items[Len(items)].kind \in {"content", "extra"}
         /\ items[Len(items)].push \in {"failed", "refused"}

(* The blob store takes the body, or is full or fails.                     *)
PutBlob(i) ==
    /\ items[i].push = "put"
    /\ \/ items' = [items EXCEPT ![i].push = "send"]
       \/ items' = [items EXCEPT ![i].left = 0, ![i].push = "refused"]
    /\ UNCHANGED <<srv, mode, hooked, wrap, round, left, usable, connected,
                   doneSent, thrown, status>>

(* The push service answers for one message: the item itself, its          *)
(* envelope, or the next of its parts; after a refusal no part follows.    *)
SendWebPush(i) ==
    /\ items[i].push = "send"
    /\ \/ items' = [items EXCEPT ![i].left = @ - 1,
                                 ![i].push = IF items[i].left = 1 THEN "sent"
                                                                  ELSE @]
       \/ items' = [items EXCEPT ![i].left = 0, ![i].push = "failed"]
    /\ UNCHANGED <<srv, mode, hooked, wrap, round, left, usable, connected,
                   doneSent, thrown, status>>

-----------------------------------------------------------------------------
(* The run: runWithLifecycleHooks around processInstantMessage.            *)

BeforeLoop ==
    /\ srv = "before"
    /\ \/ srv' = "llm" /\ thrown' = thrown
       \/ srv' = "throw" /\ thrown' = "other"
    /\ UNCHANGED <<mode, hooked, wrap, round, left, items, usable, connected,
                   doneSent, status>>

LlmFails ==
    /\ srv = "llm"
    /\ srv' = "throw" /\ thrown' = "llm"
    /\ UNCHANGED <<mode, hooked, wrap, round, left, items, usable, connected,
                   doneSent, status>>

(* The call answers; reasoning, if it shows any, is handed to deliver, and *)
(* what becomes of it does not matter to the run.                          *)
LlmAnswers ==
    /\ srv = "llm"
    /\ srv' = "decide"
    /\ \/ UNCHANGED <<items, usable>>
       \/ /\ RoomFor(3)
          /\ \E size \in {"small", "large"} : HandToDeliver("reasoning", size)
    /\ UNCHANGED <<mode, hooked, wrap, round, left, connected, doneSent,
                   thrown, status>>

(* The text of the legacy path, or the hook's finish or tool-request.      *)
DecidePushes ==
    /\ At("decide")
    /\ srv' = "batch"
    /\ left' \in {n \in 1..MaxBatch : n = 1 \/ RoomFor(n + 1)}
    /\ UNCHANGED <<mode, hooked, wrap, round, items, usable, connected,
                   doneSent, thrown, status>>

DecideSkip ==
    /\ At("decide") /\ hooked
    /\ srv' = "after"
    /\ UNCHANGED <<mode, hooked, wrap, round, left, items, usable, connected,
                   doneSent, thrown, status>>

(* decision: continue.  The last round allowed ends the loop with a        *)
(* diagnostic, and not with an error.                                      *)
DecideContinue ==
    /\ At("decide") /\ hooked
    /\ round' = round + 1
    /\ IF round + 1 < MaxRounds
       THEN srv' = "llm" /\ UNCHANGED <<items, usable>>
       ELSE srv' = "after" /\ HandToDeliver("loop_exceeded", "small")
    /\ UNCHANGED <<mode, hooked, wrap, left, connected, doneSent, thrown,
                   status>>

(* The hook throws or returns what is no decision.                         *)
DecideThrows ==
    /\ At("decide") /\ hooked
    /\ srv' = "throw" /\ thrown' = "hook"
    /\ HandToDeliver("hook_threw", "small")
    /\ UNCHANGED <<mode, hooked, wrap, round, left, connected, doneSent,
                   status>>

(* sendPushesSequentially: one after the other, up to the first failure.   *)
DeliverNext ==
    /\ At("batch") /\ left > 0 /\ ~Threw
    /\ left' = left - 1
    /\ \E size \in IF hooked THEN Size ELSE Size \ {"bad"} :
          HandToDeliver("content", size)
    /\ UNCHANGED <<srv, mode, hooked, wrap, round, connected, doneSent,
                   thrown, status>>

BatchDone ==
    /\ At("batch") /\ left = 0 /\ ~Threw
    /\ srv' = "after"
    /\ UNCHANGED <<mode, hooked, wrap, round, left, items, usable, connected,
                   doneSent, thrown, status>>

(* PUSH_SEND_FAILED, or an error of the payload that goes through as it is.*)
PushError ==
    IF items[Len(items)].push = "failed" THEN "push" ELSE "shape"

BatchThrows ==
    /\ At("batch") /\ Threw
    /\ srv' = "throw" /\ thrown' = PushError
    /\ UNCHANGED <<mode, hooked, wrap, round, left, items, usable, connected,
                   doneSent, status>>

(* onAfterLoop: returns, throws, or delivers something of its own.         *)
AfterLoop ==
    /\ At("after")
    /\ \/ srv' = "finish" /\ UNCHANGED <<items, usable, thrown>>
       \/ srv' = "throw" /\ thrown' = "other" /\ UNCHANGED <<items, usable>>
       \/ /\ RoomFor(2)
          /\ srv' = "extra" /\ UNCHANGED thrown
          /\ \E size \in Size : HandToDeliver("extra", size)
    /\ UNCHANGED <<mode, hooked, wrap, round, left, connected, doneSent,
                   status>>

AfterDelivered ==
    /\ At("extra")
    /\ \/ srv' = "finish" /\ UNCHANGED thrown
       \/ Threw /\ srv' = "throw" /\ thrown' = PushError
    /\ UNCHANGED <<mode, hooked, wrap, round, left, items, usable, connected,
                   doneSent, status>>

(* The done frame says that all of the run is in the stream.               *)
DoneFrame == usable

Finish ==
    /\ srv = "finish"
    /\ IF mode = "sse"
       THEN srv' = "settle" /\ doneSent' = DoneFrame /\ UNCHANGED status
       ELSE srv' = "answered" /\ status' = 200 /\ UNCHANGED doneSent
    /\ UNCHANGED <<mode, hooked, wrap, round, left, items, usable, connected,
                   thrown>>

(* A slip: an error frame ends every run that fails.                       *)
NeverReported == FALSE
(* A HookError has sent its diagnostic before it was thrown.               *)
Reported == thrown = "hook"

(* mapErrorStatus.                                                         *)
ErrorStatus == IF thrown \in {"llm", "push"} THEN 502 ELSE 500

Fail ==
    /\ At("throw")
    /\ IF mode = "sse"
       THEN /\ srv' = "settle" /\ UNCHANGED status
            /\ IF Reported THEN UNCHANGED <<items, usable>>
                           ELSE HandToDeliver("stream_error", "small")
       ELSE /\ srv' = "answered" /\ status' = ErrorStatus
            /\ UNCHANGED <<items, usable>>
    /\ UNCHANGED <<mode, hooked, wrap, round, left, connected, doneSent,
                   thrown>>

(* Promise.allSettled of the backups, then the stream is closed.           *)
AllSettled == \A i \in DOMAIN items : ~Under(items[i].push)

Close ==
    /\ srv = "settle" /\ AllSettled
    /\ srv' = "closed"
    /\ UNCHANGED <<mode, hooked, wrap, round, left, items, usable, connected,
                   doneSent, thrown, status>>

(* The handler hears of the lost connection: abort of the request's        *)
(* signal, cancel of the stream, or a write that throws.                   *)
NoticeLoss ==
    /\ ~connected /\ usable
    /\ srv \notin {"idle", "closed", "answered"}
    /\ usable' = FALSE
    /\ UNCHANGED <<srv, mode, hooked, wrap, round, left, items, connected,
                   doneSent, thrown, status>>

Handle == \/ Refuse \/ Accept
          \/ BeforeLoop \/ LlmFails \/ LlmAnswers
          \/ DecidePushes \/ DecideSkip \/ DecideContinue \/ DecideThrows
          \/ DeliverNext \/ BatchDone \/ BatchThrows
          \/ AfterLoop \/ AfterDelivered \/ Finish \/ Fail \/ Close
Pushing == \E i \in DOMAIN items : PutBlob(i) \/ SendWebPush(i)

ServerStep == Handle \/ Pushing \/ NoticeLoss
=============================================================================
