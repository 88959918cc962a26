------------------------------- MODULE Notices -------------------------------
(***************************************************************************)
(* From a push to what the user sees of it: the builders every producer    *)
(* uses (shared/src/index.js) and the service worker that routes the push  *)
(* and makes a notification of it (sw/src/index.js).  The browser lets a   *)
(* subscription live only if its pushes are seen, so a push that is shown  *)
(* must have something to say.                                             *)
(*                                                                         *)
(* A field is the kind of value it has: none (undefined), null, an empty   *)
(* or blank string, text, or something else than a string.                 *)
(***************************************************************************)
EXTENDS Sequences

Value == {"none", "null", "empty", "blank", "text", "other"}
Truthy(v) == v \in {"blank", "text", "other"}
IsText(v) == v \in {"empty", "blank", "text"}
Kind == {"content", "reasoning", "tool_request", "error"}

(* a || b || ..., over what the values are called.                         *)
FirstTruthy(choices, otherwise) ==
    LET truthy == SelectSeq(choices, LAMBDA c : Truthy(c.value))
    IN IF truthy = <<>> THEN otherwise ELSE Head(truthy)

NoDirective == [given |-> FALSE, show |-> "none", title |-> "none",
                body |-> "none", tag |-> "none"]
Bare == [kind |-> "none", messageId |-> "none", id |-> "none",
         dedupeKey |-> "none", title |-> "none",
         contactName |-> "none", body |-> "none", message |-> "none",
         tag |-> "none", notification |-> NoDirective]

-----------------------------------------------------------------------------
(* The builders.  `identified' stands for messageType, source and          *)
(* sessionId; the fields that no notification shows are left out.          *)
Refused == [Bare EXCEPT !.kind = "refused"]

(* requireField, for the fields that every push has.                       *)
Required(v) == v \notin {"none", "null", "empty"}
Common(args) == args.identified /\ Required(args.messageId)

(* validateNotificationArg.                                                *)
DirectiveValid(n) ==
    n.given =>
        /\ n.show \in {"none", "auto", "always", "when-hidden", "false"}
        /\ \A v \in {n.title, n.body, n.tag} : v = "none" \/ IsText(v)

Built(kind, args) == [Bare EXCEPT !.kind = kind, !.messageId = args.messageId,
                                  !.notification = args.notification]

BuildContentPush(args) ==
    IF Common(args) /\ IsText(args.message) /\ DirectiveValid(args.notification)
    THEN [Built("content", args) EXCEPT !.message = args.message,
             !.title = args.title, !.contactName = args.contactName]
    ELSE Refused

BuildReasoningPush(args) ==
    IF /\ Common(args) /\ args.reasoningContent \in {"blank", "text"}
       /\ DirectiveValid(args.notification)
    THEN [Built("reasoning", args) EXCEPT !.title = args.title,
                                          !.contactName = args.contactName]
    ELSE Refused

BuildToolRequestPush(args) ==
    IF Common(args) /\ args.toolCalls /\ DirectiveValid(args.notification)
    THEN [Built("tool_request", args) EXCEPT !.message = args.message,
             !.title = args.title, !.contactName = args.contactName]
    ELSE Refused

BuildErrorPush(args) ==
    IF /\ Common(args) /\ Required(args.code) /\ IsText(args.message)
       /\ DirectiveValid(args.notification)
    THEN [Built("error", args) EXCEPT !.message = args.message]
    ELSE Refused

(* What a push too large for the wire is replaced with, when the host      *)
(* keeps it in its blob store: no text, but who it is.                     *)
Kept(v) == IF v \in {"blank", "text"} THEN v ELSE "none"
Envelope(push) == [Bare EXCEPT !.kind = push.kind, !.messageId = Kept(push.messageId),
                               !.id = Kept(push.id), !.dedupeKey = Kept(push.dedupeKey)]

-----------------------------------------------------------------------------
(* The service worker.                                                     *)

(* readPushPayload: what is no JSON becomes a message of no kind.          *)
ReadPush(data) ==
    IF data.json THEN data.push ELSE [Bare EXCEPT !.message = data.text]

(* resolveDedupeKey, unless the host brings its own.                       *)
KeyOf(push) ==
    LET usable == SelectSeq(<<"messageId", "id", "dedupeKey">>,
                            LAMBDA field : push[field] = "text")
    IN IF usable = <<>> THEN "none" ELSE Head(usable)

EventName(push) == IF push.kind \in Kind THEN push.kind ELSE "unknown"

IsNotificationKind(push) == push.kind \in {"none", "null", "content"}

(* shouldRenderNotification; `visible': some window of the app is.         *)
ShouldRender(push, visible) ==
    LET show == push.notification.show IN
    CASE show = "always" -> TRUE
      [] show = "when-hidden" -> ~visible
      [] show = "false" -> FALSE
      [] OTHER -> IsNotificationKind(push)

(* resolveNotificationBody.                                                *)
BodyOf(choice, defaultBody) ==
    IF choice.value = "text" THEN choice.name
    ELSE IF defaultBody = "text" THEN "defaultBody" ELSE "New message"

Choice(name, value) == [name |-> name, value |-> value]

(* createNotificationFromPayload: where title, body and tag come from.     *)
Notification(push, defaultBody) ==
    LET n == push.notification
        nothing == Choice("nothing", "empty")
    IN [title |-> FirstTruthy(<<Choice("notification.title", n.title),
                                Choice("title", push.title),
                                Choice("contactName", push.contactName)>>,
                              Choice("New notification", "text")).name,
        body  |-> BodyOf(FirstTruthy(<<Choice("notification.body", n.body),
                                       Choice("body", push.body),
                                       Choice("message", push.message)>>,
                                     nothing),
                         defaultBody),
        tag   |-> FirstTruthy(<<Choice("notification.tag", n.tag),
                                Choice("tag", push.tag),
                                Choice("messageId", push.messageId)>>,
                              Choice("clock", "text")).name]
=============================================================================
