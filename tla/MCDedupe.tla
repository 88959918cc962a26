------------------------------ MODULE MCDedupe ------------------------------
(* Symmetry of the arrivals, for the runs of Dedupe, and the facts about   *)
(* what the worker shows of a push (Notices).                              *)
EXTENDS Dedupe, Sequences, TLC

DeliverySymmetry == Permutations(Delivery)

-----------------------------------------------------------------------------
(* Notices, over every kind of value in the fields that matter to each fact*)
LOCAL N == INSTANCE Notices

Directive == [given : {TRUE}, show : N!Value \cup {"auto", "always", "when-hidden", "false"},
              title : {"none", "text"}, body : N!Value, tag : N!Value]
             \cup {N!NoDirective}
Args == [identified : BOOLEAN, messageId : N!Value, message : N!Value,
         title : {"none", "empty", "text"}, contactName : {"none", "text"},
         reasoningContent : {"empty", "text"}, toolCalls : {TRUE}, code : {"text"},
         notification : {N!NoDirective}]
        \cup [identified : {TRUE}, messageId : {"text"}, message : {"blank", "text"},
              title : {"none"}, contactName : {"text"},
              reasoningContent : {"text"}, toolCalls : BOOLEAN, code : {"null", "text"},
              notification : Directive]

BuiltPushes ==
    UNION {{N!BuildContentPush(a), N!BuildReasoningPush(a),
            N!BuildToolRequestPush(a), N!BuildErrorPush(a)} : a \in Args} \ {N!Refused}

(* What the worker may be sent: built pushes, envelopes of them, and       *)
(* payloads of other origin, of any kind and with anything in their texts. *)
Foreign == {[N!Bare EXCEPT !.kind = k, !.message = m, !.body = b, !.messageId = i,
                           !.notification.body = n] :
              k \in N!Kind \cup {"none", "null", "other"}, m \in N!Value,
              b \in N!Value, i \in {"none", "text"}, n \in N!Value}
Data == {[json |-> TRUE, push |-> p, text |-> "none"] :
           p \in BuiltPushes \cup {N!Envelope(p) : p \in BuiltPushes} \cup Foreign}
        \cup {[json |-> FALSE, push |-> N!Bare, text |-> t] : t \in {"empty", "blank", "text"}}

(* A push whose texts are blank, missing or no texts is still shown with   *)
(* words in it, whatever the host configured as its default (sw/README.md: *)
(* 61): no field that is blank becomes the body.                           *)
ASSUME NoticeHasWords ==
    \A data \in Data, default \in N!Value :
        LET p == N!ReadPush(data)
            body == N!Notification(p, default).body
            source == CASE body = "notification.body" -> p.notification.body
                        [] body = "body" -> p.body
                        [] body = "message" -> p.message
                        [] body = "defaultBody" -> default
                        [] OTHER -> "text"
        IN source = "text"

(* In the background every content push is seen, the one in an envelope    *)
(* too, unless its producer asked for silence; the other kinds only if     *)
(* their producer asked for it.                                            *)
ASSUME ContentIsSeen ==
    \A p \in BuiltPushes, visible \in BOOLEAN :
        /\ p.kind = "content" /\ ~visible /\ p.notification.show # "false" =>
              N!ShouldRender(p, visible)
        /\ p.kind = "content" => N!ShouldRender(N!Envelope(p), visible)
        /\ p.kind # "content" /\ N!ShouldRender(p, visible) =>
              p.notification.show \in {"always", "when-hidden"}

(* An envelope drops what its producer asked for: a content push that was  *)
(* to be silent, or only shown to a hidden app, shows all the same once it *)
(* is too large, and a tool request that was always to be shown does not.  *)
ASSUME EnvelopesForgetTheDirective ==
    /\ \E p \in BuiltPushes :
          N!ShouldRender(N!Envelope(p), TRUE) /\ ~N!ShouldRender(p, TRUE)
    /\ \E p \in BuiltPushes :
          N!ShouldRender(p, FALSE) /\ ~N!ShouldRender(N!Envelope(p), FALSE)

(* The tag of a built push never comes from the clock, nor that of its     *)
(* envelope if its messageId is a string, which no builder asks: what is   *)
(* shown again, by a backup push or a repair, replaces its first notice.   *)
ASSUME ShownAgainReplaces ==
    \A p \in BuiltPushes :
        /\ N!Notification(p, "none").tag # "clock"
        /\ N!IsText(p.messageId) => N!Notification(N!Envelope(p), "none").tag = "messageId"

(* A message has one key by whichever route it comes: whole, in an         *)
(* envelope, or with a name of its own; so the duplicate of a delivery is  *)
(* always known as one.  A host whose own key reads more than the names    *)
(* that an envelope keeps has no such promise.                             *)
ASSUME OneKeyOnEveryRoute ==
    \A m \in N!Value, i \in N!Value, d \in N!Value :
        LET p == [N!Bare EXCEPT !.messageId = m, !.id = i, !.dedupeKey = d]
        IN N!KeyOf(N!Envelope(p)) = N!KeyOf(p)

(* The words of a content push are the ones shown unless the directive has *)
(* a body of its own; a blank one hides them behind the default.           *)
ASSUME ItsOwnWords ==
    \A p \in BuiltPushes :
        p.kind = "content" /\ p.message = "text" =>
            (N!Notification(p, "none").body = "message" <=>
                p.notification.body \in {"none", "empty"})
=============================================================================
