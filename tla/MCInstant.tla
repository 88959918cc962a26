------------------------------ MODULE MCInstant ------------------------------
(* What tells states of InstantDelivery apart in a run: everything that a  *)
(* later step or a property still reads.  With it go the assumptions about *)
(* the decisions of a hook.                                                *)
EXTENDS InstantDelivery

(* Over SSE nobody asks what a payload was about, nor why a push failed.   *)
ItemRead(it) ==
    IF mode = "push" THEN it
    ELSE [it EXCEPT
            !.kind = IF it.kind \in {"hook_threw", "stream_error"}
                     THEN it.kind ELSE "content",
            !.push = IF it.push = "refused" THEN "failed" ELSE it.push]

(* The loop's own variables matter until its last decision, the cause of   *)
(* an error to a JSON answer.                                              *)
ServerRead ==
    <<srv, mode, wrap, usable, connected, doneSent, status,
      [i \in DOMAIN items |-> ItemRead(items[i])],
      IF srv \in {"idle", "arrived", "before", "llm", "decide", "batch"}
      THEN <<hooked, round, left>> ELSE <<>>,
      IF mode = "push" \/ thrown \in {"none", "hook"} THEN thrown ELSE "other">>

(* When the call has returned only its stream reader goes on; what    *)
(* OutcomeTrue says of the outcome is kept.                                *)
ClientRead ==
    IF call = "done"
    THEN <<handler, transport = "ended", read, OutcomeTrue>>
    ELSE clientVars

WhatIsRead == <<ServerRead, ClientRead>>

-----------------------------------------------------------------------------
(* Decisions, all of them of up to two pushes or calls                     *)
Id == {"c1", "c2", "c3"}
LOCAL D == INSTANCE Decisions

AtMost(S, n) == UNION {[1..k -> S] : k \in 0..n}
Lists(S, n) == {D!Missing, D!NoList} \cup {D!ListOf(s) : s \in AtMost(S, n)}

Call == [id : {"c1", "c2"}, inOrder : BOOLEAN]
Push == [inOrder : BOOLEAN, calls : Lists([id : {"c1"}, inOrder : {TRUE}], 1)]
Decision ==
    [tag : D!Tag \cup {"other"}, pushPayload : BOOLEAN, nextHistory : BOOLEAN,
     pushPayloads : Lists(Push, 2), toolCalls : Lists(Call, 2)]

(* What the instant server accepts, the fire accepts too, unless there are *)
(* calls given outright that are not in order: a classifier written for    *)
(* the one works with the other.                                           *)
ASSUME InstantDecisionsFitTheFire ==
    \A d \in Decision :
        D!ValidDecision(d, FALSE) =>
            \/ D!ValidDecision(d, TRUE)
            \/ d.tag = "tool-request" /\ d.toolCalls.is # "missing"

(* A decision that is accepted has what it is about: to send something,    *)
(* or to run something; a tool request that has nothing to run is one      *)
(* whose pushes carry no calls, and that the fire turns away.              *)
ASSUME AcceptedDecisionsHaveContent ==
    \A d \in Decision, inline \in BOOLEAN :
        D!ValidDecision(d, inline) =>
            /\ d.tag = "finish" => D!Listed(d.pushPayloads)
            /\ d.tag = "tool-request" =>
                  D!Listed(d.pushPayloads) \/ D!ToolCalls(d) # <<>>

(* The fire never runs tools in its last round, whose results no model     *)
(* would read, and never without a call to run.                            *)
ASSUME ToolsRunForARound ==
    \A d \in Decision, max \in 1..2, can \in BOOLEAN :
        \A i \in 0..(max - 1) :
            D!FireDoes(d, i, max, can) = "runs tools" =>
                i + 1 < max /\ can /\ D!ToolCalls(d) # <<>>

(* A classifier that names every call of the model, each call once, and a  *)
(* host that answers each call make a turn that a relay takes, whatever    *)
(* calls the host found beside the model's own, and also when running them *)
(* fails.                                                                  *)
Calls == {s \in AtMost(Id, 3) : Cardinality(D!Ids(s)) = Len(s)}
Outcomes(calls) == {[ok |-> TRUE, results |-> calls],
                    [ok |-> FALSE, results |-> <<>>]}
ASSUME TurnsAreAccepted ==
    \A native \in Calls, calls \in Calls :
        D!Ids(native) \subseteq D!Ids(calls) =>
            \A e \in Outcomes(calls) : D!TurnAccepted(D!Turn(native, calls, e))

(* A call of the model that the classifier leaves out has no answer.       *)
ASSUME OmittedCallsAreNot ==
    \A native \in Calls, calls \in Calls :
        ~(D!Ids(native) \subseteq D!Ids(calls)) =>
            \A e \in Outcomes(calls) : ~D!TurnAccepted(D!Turn(native, calls, e))

-----------------------------------------------------------------------------
(* Conversations                                                           *)

Message == [role : D!Role \cup {"other"}, content : D!Content,
            tool_calls : Lists([id : {"c1"}, inOrder : BOOLEAN], 1),
            answersACall : BOOLEAN]
Response == [hasMessage : {FALSE}, message : {"none"}]
            \cup [hasMessage : {TRUE},
                  message : {m \in Message : m.role = "assistant" /\ ~m.answersACall}]

(* A client that carries on from what the loop gave it, the turn of the    *)
(* model with its calls and a result for each, is let in again, whether    *)
(* the model said anything beside its calls and the tools found anything.  *)
ASSUME ResumedConversationsAreValid ==
    \A r \in Response, result \in {m \in Message : m.role = "tool"} :
        LET turn == D!AssistantMessage(r) IN
        /\ D!Carrier(turn) /\ \A i \in DOMAIN turn.tool_calls.list :
                                   turn.tool_calls.list[i].inOrder
        /\ result.content \in {"empty", "text", "parts"} /\ result.answersACall
        => D!MessagesValid(<<turn, result>>)

(* But the message that stands for a broken response, which the next round *)
(* of a loop sends on unchecked, is refused of a client that resumes.      *)
ASSUME BrokenAnswersCannotBeResumed ==
    /\ \A r \in Response : ~r.hasMessage => ~D!MessagesValid(<<D!AssistantMessage(r)>>)
    /\ \A r \in Response :
          LET turn == D!AssistantMessage(r) IN
          ~D!Listed(turn.tool_calls) /\ turn.content \in {"none", "empty"} =>
              ~D!MessagesValid(<<turn>>)
=============================================================================
