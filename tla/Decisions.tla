------------------------------ MODULE Decisions ------------------------------
(***************************************************************************)
(* What the host's onLLMOutput may decide after a round (shared/src/       *)
(* index.js, assertValidDecision), and the conversation that the next      *)
(* round is given (server/lib/agentic-fire.js, runLoop).  The instant      *)
(* server and the fire of a scheduled task share the check; only the fire  *)
(* runs tools itself, `inline'.  Relays refuse a conversation in which a   *)
(* tool's result answers no declared call, or a declared call has none.    *)
(***************************************************************************)
EXTENDS Integers, Sequences, FiniteSets

Tag == {"finish", "tool-request", "continue", "skip-push"}

(* A field that should hold a list: missing, no list, or the list.         *)
Missing == [is |-> "missing", list |-> <<>>]
NoList == [is |-> "no list", list |-> <<>>]
ListOf(s) == [is |-> "list", list |-> s]
Listed(f) == f.is = "list" /\ f.list # <<>>

(* A push of a decision: inOrder if it is an object with no splitPattern   *)
(* and no empty messageId; calls are the toolCalls it carries.             *)
(* A call: its id, and whether it is an object at all.                     *)
PushValid(p) == p.inOrder
CallValid(c) == c.inOrder

PushesValid(d) == Listed(d.pushPayloads) /\
                  \A i \in DOMAIN d.pushPayloads.list :
                      PushValid(d.pushPayloads.list[i])
CallsValid(d) == Listed(d.toolCalls) /\
                 \A i \in DOMAIN d.toolCalls.list : CallValid(d.toolCalls.list[i])

(* assertValidDecision.                                                    *)
ValidDecision(d, inline) ==
    /\ d.tag \in Tag
    /\ ~d.pushPayload
    /\ CASE d.tag = "continue" -> d.nextHistory
         [] d.tag = "skip-push" -> TRUE
         [] d.tag = "finish" -> PushesValid(d)
         [] d.tag = "tool-request" ->
               IF inline /\ d.toolCalls.is # "missing"
               THEN CallsValid(d) /\
                    (d.pushPayloads.is = "missing" \/ PushesValid(d))
               ELSE PushesValid(d)

(* extractToolCallsFromDecision: the calls given outright, or those that   *)
(* the pushes carry.                                                       *)
ToolCalls(d) ==
    IF Listed(d.toolCalls) THEN d.toolCalls.list
    ELSE LET pushes == d.pushPayloads.list
             before[i \in 0..Len(pushes)] ==
                IF i = 0 THEN <<>> ELSE before[i - 1] \o pushes[i].calls.list
         IN before[Len(pushes)]

(* What the fire does with the decision of round `iteration'.              *)
FireDoes(d, iteration, maxToolIterations, canExecute) ==
    IF ~ValidDecision(d, TRUE) THEN "throws"
    ELSE CASE d.tag = "continue" -> IF iteration = maxToolIterations - 1
                                    THEN "exceeded" ELSE "next round"
           [] d.tag = "skip-push" -> "skipped"
           [] d.tag = "finish" -> "sends"
           [] d.tag = "tool-request" ->
                 IF ToolCalls(d) = <<>> \/ ~canExecute THEN "throws"
                 ELSE IF iteration = maxToolIterations - 1
                 THEN "exceeded" ELSE "runs tools"

-----------------------------------------------------------------------------
(* The turn that a tool round adds, as ids: the calls the model declared,  *)
(* those the host found, and the results of executeToolCalls.              *)
Ids(calls) == {calls[i] : i \in DOMAIN calls}

(* A failed executeToolCalls is answered call by call, with the failure.   *)
Results(toolCalls, executed) ==
    IF executed.ok THEN executed.results ELSE toolCalls

(* The assistant's message declares its own calls, then those it lacks.    *)
Declared(native, toolCalls) ==
    native \o SelectSeq(toolCalls, LAMBDA id : id \notin Ids(native))

Turn(native, toolCalls, executed) ==
    [declared |-> Declared(native, toolCalls),
     results |-> Results(toolCalls, executed)]

(* What a strict relay asks of a turn.                                     *)
TurnAccepted(t) ==
    /\ Ids(t.results) = Ids(t.declared)
    /\ Cardinality(Ids(t.declared)) = Len(t.declared)
    /\ Len(t.results) = Len(t.declared)

-----------------------------------------------------------------------------
(* The messages that a request, a patch and a resumed conversation may     *)
(* hold.  A message: its role, the kind of its content, the calls it       *)
(* carries and whether it names the call it answers.                       *)
Role == {"system", "user", "assistant", "tool"}
Content == {"none", "empty", "text", "no parts", "parts", "other"}

Carrier(m) == m.role = "assistant" /\ Listed(m.tool_calls)

(* validateLlmMessagesShape.                                               *)
MessageValid(m) ==
    /\ m.role \in Role
    /\ CASE Carrier(m) -> \A i \in DOMAIN m.tool_calls.list : CallValid(m.tool_calls.list[i])
         [] m.role = "tool" -> /\ m.content \in Content \ {"none", "other"}
                               /\ m.answersACall
         [] OTHER -> m.content \in {"text", "parts"}
MessagesValid(messages) ==
    messages # <<>> /\ \A i \in DOMAIN messages : MessageValid(messages[i])

(* extractAssistantMessage: what the loop appends after a round, the       *)
(* message of the model or one to stand for a response that has none.      *)
AssistantMessage(response) ==
    IF response.hasMessage THEN response.message
    ELSE [role |-> "assistant", content |-> "empty", tool_calls |-> Missing,
          answersACall |-> FALSE]
=============================================================================
