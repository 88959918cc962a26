---------------------------- MODULE TaskRequests ----------------------------
(***************************************************************************)
(* What a task's content may be: the checks of POST /schedule-message and  *)
(* PUT /update-message, what they store, and what a delivery makes of it   *)
(* weeks later.  The three are written apart, in server/lib/validation.js, *)
(* the two handlers, and message-processor.js; a task that one of them     *)
(* lets through and another cannot use fails when nobody is looking.       *)
(*                                                                         *)
(* Nothing here changes in time: a request is a record of the fields that  *)
(* the checks relate to one another, and `inOrder' stands for all fields   *)
(* whose own form is all that is asked about.                              *)
(***************************************************************************)
EXTENDS Naturals, Sequences

Type == {"fixed", "prompted", "auto", "instant"}
Credential == {"apiUrl", "apiKey", "primaryModel"}
Recurrence == {"none", "daily", "weekly"}
Prompt == {"none", "completePrompt", "messages", "both", "malformed"}
Avatar == {"none", "url", "bad"}

(* The body of a POST.                                                     *)
ScheduleRequest ==
    [messageType : Type \cup {"other"},
     inOrder     : BOOLEAN,   \* contactName, tzId, maxTokens, temperature, ...
     userMessage : BOOLEAN,
     prompt      : Prompt,
     api         : SUBSET Credential,
     recurrence  : {"absent", "other"} \cup Recurrence,
     immediate   : {"absent", "yes", "malformed"},
     first       : {"absent", "malformed", "past", "future"},
     supersedes  : {"absent", "itself", "another", "malformed"},
     avatar      : Avatar,
     subscription : BOOLEAN]  \* carries a pushSubscription, as it once did

-----------------------------------------------------------------------------
(* validateScheduleMessagePayload.                                         *)

TimeAccepted(q) ==
    IF q.immediate = "yes" THEN q.first # "malformed"
                           ELSE q.immediate = "absent" /\ q.first = "future"

PromptAccepted(q) == q.prompt \notin {"both", "malformed"}

HasAiConfig(q) == q.prompt \in {"completePrompt", "messages"} /\ q.api = Credential

ContentAccepted(q) ==
    CASE q.messageType = "fixed" -> q.userMessage
      [] q.messageType \in {"prompted", "auto"} -> HasAiConfig(q)
      [] q.messageType = "instant" ->
            /\ q.immediate # "yes"
            /\ q.recurrence \in {"absent", "none"}
            /\ HasAiConfig(q) \/ q.userMessage

(* The fields that are only asked about their form.                        *)
FormsAccepted(q) == q.inOrder

Accepted(q) ==
    /\ q.messageType \in Type
    /\ FormsAccepted(q)
    /\ ~q.subscription
    /\ q.recurrence # "other"
    /\ q.supersedes \in {"absent", "another"}
    /\ TimeAccepted(q)
    /\ PromptAccepted(q)
    /\ ContentAccepted(q)

(* A bad avatar does not turn a request away: the field is dropped.        *)
UsableAvatar(a) == IF a = "bad" THEN "none" ELSE a

(* fullTaskData, as it is encrypted into the row.                          *)
Task ==
    [messageType : Type, userMessage : BOOLEAN,
     prompt : {"none", "completePrompt", "messages"},
     api : SUBSET Credential, recurrence : Recurrence,
     avatar : {"none", "url"}]

Stored(q) ==
    [messageType |-> q.messageType, userMessage |-> q.userMessage,
     prompt |-> q.prompt, api |-> q.api,
     recurrence |-> IF q.recurrence = "absent" THEN "none" ELSE q.recurrence,
     avatar |-> UsableAvatar(q.avatar)]

-----------------------------------------------------------------------------
(* PUT: the patch is checked by itself, then laid over what is stored.     *)
Patch ==
    [inOrder : BOOLEAN, userMessage : BOOLEAN, prompt : Prompt,
     api : SUBSET Credential, recurrence : {"absent", "other"} \cup Recurrence,
     avatar : Avatar, subscription : BOOLEAN]

PatchAccepted(u) ==
    /\ FormsAccepted(u)
    /\ ~u.subscription
    /\ u.recurrence # "other"
    /\ PromptAccepted(u)

(* A field that is missing or empty keeps its value; a prompt of one form  *)
(* empties the other form.                                                 *)
Patched(t, u) ==
    [t EXCEPT !.userMessage = @ \/ u.userMessage,
              !.prompt = IF u.prompt = "none" THEN @ ELSE u.prompt,
              !.api = @ \cup u.api,
              !.recurrence = IF u.recurrence = "absent" THEN @
                                                        ELSE u.recurrence,
              !.avatar = IF u.avatar = "url" THEN "url" ELSE @]

-----------------------------------------------------------------------------
(* What a delivery makes of it: processSingleMessage and callLlm.          *)

(* taskNeedsLlm: whether the hooks of a fire are asked at all.             *)
NeedsLlm(t) == \/ t.messageType \in {"prompted", "auto"}
               \/ t.messageType = "instant" /\ t.api = Credential

(* Where the text comes from; "nowhere": there is nothing to send, or      *)
(* nothing to ask the model with.                                          *)
Source(t) ==
    CASE t.messageType = "fixed" ->
            IF t.userMessage THEN "user" ELSE "nowhere"
      [] t.messageType = "instant" ->
            IF HasAiConfig(t) THEN "llm"
            ELSE IF t.userMessage THEN "user" ELSE "nowhere"
      [] OTHER -> IF HasAiConfig(t) THEN "llm" ELSE "nowhere"

(* buildLlmRequestBody: the conversation that is sent, and whether the     *)
(* default temperature goes with it.                                       *)
LlmMessages(t) == IF t.prompt = "messages" THEN "messages" ELSE "completePrompt"
DefaultTemperature(t) == t.prompt # "messages"

(* normalizeAiApiUrl, on the segments of the path.                         *)
Completions == <<"chat", "completions">>
Ends(path, tail) ==
    \E n \in 0..Len(path) : SubSeq(path, n + 1, Len(path)) = tail
NormalPath(path) ==
    IF Ends(path, Completions) THEN path
    ELSE IF path = <<>> THEN <<"v1">> \o Completions
    ELSE IF Ends(path, <<"v1">>) THEN path \o Completions
    ELSE path
=============================================================================
