------------------------------- MODULE MCFire -------------------------------
(* The instance of Fire that TLC checks, and with it what the requests that *)
(* create tasks make sure of.                                              *)
EXTENDS Fire, TaskRequests

Forgotten(j) ==
    [j EXCEPT !.who = "nobody", !.path = "plain", !.sent = 0, !.rounds = 0,
              !.n = IF j.settled = <<>> THEN 0 ELSE j.n]

(* What is still read of an attempt: its round within the loop only; of    *)
(* one that has ended no more than the properties ask about.               *)
StillRead(j) ==
    CASE j.pc = "done" -> Forgotten(j)
      [] j.pc = "dead" -> [Forgotten(j) EXCEPT !.fired = FALSE, !.marked = TRUE]
      [] j.pc = "round" -> j
      [] OTHER -> [j EXCEPT !.rounds = 0]

WhatIsRead ==
    <<row, request, pushed, overlapped, faults, outbox, seq,
      [a \in Attempt |-> StillRead(job[a])]>>

-----------------------------------------------------------------------------
(* TaskRequests, over all requests, patches and stored tasks               *)
AcceptedRequest == {q \in ScheduleRequest : Accepted(q)}
AcceptedPatch == {u \in Patch : PatchAccepted(u)}
FirstStored == {Stored(q) : q \in AcceptedRequest}

(* What the delivery relies on.                                            *)
Deliverable(t) == Source(t) # "nowhere"

(* Every task that a POST has created can be delivered, and goes the way   *)
(* of the hooks exactly if it may need the model.                          *)
ASSUME CreatedTasksDeliverable ==
    \A t \in FirstStored :
        t \in Task /\ Deliverable(t) /\ (Source(t) = "llm" => NeedsLlm(t))

(* No sequence of patches takes that away, whatever the task looked like:  *)
(* a patch can fill in fields and replace them, never empty them.          *)
ASSUME PatchesKeepTasksDeliverable ==
    \A t \in {s \in Task : Deliverable(s)}, u \in AcceptedPatch :
        LET s == Patched(t, u) IN s \in Task /\ Deliverable(s)

(* The prompt the model gets is the last one that was sent, in the form in *)
(* which it was sent; none is made up, and none of the other form is left. *)
ASSUME LatestPromptUsed ==
    \A t \in FirstStored, u \in AcceptedPatch :
        LET s == Patched(t, u) IN
        Source(s) = "llm" =>
            /\ u.prompt # "none" => LlmMessages(s) = u.prompt
            /\ u.prompt = "none" => LlmMessages(s) = t.prompt
            /\ DefaultTemperature(s) <=> LlmMessages(s) = "completePrompt"

(* A POST of type instant must not recur; a patch of it may make it recur, *)
(* for PUT does not look at the type of the task (see the README).         *)
ASSUME InstantMayRecurAfterPatch ==
    /\ \A t \in FirstStored : t.messageType = "instant" => t.recurrence = "none"
    /\ \E t \in FirstStored, u \in AcceptedPatch :
          t.messageType = "instant" /\ Patched(t, u).recurrence = "daily"

(* Rewriting the address of the model twice is rewriting it once, and what *)
(* comes out ends in the chat endpoint unless it was a path of its own.    *)
Paths == UNION {[1..n -> {"v1", "chat", "completions", "own"}] : n \in 0..4}
ASSUME NormalisedOnce ==
    \A p \in Paths :
        /\ NormalPath(NormalPath(p)) = NormalPath(p)
        /\ NormalPath(p) = p \/ Ends(NormalPath(p), Completions)
=============================================================================
