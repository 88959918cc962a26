-------------------------------- MODULE Fire --------------------------------
(***************************************************************************)
(* How one occurrence of a task is delivered (server/lib/message-          *)
(* processor.js, server/lib/agentic-fire.js): hooks and tool rounds, or    *)
(* one LLM call; then the pushes are recorded, sent and marked, the host   *)
(* is told, and the row is settled.  Cron delivers under a claim, one      *)
(* attempt at a time; a request that schedules an instant message delivers *)
(* it without one, in up to MaxRetries + 1 attempts of its own.  What else *)
(* may become of a claimed row (stale, unreadable, cancelled) is in        *)
(* RunTick and TaskHandlers.                                               *)
(***************************************************************************)
EXTENDS Outbox, Sequences

CONSTANTS
    MaxRounds,      \* maxToolIterations
    MaxRetries,     \* of a request
    MaxFaults,      \* crashes and failing writes
    MaxConfirmed    \* messages the client has confirmed

ASSUME FireConstants ==
    /\ Path = {"plain", "hook"}
    /\ MaxRounds \in Nat \ {0} /\ MaxRetries \in Nat /\ MaxFaults \in Nat /\ MaxConfirmed \in Nat

VARIABLES
    row,        \* the row of the occurrence in scheduled_messages
    job,        \* job[a]: attempt a, processSingleMessage once
    request,    \* the scheduling request, if the message is an instant one
    pushed,     \* <<a, id>>: what the push service has accepted
    overlapped, \* history: two attempts were under way at the same time
    faults

vars == <<row, job, request, pushed, overlapped, faults, outbox, seq>>

Fate == {"none", "sent", "skipped", "failed", "not-handled"}

Job == [who      : {"nobody", "cron", "request"},
        pc       : {"idle", "begin", "round", "compose", "append", "send", "mark",
                    "settle", "close", "done", "dead"},
        path     : Path,
        n        : 0..MaxPush,     \* pushes to send
        sent     : 0..MaxPush,     \* pushes sent
        rounds   : 0..MaxRounds,
        fate     : Fate,
        fired    : BOOLEAN,        \* onBeforeFire was called
        recorded : BOOLEAN,        \* the outbox took the batch
        marked   : BOOLEAN,        \* and the marks
        settled  : Seq([status : Fate, sent : 0..MaxPush])]     \* onFireSettled

Request == [pc    : {"none", "ready", "running", "answered", "dead"},
            tries : 0..MaxRetries]

TypeOK ==
    /\ OutboxTypeOK
    /\ row \in {"pending", "sent", "failed", "gone"}
    /\ job \in [Attempt -> Job]
    /\ request \in Request
    /\ pushed \subseteq Attempt \X Id
    /\ overlapped \in BOOLEAN
    /\ faults \in 0..MaxFaults

Idle == [who |-> "nobody", pc |-> "idle", path |-> "plain", n |-> 0, sent |-> 0,
         rounds |-> 0, fate |-> "none", fired |-> FALSE, recorded |-> TRUE,
         marked |-> TRUE, settled |-> <<>>]

Init ==
    /\ OutboxInit
    /\ row = "pending"
    /\ job = [a \in Attempt |-> Idle]
    /\ request \in {[pc |-> pc, tries |-> 0] : pc \in {"none", "ready"}}
    /\ pushed = {}
    /\ overlapped = FALSE
    /\ faults = 0

Alive(a) == job[a].pc \notin {"idle", "done", "dead"}
NextAttempt(a) == job[a].pc = "idle" /\ \A b \in Attempt : b < a => job[b].pc # "idle"

Fault == faults < MaxFaults /\ faults' = faults + 1

-----------------------------------------------------------------------------
(* Who starts an attempt                                                   *)

Start(a, who) ==
    /\ NextAttempt(a)
    /\ job' = [job EXCEPT ![a].who = who, ![a].pc = "begin"]
    /\ overlapped' = (overlapped \/ \E b \in Attempt : Alive(b))
    /\ UNCHANGED <<row, pushed, faults, outboxVars>>

(* A cron tick that has claimed the row; claims exclude each other.        *)
StartCron(a) ==
    /\ row = "pending"
    /\ \A b \in Attempt : Alive(b) => job[b].who # "cron"
    /\ Start(a, "cron")
    /\ UNCHANGED request

(* A slip: the request does not look whether the row is still there.       *)
Whatever == TRUE
RowThere == row = "pending"

StartRequest(a) ==
    /\ request.pc = "ready" /\ RowThere
    /\ Start(a, "request")
    /\ request' = [request EXCEPT !.pc = "running"]

TriesAgain ==
    /\ request.tries < MaxRetries
    /\ request' = [pc |-> "ready", tries |-> request.tries + 1]
Answered == request' = [request EXCEPT !.pc = "answered"]

(* TASK_NOT_FOUND; or the row cannot be read, which is tried again.        *)
RequestFindsNothing ==
    /\ request.pc = "ready"
    /\ \/ ~RowThere /\ Answered
       \/ TriesAgain
       \/ request.tries = MaxRetries /\ Answered
    /\ UNCHANGED <<row, job, pushed, overlapped, faults, outboxVars>>

-----------------------------------------------------------------------------
(* The fire                                                                *)

Step(a, from, upd) ==
    /\ job[a].pc = from
    /\ job' = [job EXCEPT ![a] = upd]
    /\ UNCHANGED <<row, request, overlapped>>

Quiet == UNCHANGED <<pushed, faults, outboxVars>>

(* A slip: an early return that tells the host nothing.                    *)
ToClose(j, fate) == [j EXCEPT !.pc = "close", !.fate = fate]

ToSettle(j, fate) == [j EXCEPT !.pc = "settle", !.fate = fate]

(* Without hooks, and for a fixed text, there is no fire.                  *)
NoFire(a) == Step(a, "begin", [job[a] EXCEPT !.pc = "compose"]) /\ Quiet

(* onBeforeFire: null, skip, it throws, or there are messages.             *)
BeforeFire(a) ==
    LET j == [job[a] EXCEPT !.fired = TRUE]
    IN /\ \/ \E fate \in {"not-handled", "skipped", "failed"} :
                 Step(a, "begin", ToSettle(j, fate))
          \/ Step(a, "begin", [j EXCEPT !.pc = "round"])
       /\ Quiet

(* One LLM round and what onLLMOutput makes of it: go on (with or without  *)
(* tools), skip, finish; any of it may fail or be out of time.             *)
Round(a) ==
    LET j == [job[a] EXCEPT !.rounds = @ + 1]
    IN /\ job[a].rounds < MaxRounds
       /\ \/ Step(a, "round", j)
          \/ \E fate \in {"skipped", "failed"} : Step(a, "round", ToSettle(j, fate))
          \/ \E n \in 0..MaxPush :
                 Step(a, "round", [j EXCEPT !.pc = "append", !.path = "hook", !.n = n])
       /\ Quiet

(* AGENTIC_LOOP_EXCEEDED, or AGENTIC_TOTAL_TIMEOUT before a round.         *)
NoMoreRounds(a) == Step(a, "round", ToSettle(job[a], "failed")) /\ Quiet

(* The plain way: a fixed text or one LLM call, split into sentences.      *)
Compose(a) ==
    /\ \/ \E n \in 1..MaxPush :
              Step(a, "compose", [job[a] EXCEPT !.pc = "append", !.path = "plain", !.n = n])
       \/ Step(a, "compose", [job[a] EXCEPT !.pc = "close", !.fate = "failed"])
    /\ Quiet

-----------------------------------------------------------------------------
(* Recording and sending                                                   *)

Failed(j) == [j EXCEPT !.pc = "mark", !.fate = "failed"]

(* No VAPID keys, no subscription.                                         *)
NoSubscription(a) == Step(a, "append", Failed(job[a])) /\ Quiet

(* A slip: the batch is recorded later, or never.                          *)
SendFirst(a) == Step(a, "append", [job[a] EXCEPT !.pc = "send"]) /\ Quiet

AppendPushes(a) ==
    /\ Step(a, "append", [job[a] EXCEPT !.pc = "send"])
    /\ AppendOutboxMessages(a, job[a].path, job[a].n)
    /\ UNCHANGED <<pushed, faults>>

(* Best effort: the push is sent all the same.                             *)
AppendFails(a) ==
    /\ job[a].n > 0
    /\ Step(a, "append", [job[a] EXCEPT !.pc = "send", !.recorded = FALSE])
    /\ Fault
    /\ UNCHANGED <<pushed, outboxVars>>

SendPush(a) ==
    /\ job[a].sent < job[a].n
    /\ Step(a, "send", [job[a] EXCEPT !.sent = @ + 1])
    /\ pushed' = pushed \cup {<<a, <<job[a].path, job[a].sent + 1>>>>}
    /\ UNCHANGED <<faults, outboxVars>>

PushFails(a) ==
    /\ job[a].sent < job[a].n
    /\ Step(a, "send", Failed(job[a]))
    /\ Quiet

AllSent(a) ==
    /\ job[a].sent = job[a].n
    /\ Step(a, "send", [job[a] EXCEPT !.pc = "mark", !.fate = "sent"])
    /\ Quiet

Told(j) == [j EXCEPT !.pc = IF j.path = "hook" THEN "settle" ELSE "close"]

(* A slip: nothing is marked after a failure.                              *)
OnlyIfAllSent(j) == IF j.fate = "sent" THEN Batch(j.path, j.sent) ELSE {}

SentIds(j) == Batch(j.path, j.sent)

MarkPushesDelivered(a) ==
    /\ Step(a, "mark", Told(job[a]))
    /\ MarkOutboxDelivered(SentIds(job[a]))
    /\ UNCHANGED <<pushed, faults>>

MarkFails(a) ==
    /\ job[a].sent > 0
    /\ Step(a, "mark", Told([job[a] EXCEPT !.marked = FALSE]))
    /\ Fault
    /\ UNCHANGED <<pushed, outboxVars>>

(* onFireSettled; if the hook did not handle the task, the plain way       *)
(* follows.                                                                *)
NotifyFireSettled(a) ==
    LET told == [job[a] EXCEPT !.settled =
                    Append(@, [status |-> job[a].fate, sent |-> job[a].sent])]
    IN /\ Step(a, "settle",
               IF job[a].fate = "not-handled"
               THEN [told EXCEPT !.pc = "compose", !.fate = "none"]
               ELSE [told EXCEPT !.pc = "close"])
       /\ Quiet

-----------------------------------------------------------------------------
(* What becomes of the row                                                 *)

(* A slip: a fire that was skipped is taken for a failure.                 *)
OnlySent(a) == job[a].fate = "sent"

Succeeded(a) == job[a].fate \in {"sent", "skipped"}

(* An update by id finds the row in whatever state it is, if it is there.  *)
Become(status) == IF row = "gone" THEN "gone" ELSE status

Closed(a) ==
    /\ job[a].pc = "close"
    /\ job' = [job EXCEPT ![a].pc = "done"]
    /\ UNCHANGED <<pushed, overlapped, outboxVars>>

Answers(a) == IF job[a].who = "request" THEN Answered ELSE UNCHANGED request

(* The row is deleted; if that fails, marked as sent; if both fail, it     *)
(* stays.                                                                  *)
CloseDelivered(a) ==
    /\ Succeeded(a)
    /\ \/ Closed(a) /\ row' = "gone" /\ UNCHANGED faults
       \/ Closed(a) /\ row' = Become("sent") /\ Fault
       \/ Closed(a) /\ UNCHANGED row /\ Fault
    /\ Answers(a)

(* A failure that is not final: cron backs off, the request waits.         *)
CloseForRetry(a) ==
    /\ ~Succeeded(a)
    /\ Closed(a)
    /\ IF job[a].who = "request" THEN TriesAgain ELSE UNCHANGED request
    /\ UNCHANGED <<row, faults>>

(* A final failure: out of retries, or one that retries cannot mend.       *)
CloseFailed(a) ==
    /\ ~Succeeded(a)
    /\ \/ Closed(a) /\ row' = Become("failed") /\ UNCHANGED faults
       \/ Closed(a) /\ UNCHANGED row /\ Fault
    /\ Answers(a)

(* The isolate is gone.                                                    *)
Crash(a) ==
    /\ Alive(a)
    /\ job' = [job EXCEPT ![a].pc = "dead"]
    /\ request' = IF job[a].who = "request" THEN [request EXCEPT !.pc = "dead"] ELSE request
    /\ Fault
    /\ UNCHANGED <<row, pushed, overlapped, outboxVars>>

-----------------------------------------------------------------------------
Fires(a) ==
    \/ NoFire(a) \/ BeforeFire(a) \/ Round(a) \/ NoMoreRounds(a) \/ Compose(a)
    \/ NoSubscription(a) \/ AppendPushes(a) \/ AppendFails(a)
    \/ SendPush(a) \/ PushFails(a) \/ AllSent(a)
    \/ MarkPushesDelivered(a) \/ MarkFails(a) \/ NotifyFireSettled(a)

Closes(a) == CloseDelivered(a) \/ CloseForRetry(a) \/ CloseFailed(a)

(* What is recorded may have reached the client, by push or by pull.       *)
Client ==
    /\ Cardinality({id \in Id : outbox[id] # NULL /\ outbox[id].acked}) < MaxConfirmed
    /\ \E id \in Id : outbox[id] # NULL /\ ~outbox[id].acked /\ AckOutboxMessages({id})
    /\ UNCHANGED <<row, job, request, pushed, overlapped, faults>>

Next ==
    \/ \E a \in Attempt : StartCron(a) \/ StartRequest(a)
    \/ \E a \in Attempt : Fires(a) \/ Closes(a) \/ Crash(a)
    \/ RequestFindsNothing
    \/ Client

Spec == Init /\ [][Next]_vars

-----------------------------------------------------------------------------
(* Properties                                                              *)

Finished(a) == job[a].pc = "done" /\ job[a].fate \in {"sent", "skipped"}

(* What the push service has accepted is in the outbox first, and as it    *)
(* was sent: unless the outbox refused the batch, the client had already   *)
(* confirmed that message, or another attempt was under way at the same    *)
(* time.                                                                   *)
RecordedAsSent ==
    \A a \in Attempt, id \in Id :
        <<a, id>> \in pushed /\ job[a].recorded =>
            /\ outbox[id] # NULL
            /\ outbox[id].by >= a \/ outbox[id].acked \/ overlapped

(* The mark of a row is about the payload in it.  A row is marked only if  *)
(* its author sent it (or an attempt the outbox had refused); and it is    *)
(* marked if its author sent it and has come so far, also when a later     *)
(* push of the batch failed.                                               *)
MarksTruthful ==
    \A id \in Id :
        outbox[id] # NULL =>
            LET by == outbox[id].by
                sender(c) == <<c, id>> \in pushed
            IN /\ outbox[id].delivered =>
                      \/ overlapped
                      \/ \E c \in Attempt : sender(c) /\ (c = by \/ outbox[id].acked \/ ~job[c].recorded)
               /\ sender(by) /\ job[by].pc = "done" /\ job[by].marked =>
                      outbox[id].delivered

(* Once onBeforeFire was called, onFireSettled is called exactly once,     *)
(* before the attempt ends, and says what was sent.                        *)
SettledOnce ==
    \A a \in Attempt :
        LET j == job[a]
            hooks == {id \in Batch("hook", MaxPush) : <<a, id>> \in pushed}
        IN /\ Len(j.settled) <= 1
           /\ j.fired /\ j.pc = "done" => Len(j.settled) = 1
           /\ Len(j.settled) = 1 =>
                 LET told == j.settled[1]
                 IN /\ told.sent = Cardinality(hooks)
                    /\ told.status = "sent" => told.sent = j.n
                    /\ told.status \in {"skipped", "not-handled"} => hooks = {}

(* The row says how the occurrence ended: it goes away only by a delivery  *)
(* or a skip, and it is not left failed beside one, unless a write failed. *)
RowTruthful ==
    /\ row \in {"gone", "sent"} => \E a \in Attempt : Finished(a)
    /\ row = "failed" /\ faults = 0 => \A a \in Attempt : ~Finished(a)

(* Two attempts deliver the whole occurrence only if one began while the   *)
(* other was under way (a request needs no claim), or a write failed.      *)
TwiceOnlyIfOverlapped ==
    \A a, b \in Attempt :
        a # b /\ job[a].fate = "sent" /\ job[b].fate = "sent" =>
            overlapped \/ faults > 0
=============================================================================
