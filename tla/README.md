# ReiStandard active messaging, in TLA+

ReiStandard lets a character write to its user on its own: a server keeps
scheduled tasks, a cron job delivers the due ones (a fixed text, one LLM call,
or a tool-calling loop), and the result reaches the browser as Web Push
messages that a service worker shows, or over an in-page transport.  This
directory holds a TLA+ model of the parts of that system whose correctness
depends on interleaving, failure and time; the configurations that check it
with TLC; and proofs, checked by TLAPS, of what matters most.

Paths below are relative to `src/packages/rei-standard-amsg/`; `server/`
abbreviates `server/src/server/`.

## 1. The system: components, state, operations

| Component | State | Operations |
|---|---|---|
| **Task table** `server/adapters/d1.js`, `schema.sqlite.js` (Postgres: `pg.js`, `neon.js`, `pg-shared.js`) | rows of `scheduled_messages`: `status`, `next_send_at`, `retry_count`, `retry_after`, `lease_until`, `serialize_group`, `encrypted_payload` | create, create-superseding, read due rows, claim, renew lease, update by id / uuid, delete by id / uuid, list, clean up |
| **Delivery loop** `server/lib/run-tick.js` | per invocation: its snapshot of the due rows, a pool of at most 8 deliveries, one heartbeat timer per delivery | `runScheduledTick` (cron), `runTask` (queue consumer): fetch, decrypt, reserve groups, claim, staleness guard, deliver, retry / give up / advance / delete |
| **Scheduling handlers** `server/handlers/{schedule,update,cancel}-message.js` | none of their own; PUT holds a merged payload between its read and its write | POST (with `immediate`, `supersedesUuid`, `messageType: instant`), PUT, DELETE |
| **In-request delivery** `server/lib/message-processor.js` (`processMessagesByUuid`) | retry counter of the request | deliver a fresh row without a claim, three attempts, delete or mark failed |
| **Recurrence** `server/lib/recurrence.js` | pure | next future occurrence, in UTC or in the wall clock of a time zone |
| **Agentic fire** `server/lib/agentic-fire.js` | one fire: tool turns, quotas, deadline, tasks scheduled / renewed / cancelled, pushes | hooks, tool loop, settlement |
| **Outbox** `server/lib/outbox-store.js`, `handlers/outbox.js` | one record per push, until acknowledged or expired | record, mark delivered, pull after a cursor, acknowledge |
| **Client state** `server/lib/{client-state-store,state-chunks,state-accessors}.js`, `handlers/client-state.js` | key-value rows with a guard (client timestamp or version), long values cut into slice rows | batched last-writer-wins put and delete, read of a namespace, wipe |
| **Push subscription** `server/lib/push-subscription-store.js`, `handlers/push-subscription.js` | one subscription per user, encrypted with a key of the tenant | put, get, delete, forget when gone |
| **Tenants and hosts** `server/tenant/*`, `server/cloudflare/*`, `lib/encryption.js` | the tenant's configuration with its master key; per process, one promise of the database adapter | initialise, resolve, connect, token checks, envelope encryption |
| **Instant server** `instant/src/*` | one request: SSE stream, backup pushes, blob store | check, LLM call or hook loop, stream or push, multipart split, blob envelope |
| **Service worker** `sw/src/index.js` | IndexedDB: dedupe records, pending multipart messages and chunks, request queue; one cached connection | push, delivered copy, repair, multipart assembly, queue flush, reconnect |
| **Client SDK** `client/src/index.js` | one `deliver()`: transport result, receipts, timers; the browser's push subscription | schedule / update / cancel calls, `deliver`, subscription upkeep |
| **Shared** `shared/src/*` | pure | payload builders, checks of decisions and messages, LLM request, text cutting, Web Push encryption |

How they interact.  Everything on the server meets in the database: ticks,
HTTP handlers and in-request deliveries share `scheduled_messages` and nothing
else, each adapter call being one statement (or one batch).  A cron invocation
does not wait for the previous one, so ticks overlap, and each works from a
snapshot that may be minutes old when it is used.  The loop calls hooks of the
host, the LLM and the push service; the latter's messages come back to the
service worker, and to the client through the outbox or the in-page transport.

What is hard: overlapping ticks that hold the same row; a tick that dies between
sending and recording; a database that fails on the one write that records the
outcome; a heartbeat renewal that lands after the lease was given up or taken
over; user requests that change a row while it is being delivered; groups that
must be serialised across ticks by a condition inside one `UPDATE`; and, in the
browser, duplicated and reordered pushes, a worker that is stopped at any await,
and several events on one IndexedDB connection that may die under them; on
Postgres, a claim that is several statements; between client and instant server,
a stream, backup pushes, a receipt, a cancel and a timer in any order; and a
browser that hands out placeholder subscriptions while requests of an earlier
page are still under way.

What makes each part correct:

* **Table and delivery loop**: one delivery per row at a time; one delivery per
  `serializeBy` group at a time; no occurrence sent twice unless a failure
  prevented recording it; nothing given up before its retry budget is used;
  nothing removed undelivered; no lease outlives its use except after a fault;
  every due task is eventually settled.
* **Handlers**: a change answered with 200 stays; an update starts the retry
  budget anew; a cancelled task disappears with its group still serialised.
* **In-request delivery**: a message is delivered by the request or by cron, and the row
  says how it ended.
* **Outbox**: every message is pulled until acknowledged, in order.
* **Client state**: all replicas of a key agree on the newest write, and a value
  is never assembled from two writes.
* **Service worker**: each message reaches the business callback exactly once
  although it may arrive twice and the callback may fail; a multipart message is
  delivered once, complete, when all its chunks have arrived; each queued
  request is sent.
* **Client SDK**: `deliver()` resolves once, with an outcome that agrees with
  what arrived.
* **Agentic fire**: settlement runs once; the quota of follow-ups holds although
  calls overlap; a chain of tasks that schedule each other keeps its distance.
* **Recurrence**: the next occurrence is the first in the future, at the hour the
  clock on the wall showed.
* **Tenants and subscriptions**: no request is handed another's failure; a
  placeholder is never put on record; pushes find their way again after anything.
* **Instant server**: what the done frame and the HTTP status say of the run is
  true, and a failure is reported once.
* **The worker's connection**: one dead connection fails no operation that had no
  transaction on it.
* **Shared**: what one part of the system builds, cuts or accepts, the others can
  show, restore or use.

`PROJECT.json` lists the hazards one by one with the line where each bites.

## 2. Modules

| Module | Stands for |
|---|---|
| `TaskStore` | the table and the adapter's statements, as predicates (`Due`, `Claimable`, `GroupBusy`) and effects (`ClaimTask`, `RenewTaskLease`, `UpdateTaskById`, ...); the clock |
| `RunTick` | the delivery loop: one action per await of `deliverTasks` / `processTask` / `deliverClaimedTask`, its failures, and the clock's advance |
| `TaskHandlers` | POST, PUT (read and write are two steps) and DELETE |
| `TaskService` | the composition, its fairness, its properties, the inductive invariant |
| `PostgresService` | the same service over Postgres, its claim in up to three statements |
| `TaskServiceProofs` | type correctness and the effect of the operators; the exclusion of rows and groups, on D1 and on Postgres; leases, sends, retries, updates and outcomes |
| `Dedupe` | the service worker's delivery of one message key: claim, first delivery, duplicate and its repairs |
| `Multipart` | the reassembly of one multipart id: chain of calls, stores, done marker, clean-up |
| `StoreConnection` | the worker's cached IndexedDB connection, its deaths, its events and the one retry |
| `RequestQueue` | the service worker's outbox of page requests and its flushes, over `StoreConnection` |
| `LastWriterWins` | what the client state store promises: one value per key, that of the newest write |
| `ClientState` | the store: rows and slices, batches under guards, the two-query read; implements `LastWriterWins` |
| `Outbox` | the `message_outbox` table and its statements |
| `OutboxPull` | a client that pages through it while deliveries write |
| `Fire` | how one occurrence is delivered: hooks and rounds or one LLM call, recording, sending, marking, settlement, and what becomes of the row; by cron, or by the request that scheduled an instant message |
| `FollowUps` | `scheduleTask`, `renewTask` and `cancelTask` of overlapping fires and calls, against the loop's retries and the user |
| `Recurrence` | the arithmetic of daily and weekly tasks in a time zone |
| `WallClock` | a daily task living through a change of the clocks |
| `Tenants` | the tenant's configuration and master key, the adapter that requests of a process share |
| `Subscriptions` | the page that subscribes and registers, the key request before it, PUT and DELETE, over `Tenants` |
| `InstantServer` | one instant request on the server: checks, LLM call or hook loop, stream, pushes, answers |
| `Deliver` | `deliver()`, `sendInstant`, `consumeInstantStream` and the SSE reader of the client |
| `InstantDelivery` | the two composed over one connection, with the properties |
| `TaskRequests` | which task contents POST and PUT let in, how a patch changes them, what a delivery makes of them |
| `Pieces` | the chunks of a push, the slices of a value, the sentences of an answer, the protected blocks of a text |
| `Decisions` | what a hook may decide, the turn added to a conversation, which conversation may be resumed |
| `Notices` | the push builders, the envelope of an oversized push, and what the worker shows of a push |
| `MC...` | values, symmetries and views for TLC, and the facts about the pure modules (below) |
| `DedupeProofs` | type correctness; a message is not claimed anew within its TTL; what its record and the answers say is so |
| `MultipartProofs` | type correctness; a single hand-over; every chunk is counted |
| `StoreProofs` | the client state: type correctness, the refinement of `LastWriterWins`, no torn read, true answers; the worker's request outbox: type correctness, order, removal, one dead connection |
| `OutboxProofs` | type correctness; paging misses nothing, confirmations are final; what deliveries record, send, mark and report agrees |
| `FollowUpProofs` | type correctness, the quota, the distance in a chain |
| `SubscriptionProofs` | type correctness, fresh failures only, no placeholder on record |
| `InstantProofs` | type correctness at both ends; outcomes, answers and reports are true |

The task service and the service worker meet only through pushes, which the
worker must take in any order, more than once, or not at all; the modules start
from that, and are not composed.  In the worker the parts meet in
`handlePushPayload`: a payload `Multipart` has restored (`HandOn`) is handled
like a push of its own, which is an arrival of `Dedupe`.  The worker's request
outbox shares nothing with either but the connection, and is checked together
with that.  The client state is a table of its own that only its handlers and
hooks touch.  The instant server and the client share the connection, which
either end or the network may drop: `InstantDelivery` is their composition.
`Subscriptions` extends `Tenants`: every request of the user goes through the
resolution of its tenant first.  `FollowUps` looks at the same rows as
`TaskService`, at what a fire may do to *other* rows, and keeps of the claim that
a row has one delivery at a time.  `Fire` opens up the one step in which
`RunTick` sends; of the claim it keeps that cron holds a row once at a time
(`RowsExclusive`) and of the row its status.  `Fire` and `OutboxPull` share the
statements of `Outbox`: the first says which batches are written and marked, the
second lets any batch be written and any part of it be marked, which covers the first
(`FireWritesAsAssumed`).

**State.**  `table[r]` is the row with id `r`.  Ids are never reused, so a row
that is gone stays behind as a tombstone the code never reads ("delivered" when
the loop deleted it, "cancelled" when the user did, "absent" before it is
created).  `encrypted_payload` is the set of updates merged into it: that is all
the properties tell apart.  `job[t][r]` is what invocation `t` holds of row `r`:
the snapshot and a program counter (`queued`, then after the claim `sending`,
`stale` or `unreadable`, then `sent`).  `beat[t][r]` is a renewal on its way.
Recurrence type and group are constants of a row; PUT cannot change them in the
model.

**Atomicity.**  One action per database statement.  What happens between two
statements of one invocation is local.  Sending is one step that succeeds or
fails: a partly sent batch of pushes is a failed delivery, as in the code.  The
payload is decrypted once, with the batch (`FetchBatch`), as the code does.

**The service worker.**  `call[d]` is the running `handlePushPayload` of one
arrival: a program counter named after the next IndexedDB request or await, and
the locals that outlive it (`existing`, `base`, `stamp`, `count`).  Every
IndexedDB request is a transaction of its own, and so an action of its own; a
transaction over several records (`deleteMultipartChunks`) is one action.
Records of different keys and ids never meet, so one key and one id are
followed.  `business[d]` is the consumer's callback, which runs beside the call
and may never settle.  A message is reduced to the number of its chunks that fit
into `maxTotalBytes` (`fits`), a notification policy to what it may decide.
`StopWorker` ends all calls at once and keeps the stores, as a browser does that
stops an idle or slow worker.  An IndexedDB request may be rejected wherever the
code handles it or lets it reject (`WriteFails`, `RequestFails`).  Background
sync is assumed to be supported.

**The client state.**  `root[k]` and `chunk[k][i]` are the rows of one namespace
and of the namespace of its slices; a row is reduced to whose value it holds
(`by`), how many slices that value has (`of`, 0 if it is not cut) and its guard
(`at`).  A batch is one transaction, so one action: all deletions, then all puts,
each under its own guard, as the statements of `upsertClientState` come.  A read
is two actions, because rows and slices are fetched by two queries, the second
only if a row says it is cut.  `Folded` is what `LIKE` sees of a key.  The
refinement mapping `Stored` is what a read would find at the moment.

**Outbox and fire.**  `outbox[id]` is the row of a message id; ids are those the
code derives from task, occurrence and index, in two families (`msg_..._<i>` and
`msg_..._hook_<i>`), so that a retry meets the rows of earlier attempts.  The
payload is reduced to the attempt that wrote it (`by`), an attempt to what it
tells the host and the table (`fate`, `sent`) and to its place in the code
(`pc`): `begin`, `round` (one LLM round with its tools), `compose` (the way
without hooks), `append`, `send`, `mark`, `settle`, `close`.  Recording a batch is
one transaction, each push a step of its own.  Recording and marking may fail
without consequence for the delivery (`AppendFails`, `MarkFails`); one that throws
after it has committed is one that succeeded, as the code ignores the answer.

**Postgres.**  `claim[t][r]` is how far an invocation has come in `GroupClaim`.
Under READ COMMITTED the `UPDATE` decides about the group in the snapshot of its
beginning and about its own row once that is locked (`PgClaimBegins`,
`PgClaimCommits`); a second query looks for a rival (`PgClaimGranted`,
`PgClaimConflicts`), and a third statement gives the lease back by id alone
(`PgClaimYields`).  Tasks without a group, and all other statements, are those of
`TaskStore`: one row, found by its key.

**Follow-ups.**  `row[u]` is the row with uuid `u`, `fire[s]` a fire with its
counter, `call[s][c]` a statement one of its hooks has under way.  The checks,
the quota and the counter of `scheduleTask` are one synchronous stretch, so one
action; its `INSERT` is another, and so are read and write of `renewTask`.
`Parent` says which task's fires ask for which follow-up, since hosts derive the
uuids from the task.

**Tenants and subscriptions.**  A key is the number of the draw; 0 is none.
`req[q]` is a request with the master key it has read before it awaits the
adapter.  `browser` is the endpoint the browser holds, 0 being the placeholder
`permanently-removed.invalid`; `row` is the endpoint and the key it was encrypted
with.  A reloaded page leaves its requests under way (`Reload`).

**The worker's connection.**  `conn[c]` is the browser's side of a handle,
`cached` the worker's, `io[e]` an event's operation with its attempt.  Death and
the `close` event that tells of it are two steps.  `addRequest` and
`deleteRequest` are answered when the request succeeds, before the transaction
commits: `WriteLost` is a death in between.

**Instant request.**  `items` is what was handed to `deliver` of the server, in
order, each streamed or not and with the state of its push; the streamed ones are
a prefix, which the client reads in order.  A body is reduced to the path, which
of `completePrompt` and `messages` it has, its session and iteration, and whether
the rest is in order.  What the client's race decides is decided in the turn of
the event loop that brings the event, so a decision is part of that action.
Its timers are punctual: the clock does not pass one that is due.

**Pure modules.**  `Recurrence`, `TaskRequests`, `Pieces`, `Decisions` and
`Notices` have no variables.  The facts about them are assumptions over bounded
inputs in the MC modules, which TLC evaluates before every run of those modules:

| Facts | In | About |
|---|---|---|
| `NextIsFirstInFuture`, `NextKeepsShownHour`, `WithoutZoneFixedPeriod` | `MCRecurrence` | Berlin and New York in spring and autumn, UTC; a week of instants: first future occurrence, shown hour kept, the fixed period `TaskStore` uses |
| `CreatedTasksDeliverable`, `PatchesKeepTasksDeliverable`, `LatestPromptUsed`, `InstantMayRecurAfterPatch`, `NormalisedOnce` | `MCFire` | all requests, patches and stored tasks: what was let in can be delivered, and the model gets the last prompt that was sent |
| `WhatIsSentIsRestored`, `TighterLimitsRefuse`, `SlicesCutBetweenCharacters`, `FourBytesNeeded`, `SentencesKeepTheText`, `BlocksStayWhole` | `MCMultipart` | all payloads of 7 bytes, texts of 4 characters of up to 4 bytes, messages of 5 symbols, sets of blocks in 4 places |
| `InstantDecisionsFitTheFire`, `AcceptedDecisionsHaveContent`, `ToolsRunForARound`, `TurnsAreAccepted`, `OmittedCallsAreNot`, `ResumedConversationsAreValid`, `BrokenAnswersCannotBeResumed` | `MCInstant` | all decisions of up to two pushes or calls, all turns of up to three calls |
| `NoticeHasWords`, `ContentIsSeen`, `EnvelopesForgetTheDirective`, `ShownAgainReplaces`, `OneKeyOnEveryRoute`, `ItsOwnWords` | `MCDedupe` | every kind of value in the fields each fact concerns |

**Time.**  `now` advances at any moment in which no step is prevented by an
assumption.  A write that throws after it has committed leaves the table of a
write that succeeded and the memory of one that failed; for the claim both cases
are there (`ClaimThrows`), for the outcome writes the committed case is a
finished delivery or, in `FinishSentThrows`, covered by the second write.
Instants are small numbers; lease, backoff and staleness keep the code's order of
magnitude relation only as far as a run needs it.  In `Recurrence` they are whole
hours, and a zone is its offset before and after one change of the clocks.

**Assumptions that are constants.**  They restrict `Advance` (or one input) and
are named where a run or a theorem needs them:

* `TimelyHeartbeats`: while an invocation is alive its renewals land before the
  lease lapses (30 s beats against 90 s leases; with heartbeats off, the ten
  minute lease outlives the delivery's timeouts) and no renewal is under way for
  longer than a lease.  Without it a stalled isolate simply loses its row, which
  the code accepts.
* `PromptCron`, `MaxSend`: used by the run `postgres` only, see below.
* `PayloadsReadable`: FALSE lets any payload fail to decrypt.

**Updates during a delivery.**  A PUT may write its row at any moment, also while an
invocation holds a snapshot of it, or while another PUT is between its read and its
write.  The history `raced` notes the updates that were written while an invocation held
the row (`Held`), and the properties that have to except what the code loses then do so
by that name (section 6).  `attempts` goes on being counted through such an update,
because the invocation goes on from its old retry counter.

## 3. Runs

All bounds are constants in the `.cfg` files: `MaxTime` stops the clock,
`MaxFaults` bounds crashes plus failing writes.  `CHECK_DEADLOCK FALSE` because a
behaviour that has used up its clock may stop.  `MaxRetries` is 1 (3 in the
code): one scheduled retry and one final failure are the two cases.

| Run | Instance | Shows |
|---|---|---|
| `delivery` | one task (one-off or recurring), two invocations, two faults, payloads that may be unreadable, an update that may reschedule it at any moment, also during a delivery; clock 0..3 with leases of 2 | the life of one row: exclusion, no ghost lease, earned give-up with a fresh budget after an update, an accepted update stays unless a delivery that held the row gives up, no failure report after a delivery, no removal without one, no unprovoked resend |
| `postgres` | two tasks of one group on Postgres, the second scheduled beside the first or in its place, the first cancelled meanwhile; two invocations, one fault, clock 0..9 | group exclusion although the claim is several statements; every task is delivered, given up on or moved on |
| `client_state` | two keys, three batches of one entry, each an overwrite, cut into 2 or 3 slices or not, or a deletion, guards 1..3 in any order; a wipe; one reader | one value per key, the newest write's (refinement of `LastWriterWins`); no torn read; the answer is true; no slices without a row |
| `fire` | two attempts at one occurrence, by cron or by the request (one retry), with hooks or without, up to two pushes, one round, a client that confirms, one fault | what is pushed is recorded first, as it was sent; marks tell what was sent; one truthful settlement per fire; the row tells the outcome; delivered twice only by overlapping attempts or after a fault |
| `outbox` | three messages, two attempts, pages of one row | paging misses nothing that was waiting; a confirmed message does not come back |
| `follow_ups` | a task, its follow-up and that one's follow-up; two fires with two calls each, quota 1, lead 1, one retry, one fault, clock 0..1 | no fire creates more than its quota; a chain runs no faster than one link per lead |
| `instant` | one request, hooks or not, SSE or JSON; two rounds, two pushes a batch, three items, timeout 2, grace 2, one unit to build the request | the outcome and its detail, the done frame and the status are true; a clean end leaves nothing in the air; a failure is reported once; every call returns and every request is answered |
| `dedupe` | three arrivals, TTL 1, clock 0..1, any notification policy, `showNotification` that may reject, callbacks that may fail or never settle, one fault | no second first delivery within a TTL; reruns only after a recorded failure; a failure survives merges; honest answers; the notification state is settled |
| `multipart` | four pushes of a message of two chunks that may be too large, TTL 1, clock 0..2, one fault | handed on once; complete when received |
| `request_queue` | two requests, two events at a time, two handles, one fault | what leaves the outbox and in which order; every request is answered; one dead connection is survived |
| `tenants` | two initialisations, two user requests at a time, three subscribe attempts, two faults, two changes (lost endpoint, reload, DELETE) | no placeholder on record; in the end the record opens with the tenant's key and names the browser's endpoint |
| `wall_clock` | a daily task at every hour, Berlin and New York in spring and autumn, UTC; five days | expected violation: an hour left out is not moved forward (section 6) |

Why the bounds are enough: two invocations are every pair of owner and rival; a
third adds another rival with the same snapshot.  Clock 3 with leases of 2 lets a
lease be granted, lapse and be taken over, a retry wait out its backoff and be
tried again, and an occurrence of period 3 come round once.  Two faults are a crash
plus a failing write, in either order.

`postgres` has two rows of one group because a group gate is about a pair, and two
invocations because so is the race of two claims.  A clock of 9 is a lease of a
claim that was cut off, the retry after it, and the second task behind the first.
The histories are left out of the fingerprint (`VIEW WithoutHistory`): no action
reads them and neither property does.  A third invocation in one minute is
`PgExtraTick`, counted with the faults: cron late, the endpoint, or a queue consumer,
which on Postgres does not know of the backoff (`PgRunTask`).

In the worker, three arrivals are a first delivery and two duplicates
that race each other, or a first delivery and two that renew its claim; four
pushes of two chunks are a whole message and a copy of each chunk.  A clock of 2
with a TTL of 1 has chunks in time, at the end of their TTL and after it, and a
clean-up of either kind of marker.  A done marker lasts two TTLs, which is the whole
clock of the run: a marker set at the start is over at its end, so `MarkerOutlives`
(`MaxTime < 2 * TTL`), which the theorems of section 4 assume, is false here, and TLC
checks the harder case.  Two handles are one that is cached and one that another call has
opened over it, or one that is dead and its successor.

Three batches are an old value, a new one and one that falls between a reader's
two queries; three guards put them in any order, and slices of 2 or 3 let a value
shrink and grow.

Two attempts are an attempt and its retry, or cron and the request at the same
time; two pushes a batch that is sent in part; pages of one row put something
between any two rows.  In `fire` the client confirms one message (`MaxConfirmed`), so that
of a batch one row is frozen and the other is not; `WhatIsRead` of `MCFire` leaves out
of the fingerprint what nobody reads any more: the round after the loop,
the plans of an attempt that has ended.  One round is a fire that finishes, skips, fails or runs out
of rounds; the number of rounds changes nothing else.

In `follow_ups` a root, a link and a link below it are enough for a renewal and a
retry to stand between two links; two calls against a quota of one are the race
the quota is about.  The theorems of `FollowUpProofs` are about any number.

In `instant` two rounds are one that continues and one that ends; two pushes a batch that
is cut off in the middle; three items a batch and the report of its failure.
Timeout 2 with grace 2 has a grace that is cut short by the timeout and one that is
not.  Oversized pushes go to the blob store in this run; the multipart way
differs by the number of pushes (`Parts`), and its chunks are those of `Pieces`.
`WhatIsRead` of `MCInstant` names what is left out of the fingerprint, and why.

In `tenants` two initialisations are the pair that race for the configuration; two
changes are an endpoint that rotates and a page that reloads while its old PUT is
under way.

**Histories and exceptions.**  The properties of `Dedupe` that a lost update can
break except it openly: `raced` is set when a write falls between somebody's read
and the write based on it (or between a claim and the settling of its
notification, which is put over whatever is there), `interrupted` by a worker
stop or a failing request.  What the code then really loses is listed in
section 6; everything else is checked without exception.

**Fairness.**  Only four runs assume any.

* `postgres` (`PgFairSpec`): weak fairness of each invocation's own steps, because
  event loops and the cron service do run; weak fairness of heartbeats; strong
  fairness of the clock, because steps that are merely possible do not hold time
  back.  Faults, the queue consumer and the user are not fair.  `PromptCron` makes
  the clock wait until due rows were fetched and tried in each unit (cron fires every
  minute), and `MaxSend` bounds a delivery (the code's LLM and push timeouts).
  Without these two a row may stay unfetched for ever, or one delivery run for ever.
  With `MaxSend` 0 a delivery ends in the unit in which it began.  The statements of
  a claim take less time than the lease they ask for (`PgAdvance`).
* `request_queue` (`FairSpec` of `RequestQueue`): a call goes on when its promise
  has settled (weak fairness of its steps), a sync that is registered is fired, and
  a request sent again and again is answered in the end (strong fairness of the
  answering case of `Fetch`): the last two are the environment's share of the
  promise, and nothing less would do.  Pages and faults are not fair, and after a
  fault `EventuallySent` asks for nothing: a stop between adding a request and
  registering the sync leaves it to the next event of the page.
* `tenants` (`FairSpec` of `Subscriptions`): the server serves and the operator
  initialises the tenant, also again after a failure (weak fairness); the user opens
  the app again, and the page registers at every start, as the client's
  documentation asks; the browser does not offer placeholders for ever, and lets one
  be given back in the end (strong fairness).  Faults and changes are bounded, not fair.
* `instant` (`Fairness` of `InstantDelivery`): the server's handler and its promises go
  on, that is the LLM call and the push service answer or fail, as their timeouts
  make them; and so do the client's own steps, its timers and the clock.  The reader
  of the stream, `onChunk`, the caller and the network are not fair: `deliver()` must
  return without them.

The type invariants of `Dedupe`, `Multipart`, `ClientState`, `OutboxPull`, `Fire`, `TaskService`,
`PostgresService`, `FollowUps` and `Subscriptions` are theorems; the other modules state theirs as
`TypeOK` and it was checked while the bounds were chosen, but no run spends a
property on it.

## 4. What is proved

For every number of rows, groups, invocations, updates and every value of the
time constants:

* `TaskServiceProofs!TypeCorrect`: `Spec => []TypeOK`.
* `TaskServiceProofs!RowsExclusive`: under `TimelyHeartbeats`, two invocations
  never deliver one row at the same time.
* `TaskServiceProofs!GroupsExclusive`: under `TimelyHeartbeats`, two pending rows of
  one group are never delivered at the same time.

`RowExclusive` is not inductive: from "at most one invocation delivers `r`" alone
nothing stops a second claim.  What stops it is `LeaseCoversDelivery` (a pending
row in delivery is leased beyond now), which in turn depends on every writer of
`lease_until`: the owner's own renewals, *late* renewals of earlier owners
(`BeatsInFuture`: the instant they carry is still ahead, so they can only extend),
releases (only by the owner, whose delivery ends in the same step), PUT and DELETE
(leave the lease alone, or remove the row from the pending state), and the clock
(`HeartbeatsKeepUp`).  `GroupExclusive` needs in addition that a delivered row
carries its group (`GroupRecorded`), or the gate of the next claim would not see
it.  `Exclusion` is the conjunction; `ExclusionInit`, `ExclusionTick`,
`ExclusionUser` and `ExclusionAdvance` show it inductive, from lemmas
that say what any step may do to a row, a job and a renewal (`RowEffect`,
`JobEffect`, `BeatEffect`, `UserEffect`, `ClaimFacts`);
`TaskServiceProofs!ExclusionInvariant` states it.

* `TaskServiceProofs!PgTypeCorrect`, `PgGroupsExclusive`, `PgRowsExclusive`: the same
  over Postgres (`PgSpec => []GroupExclusive`, `PgSpec => []RowExclusive`), under
  `TimelyHeartbeats` and, as `PgAdvance` says, statements of a claim that together
  take less time than the lease they ask for.

On Postgres two `UPDATE`s of one group may both succeed, and what excludes the group is
the second look; so `GroupExclusive` would fail if the second look could miss a delivery,
or if a lease under which a row is delivered could be given back by somebody else's
third statement.  `Exclusion` alone says nothing of a claim between its statements:
`PgExclusion` adds `ClaimsHeld`, which says that a claim under way is of a row still
waiting in its invocation's queue (`ClaimUnderWay`), and that from the `UPDATE` to the
answer of the second query the row is held as by a delivery (`LeaseWon`): leased beyond
now while it is pending, its group recorded, delivered by nobody, won by nobody else.
That is why the lease a yielding claim gives back by id alone is its own.  The steps that are not of
a claim are steps of `TickStep` (`PgTickIsTick`), so the lemmas above serve again;
`ClaimStepFrame`, `OwnClaim` and `OtherClaims` say what a statement may do to its own
claim and to those of others, `ExclusionGranted` is the step that begins a delivery.

* `TaskServiceProofs!LeasesReleased`: `Spec => []NoGhostLease`, from no assumption at
  all.  `LeasesOwned` says more than `NoGhostLease`: a lease that is not over, *or
  will be set by a renewal under way*, belongs to a delivery or to one that was cut
  short.
* `TaskServiceProofs!UpdatesInvariant` and `UpdatesStay`: `Spec => []Updates` and
  `Spec => []UpdateKept`, from no assumption at all, for any number of PUT requests and
  invocations.  `UpdateKept` is not inductive: a payload that lacks an update may be on
  its way back to the row, in a snapshot or in another PUT.  `Updates` says that
  payloads are made of accepted updates only, a PUT's own apart (`PayloadsAccepted`),
  and that an accepted update without a concurrent one is in its row and in every
  snapshot of the row, unless it raced; one that raced is in the row until the
  occurrence is given up (`UpdateHeld`).  `PayloadEffect` says what a tick may do to
  payloads.  The step that needs thought is another PUT's write: if it leaves an accepted
  update out, neither has seen the other, for what a PUT carries was accepted before it
  was read.
* `TaskServiceProofs!OutcomesInvariant`: under `TimelyHeartbeats` and `ReschedulePeriod > 0`,
  `Spec => []Outcomes`, from which follow `RetriesUsedUp` (`GiveUpEarned`),
  `NothingDropped` (`RemovedOnlyIfDelivered`), `FailureIsTrue` (`FailedNotDelivered`) and
  `SentOnce` (`NoUnprovokedResend`).  None of these is inductive: the row is written back
  by id alone from a snapshot taken before the claim, so each rests on the snapshot being
  of a row and having been due (`SnapshotsWereDue`), on the row of a delivery being
  pending or cancelled and of the same occurrence, unless an update has moved it to one
  that is not out (`ClaimsHold`, where the exclusion of rows comes in: no other
  invocation writes the row meanwhile), on every retry counter, in the row and in
  snapshots, being backed by attempts (`RetriesCounted`), and on somebody knowing of
  every send (`SendsRemembered`: the invocation about to record it, the row, or
  `faulted`).  The steps of users need `Updates` besides.
* `ReschedulePeriod > 0`: users only move tasks ahead.  PUT takes any valid instant
  (`update-message.js:63`), also that of an occurrence which is out; such a task is sent
  again, as it was asked for, and it is no second sending in the sense of the property.
  And a task moved to an instant at which an invocation has read it before can be claimed
  from that old snapshot, whose retry counter is of before the update; `GiveUpEarned`
  does not hold then.

For every number of arrivals, chunks and faults:

* `DedupeProofs!TypeCorrect`, `MultipartProofs!TypeCorrect`: `Spec => []TypeOK`.
  The first needs that a merge has a record to merge onto (`BasedOnRecord`), the
  second that a call that stores something is the head of its chain (`InTurn`).
* `DedupeProofs!FirstOnce`: `Spec => OneFirst`: a message is claimed anew only when
  the TTL of every earlier claim is over, or a race has been noted.  The invariant
  `Claims` says that, without a race, every claim whose TTL is not over is on
  record, or a younger one is (`ClaimOnRecord`), and that whoever is about to write
  still finds the claim it has read (`UpToDate`): so its write keeps the claim on
  record, and a renewal deletes nothing but an expired one.  `RecordEffect` and
  `OwnCall` say what one step may do to the record and to its own call;
  `FirstFindsNothing` that whoever becomes the first has found no record.  Neither
  conjunct of `Claims` is inductive alone.
* `DedupeProofs!RerunsAnswerFailures`: `Spec => RerunOnlyAfterFailure`.  `Known` says
  that whoever is about to run again has read a failure that the first delivery of that
  claim has reported.
* `DedupeProofs!FailuresStay`, `PendingEnds`, `AnswersBacked`: `FailureRemembered`,
  `PendingMeansUnderWay` and `AnswersHonest`, from `DedupeInv`.  Each asks what the
  record says; who writes the record has read it one step earlier.  So besides `Claims`
  the invariant says which states are left to each role (`Roles`), that claims carry
  the time they were made (`Stamped`), that a snapshot a call will merge onto is still
  what is on record, except for what others may add meanwhile (`Exact`, `Held`), and
  that a first delivery which has ended without reporting a failure has landed, or its
  TTL is over (`Accounted`, a part of `Ledger`).
* `MultipartProofs!HandedOnOnce`: under `MarkerOutlives` a payload is handed on at
  most once.  `Assembly` says that calls accept in turn, that while a marker
  stands it is later than now and nobody is past the check with chunks to
  complete, and that a restored payload is in the hands of one call only.
* `MultipartProofs!AllChunksCount`: under `MarkerOutlives` the count on record is that of
  the stored chunks, and a payload all of whose chunks were accepted in time has been
  handed on (`CompleteWhenReceived`).  Between the store of a chunk and the count the two
  differ: `Counts` says for every stage of a call what its count, the chunks and the
  record then have to do with each other, `Gathered` that the chunk of a call that is
  over is in the store until the payload is complete, `Incomplete` that a message on
  record is not, and `WithinLimit` that one over the limit is in nobody's hands.

For every number of keys, batches, guards and slices:

* `StoreProofs!TypeCorrect`: `Spec => []TypeOK`.
* `StoreProofs!StoreIsLWW`: if no two keys differ in case only (`KeysApart`),
  `Spec => ImplementsLWW`.  The invariant `Store` says that no slice is newer than
  the row of its key or left without one (`Covered`), and that a row which says it
  is cut has its own slices, all of them (`Whole`).  `Whole` alone is not
  inductive: a guard could let a row through and hold back one of its slices, if a
  newer slice were there; `Covered` excludes it.  `KeyStep` shows both for one key,
  `RefinesStep` maps the batch to `Commit`, the wipe to `Clear` and everything else
  to a stutter.
* `StoreProofs!SlicesGoWithKey`: `NothingLeftBehind`, from the same invariant.
* `StoreProofs!NeverTorn`: `Spec => []ReadWhole`, for any keys.  A row says
  whose value it holds and with which guard, and a batch is sent once (`AllSigned`):
  so two rows of one guard are of one batch, or two batches have used it, and that
  remains true of the rows a reader keeps while the store moves on.
* `StoreProofs!CallersToldTrue`: under `KeysApart`, `Spec => AnswersTrue`.  For the
  writer it follows from `Store` in the step of the batch.  For the reader it needs
  `Untouched`: the rows a read took in its first query are those of the store, except
  for the keys somebody has written meanwhile.

For every number of requests (at least one), events, handles and faults of the worker's
request outbox (`RequestQueue` over `StoreConnection`):

* `StoreProofs!QueueTyped`: `QueueSpec => []QueueTypeOK`.
* `StoreProofs!OneDeathSurvived`: `SurvivesOneDeath`.  The invariant `ConnInv` counts
  deaths where they leave a trace: a handle that is dead and still known, or an opening
  that is already the second attempt, means that one was counted.  The cached handle is
  never one that is closed and collected, so the second attempt of an operation meets a
  dead handle only after a second death.
* `StoreProofs!RemovalsAreSettled`: `RemovedOnlySettled`, because whoever removes a
  request has had a final answer for the head of its list (`HeadsSettled`).
* `StoreProofs!OlderOnesFirst`: `ProcessedInOrder`.  `OlderFirst` says of every request
  in the list of a flush, that what stands before it in the outbox and was created
  earlier is settled, or stands before it in the same list.  Additions preserve it
  because what an event is about to add is in no list yet, and added by one event only
  (`AddedByOne`); listing does because a request is handed over once (`AllHandedOver`).

For every number of messages, attempts and rows per page:

* `OutboxProofs!PullTypeCorrect`: `PullSpec => []PullTypeOK`.  That the numbers
  of the rows stay in range needs `Numbered`: `seq` counts the rows, and no two rows
  share a number.
* `OutboxProofs!NothingMissed`: `PullSpec => []PullComplete`.  The invariant
  `StillAhead` says that what is owed and neither got nor confirmed lies beyond the
  cursor.  The step of a page rests on `FirstOnes`, a fact about any finite set of
  numbered elements: if some element is not among the first n, then the first are
  n exactly, and all before it.  So a page that leaves something out is full,
  `hasMore` is true, and the cursor stops short of what was left out.
* `OutboxProofs!ConfirmedForGood`: `AckIsFinal`, from what a statement leaves of a
  row (`Kept`).

For every number of attempts, pushes, rounds, retries, confirmations and faults of the
deliveries of one occurrence (`Fire`):

* `OutboxProofs!TypeCorrect`: `Spec => []TypeOK`.
* `PushesRecorded`, `MarksAreTrue`, `HostToldOnce`, `RowSaysHowItEnded` and
  `TwiceOnlyByOverlap`: `RecordedAsSent`, `MarksTruthful`, `SettledOnce`, `RowTruthful`
  and `TwiceOnlyIfOverlapped`, all from the invariant `Delivering`.  Its parts:
  `Sounds`, what the stage of an attempt says about its record (`Staged`), and that the
  host was told the truth (`ToldTruly`); `Lives`, that attempts start in turn, that
  without an overlap each has ended before the next starts, and that without a fault
  only the last one can have delivered; `Books`, that an attempt has sent the first
  pushes of its batch (`Counted`), and that what it has sent *or is about to send* is
  on record (`OnRecord`: the property alone is not inductive, a push is recorded before
  it is sent).  A mark is earned when it is set because the row is then the marker's
  own, or an attempt that started later has written it, which without an overlap is
  impossible while the marker lives (`Authors`, `Alone`).
* `OutboxProofs!FireWritesAsAssumed`: each step of `Spec` is, on the table, a
  `RecordOrMark`, a `Confirm` or nothing.  So `Fire` implements the writers that
  `OutboxPull` assumes, and what is proved about paging holds beside it.

For every number of tasks, fires, calls and retries:

* `FollowUpProofs!TypeCorrect`: `Spec => []TypeOK`.
* `FollowUpProofs!ChainsAreSlow`: `Spec => []ChainIsSlow`.  `ChainIsSlow` alone is not
  inductive: a fire may ask for a link only because its own row was due, and calls
  under way carry moments that were chosen earlier.  `Slow` adds that a row that ever
  was has had its lead (`Grown`), that a fire runs no earlier than its place in the
  chain (`FiresDue`), and that a statement under way carries such a moment (`CallsDue`).
* `FollowUpProofs!QuotaIsKept`: `Spec => []QuotaHolds`.  The invariant `Budget` counts:
  what a fire has made and what it has under way are together no more than its
  counter, and that no more than the quota.  `CountInserts` is the fact about the
  cardinality of the calls under way that it rests on.

For every number of requests, attempts, changes and faults:

* `SubscriptionProofs!TypeCorrect`: `Spec => []TypeOK`; that what is served has a body
  (`BodyThere`) makes it inductive.
* `SubscriptionProofs!FailuresFresh`: `Spec => []FailsOnlyByFault`: a request fails for
  want of the database only if something has failed since it arrived.  It needs that a
  rejected promise is never what is cached (`NotCached`).
* `SubscriptionProofs!NoZombieOnRecord`: `Spec => []NoZombie`, because no request under
  way, of this page or of an earlier one, carries a placeholder (`BodyUsable`).

For every number of rounds, of pushes and of parts, every timeout, grace and bound on
building, and every set of wraps:

* `InstantProofs!TypeCorrect`: `Spec => []TypeOK`.  A push under way has messages left
  to send (`LeftCovers`), or its count would fall below zero; a call that is being built
  has not waited longer than building may take.
* `OutcomesMeanWhatTheySay`, `AnswersAreTrue`, `CleanEndsAreHandled` and
  `FailuresReportedOnce`: `OutcomeTrue`, `AnswerTrue`, `CleanMeansHandled` and
  `ReportedOnce`, from the invariant `IInv`.  Its server part, `ServerInv`, is kept by
  the server alone: the client changes nothing of it but the connection
  (`ServerUnderClient`).  It says which stage goes with which error and status
  (`Stages`, `Errors`), that a stream which is usable, or was when the done frame was
  written, has everything in it (`Streams`), that only the last item can be one the
  handler still waits for (`Awaits`), that a run which answers with JSON has had every
  content push but the last accepted (`Contents`), and that a report is the last item
  (`Reporting`).  What a step does to the items is said once, for the steps that add one
  (`HandToDeliverAppends`) and for those of a push (`PushingPushes`).
  The client part, `ClientInv`, says what each wait of `deliver()` implies for its
  timer, signal and detail (`Calls`; a grace never ends later than the whole call may,
  `GraceBounded`), that a clean end was the done frame or waited for the server
  (`Clean`), and that a chunk handler runs only for an open stream (`Handling`);
  `WaitEnds` is the one lemma behind every way in which a call returns.

Only model-checked: the facts about the pure modules.
`EventuallySettled`, `EventuallySent`, `EventuallyReached` and `Resolves` are liveness
under fairness, which is outside what the prover handles.

## 5. What is not modelled, and why

* `cleanupOldTasks` (rows finished a week ago), `listTasks`, status lookups: far
  beyond the clock of a run, or read-only.
* The fallbacks of claims and of retries for adapters that lack the methods: no adapter
  in the repository lacks them.  `createTaskSuperseding` is missing in `pg.js` and
  `neon.js`: there `schedule-message.js:203-207` deletes the old task and then creates the
  new one, which is `Cancel` followed by `Schedule` in the model, whether the second step
  comes or not; that one request does both is not kept.
  `PostgresService` has the one-step `Supersede` beside them, as it has all statements
  of `TaskHandlers`; the states it reaches are reached by the two steps as well.
* A throwing `serializeBy`: the row is skipped, as if it had not been fetched.
* PUT that changes `recurrenceType` of a row in `TaskService`; `TaskRequests` has it as
  a patch of the content.
* The limit of a batch of due rows as a hazard of its own: rows of one long group can
  fill the window and keep others waiting (`run-tick.js:138`).  `FetchLimit` is a
  constant of `RunTick`; the runs have it as large as the rows.
* What is sent (LLM, hooks, pushes) is one step in the task service; `Fire` looks
  inside for one occurrence.
* `Fire`: `onAfterSend`, ids the host chooses for its messages, the reasoning push
  (one more push of the batch), the next occurrence.  `FollowUps`: the merge of the
  payload by `renewTask`.
* Recurrence: the list of skipped occurrences; the fallback after `MAX_ADJUST_STEPS`,
  which nothing reaches; changes of less than an hour, two changes in one week.
* Outbox: the removal of rows confirmed a week ago or recorded four weeks ago; rows
  of other users; a payload that does not decrypt (its row is passed over).
* Service worker: icons, sounds and data of a notification, the in-memory stores used
  where IndexedDB is missing, upgrades of the database, dedupe switched off or without
  a key, a chunk whose total contradicts its message.
* Client state: the checks of single entries; two entries for one key in one batch
  (the first is put and replaced by the second); a database binding without
  `batch`, where every statement commits by itself; values over the total limit.
* Instant server: keepalive comments, the wording of errors, the endpoint that serves
  a blob, the adapters that only hand a request in, tokens.
* Client: the one-call wrappers of the server's endpoints, which keep no state; a
  detail object the host has frozen or shares between calls (`client/src/index.js:789`).
* Shared: how reasoning is found in a response; Web Push encryption, which is
  arithmetic on bytes.
* Tenants: tokens and their times, several tenants and databases, the single-user
  hosts, whose configuration is an environment variable; of encryption, which key
  opens what is all that is kept.
* A worker that is stopped between a claim and the business callback
  (`sw/src/index.js:628`) leaves a record that says pending; `Dedupe` has the step, and
  excepts what follows as `interrupted`.
* The examples: samples of an older generation of the server.

## 6. Findings

One has a run whose property quotes what the repository says:

* `wall_clock` (`recurrence.js:107`): an hour that the change of the clocks leaves out is
  answered with the first guess, which east of UTC lies *before* the change.  A daily
  task at 02:30 in Berlin comes at 01:30 on that day, though the comment says that
  time only goes forward, and then at 01:30 every day after.  `NextKeepsShownHour` holds
  all the same, because it asks about days that have the hour; `GapGoesForward` does not.

The models show others, which the properties except by name, or whose property
stays in its module without a run.

*Task service*

* The hour that a change of the clocks moves stays moved, in every zone: the next
  occurrence is counted from the last one, not from the hour the user set
  (`recurrence.js:4-7`; `HourKept` of `WallClock` does not hold).
* The failure write of a delivery in flight is computed from its snapshot and
  addressed by id (`run-tick.js:452`): an update that landed meanwhile, and was
  answered with 200, loses its reset of the retry budget ("an update is a fresh start",
  `update-message.js:203-205`).  `GiveUpEarned` therefore goes on counting the attempts
  through an update that is written while an invocation holds the row.
* The final failure write also takes back the *content* of such an update, and may
  overwrite the new schedule it brought (`run-tick.js:433`).  `UpdateKept` has the case as
  `e \in raced /\ GivenUp(...)`, and says that nothing else loses an update: without that
  disjunct the run `delivery` violates it.
* The deletion of a delivered one-off row drops the new schedule of an update that came
  during the delivery (`run-tick.js:668`): `RemovedOnlyIfDelivered` has the case as
  `Raced(r)`.
* The claim compares `next_send_at` and not the payload (`d1.js:302`): an update of the
  content alone that lands between the fetch and the claim is not in what is sent, though
  it stays in the row of a recurring task.
* Of two PUT requests on one row the later write drops the earlier merge
  (`update-message.js:214`): `UpdateKept` has the case as `Concurrent(e, f)`.  The run has
  one PUT; the theorem `UpdatesStay` is about any number.  `renewTask` merges the
  same way, and drops a PUT that lands between its read and its write.
* On Postgres `getTaskByUuidOnly` does not return `retry_after` (`pg.js:124-133`,
  `neon.js:120-130`): `runTask` delivers a task inside its backoff, contrary to
  `run-tick.js:160-163`, and the staleness guard takes its retry for one still waiting
  (`PgRunTask`).
* The claim compares `next_send_at` and `lease_until` but not `retry_after`
  (`d1.js:302`): an invocation with an older snapshot runs a row inside the backoff
  window a first one has just set.
* Cancelling or superseding a task that is being delivered frees its group at once
  (`d1.js:310`): the next task of the group is delivered at the same time.
  `GroupExclusive` excepts deliveries whose row is gone.
* A recurring task whose payload cannot be decrypted ends up `failed`, because its
  recurrence type is inside the payload (`run-tick.js:562`).
* On Postgres the lease is given back by id alone, whatever has become of the row
  (`pg-shared.js`); and two claims whose statements span minutes can make way for each
  other again and again: `PgAdvance` assumes they do not.
* PUT may make a task of type instant recur, although POST forbids it
  (`validation.js:262-265`; `InstantMayRecurAfterPatch`).

*Fires*

* A request that delivers an instant message and a cron tick that takes its row at
  the same time both send it (`message-processor.js:316` reads without a claim).
  `TwiceOnlyIfOverlapped` excepts this.  If cron is done first the request answers
  `TASK_NOT_FOUND` with status 500 although the message was delivered.
* Overlapping attempts also rewrite each other's rows in the outbox, so a mark may be
  about the other's text (`RecordedAsSent` and `MarksTruthful` except it).
* The text of a message the client has confirmed stays in the outbox while a retry
  pushes another text under the same id (`d1.js:570`); a retry with fewer messages
  leaves the surplus of the first attempt to be pulled, and `total_messages` of a
  rewritten row keeps the count of the first attempt (`d1.js:566`).
* A message that is recorded again keeps its number (`d1.js:566`): a client that goes on
  from a cursor it kept from an earlier paging does not see the new text.
* A fire that scheduled a follow-up under a deterministic uuid, failed, and is retried
  after the follow-up was delivered or cancelled, schedules it a second time: the row
  whose uuid would collide is gone.  `agentic-fire.js:471` calls this idempotent.
  `ScheduledOnce` of `FollowUps` does not hold.
* `renewed: true` and `cancelled: true` are answered also for a row that is being
  delivered; the tick then deletes it, or delivers it all the same.
* Calls of the model that a classifier leaves out of its decision stay unanswered in the
  conversation of the next round (`agentic-fire.js:809-814`; `OmittedCallsAreNot`).

*Service worker*

* A stop between storing a chunk and counting it leaves a message that never completes,
  however often its chunks are pushed (`sw/src/index.js:1010`; `sw/README.md:247`).
  `CompleteDespiteRestart` of `Multipart` does not hold; `CompleteWhenReceived` excepts it.
* Two duplicates may both see a recorded failure and both run the callback, which
  may succeed twice (`sw/src/index.js:748`), or both show the missing notification
  (`:806`).
* An expired record is deleted without looking again (`:634`): of two arrivals that
  renew it at the same time both become the first.  `OneFirst` excepts the race.
* A duplicate's merge reads, the first delivery reports its failure, the merge
  writes: the failure is gone, though the merge exists to keep it (`:812`).
  `FailureRemembered` and `AnswersHonest` except the race.
* The notification state of a first delivery is put without asking whether the
  record is still that of its claim (`:648`): a delivery slower than the TTL replaces
  a renewed claim.
* A copy of a chunk that arrives after the TTL reports a message as expired that was
  complete in time (`:955`).
* A request that is added to, or removed from, the outbox is answered before its
  transaction commits (`:1742`): a connection that dies in between loses it
  (`WriteLost`).
* An oversized push becomes an envelope that leaves out the notification directive of
  its producer (`instant/src/message-processor.js:676-692`): a silent push is shown,
  one that was always to be shown is not (`EnvelopesForgetTheDirective`).
* A blank `notification.body` hides the message behind the default text
  (`:497-530`; `ItsOwnWords`).
* A host's own `dedupe.key` over fields that an envelope leaves out gives one message
  two keys; `OneKeyOnEveryRoute` is about the default key.

*Client state*

* `LIKE` does not distinguish ASCII letters by case (`d1.js:437`), so a write of the key
  `Note` deletes the slices of `note`, whose value then reads as absent.
  `client_state.cfg` with `Folded <- CaseOnly` violates `SlicesKept`.
* Two writes of one key with the same guard (a version used again, or two hooks in
  one millisecond) can be read as one: the row of the first and the slices of the
  second match (`state-chunks.js:122`), so that the reader gets half a value or a
  mixture, which `state-accessors.js:77` excludes.  `ReadWhole` excepts this.
* A deletion leaves nothing that an older write could be compared with
  (`client-state-store.js:87`): an older write that arrives later brings the key back.
  `LastWriterWins` says so too.

*Instant request* (lines of `client/src/index.js` unless named)

* Over SSE a payload that cannot be serialised is caught where it is streamed and the
  run goes on to succeed, although `message-processor.js:613-616` speaks of a hook error.
* A cancel that comes during the late grace (946-949) returns `cancelled` at once,
  without the grace the typedef grants it (126-127).
* The timer of `deliver` runs `timeoutMs` from the moment the request was built, while
  `remainingBudget` counts from before ("Total budget", 175): `OutcomeTrue` allows
  `MaxBuild` more.
* After a hook error the stream closes without a done or error frame, so a
  transport-only `deliver` reports `completed-unconfirmed`.
* The message that stands for a broken response, which a loop sends on unchecked, is
  refused of a client that resumes with it (`BrokenAnswersCannotBeResumed`).
* A later split pattern may drop a mark that an earlier cut has put at a piece's head
  (`server/lib/message-processor.js:47-59`; `SentencesKeepTheText`).

*Tenants and subscriptions*

* Two initialisations of one tenant both pass the check, and the later one replaces the
  master key (`context.js:84`, `init-tenant.js:125`).  The page registers again under
  the new key; everything else stored under the first is lost.
* A PUT that is delayed past a DELETE brings the subscription back, and one delayed past
  a newer PUT replaces it, until the page registers again.

## 7. Plan

Built: every component of section 1 that has interleaving, failure or time in it, and
the pure parts they rely on.  Left, in this order:

1. **Abstract specification** (`ExclusiveRuns`): who holds which row and group, that the
   two claims both implement it, and the step simulation proved.
2. The fetch limit: one long group filling the window, as a liveness run.
3. Reasoning extraction in `shared`; the pages of the message list; the upgrade of the
   worker's database.
