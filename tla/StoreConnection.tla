-------------------------- MODULE StoreConnection --------------------------
(***************************************************************************)
(* The IndexedDB connection of the service worker (withConnectionRetry and *)
(* openQueueDatabase of sw/src/index.js): one cached handle for all events *)
(* of the worker.  The browser may close it at any time; the close event   *)
(* comes later than the next call, and calls that find no handle open one  *)
(* each.  Microtasks run to the end before the next task: an attempt that  *)
(* fails at once and the next one are a single step.                       *)
(***************************************************************************)
EXTENDS Integers, FiniteSets

CONSTANTS
    Event,       \* events of the worker; each has one operation at a time
    Handles,     \* bound: handles in use at the same time
    NoHandle,    \* no connection is cached, or used
    MaxFaults    \* bound: deaths and version changes of handles, worker stops

ASSUME ConnectionConstants == Handles \in Nat /\ NoHandle \notin Nat /\ MaxFaults \in Nat

Conn == 1..Handles

VARIABLES
    conn,        \* conn[c]: the browser's side of handle c
    cached,      \* cachedDB
    io,          \* io[e]: the operation event e has under way
    deaths,      \* history: failures of connections since the worker started
    faults

connVars == <<conn, cached, io, deaths, faults>>

Operation == [at      : {"none", "opening", "running", "rejected"},
              attempt : {0, 1},
              db      : Conn \cup {NoHandle},
              aborted : BOOLEAN]    \* its transaction was under way
OperationAt(at, n, c) == [at |-> at, attempt |-> n, db |-> c, aborted |-> FALSE]
NoOperation == OperationAt("none", 0, NoHandle)
Failed(aborted) == [OperationAt("rejected", 0, NoHandle) EXCEPT !.aborted = aborted]

ConnTypeOK ==
    /\ conn \in [Conn -> {"unused", "open", "dead"}]
    /\ cached \in Conn \cup {NoHandle}
    /\ io \in [Event -> Operation]
    /\ deaths \in 0..MaxFaults
    /\ faults \in 0..MaxFaults

ConnInit ==
    /\ conn = [c \in Conn |-> "unused"]
    /\ cached = NoHandle
    /\ io = [e \in Event |-> NoOperation]
    /\ deaths = 0 /\ faults = 0

Fault == faults < MaxFaults /\ faults' = faults + 1
Death == Fault /\ deaths' = deaths + 1

Doing(e, at) == io[e].at = at
Uses(e, c) == Doing(e, "running") /\ io[e].db = c

(* An open handle that is not cached ends its transactions; nobody can     *)
(* reach it any more, and it is collected.                                 *)
Collected(handles) ==
    [c \in Conn |-> IF /\ handles[c] = "open" /\ cached' # c
                       /\ \A e \in Event : ~Uses(e, c)'
                    THEN "unused" ELSE handles[c]]

Without(c) == IF cached = c THEN NoHandle ELSE cached

-----------------------------------------------------------------------------
Opens(e, n) == io' = [io EXCEPT ![e] = OperationAt("opening", n, NoHandle)]
Runs(e, c) == io' = [io EXCEPT ![e] = OperationAt("running", 0, c)]
Rejects(e) == io' = [io EXCEPT ![e] = Failed(FALSE)]

(* A slip: the handle that has failed stays in the cache.                  *)
StillCached(c) == c

Invalidated(c) == NoHandle

(* An attempt: open() answers with the cached handle if there is one, and  *)
(* transaction() throws on a handle that is closed.                        *)
Attempt(e, n) ==
    \/ /\ cached = NoHandle
       /\ Opens(e, n) /\ UNCHANGED cached
    \/ /\ cached # NoHandle /\ conn[cached] = "open"
       /\ Runs(e, cached) /\ UNCHANGED cached
    \/ /\ cached # NoHandle /\ conn[cached] # "open" /\ n = 0
       /\ cached' = Invalidated(cached)
       /\ IF cached' = NoHandle THEN Opens(e, 1) ELSE Rejects(e)
    \/ /\ cached # NoHandle /\ conn[cached] # "open" /\ n = 1
       /\ Rejects(e) /\ UNCHANGED cached

Connect(e) == Attempt(e, 0) /\ UNCHANGED <<conn, deaths, faults>>

(* request.onsuccess: the handle is cached, also over one that another     *)
(* call has opened meanwhile, which stays open.                            *)
OpenSucceeds(e) ==
    /\ Doing(e, "opening")
    /\ \E c \in Conn :
          /\ conn[c] = "unused" /\ \A b \in 1..(c - 1) : conn[b] # "unused"
          /\ cached' = c
          /\ Runs(e, c)
          /\ conn' = Collected([conn EXCEPT ![c] = "open"])
    /\ UNCHANGED <<deaths, faults>>

OpenFails(e) ==
    /\ Doing(e, "opening")
    /\ Death
    /\ IF io[e].attempt = 0 THEN Attempt(e, 1)
       ELSE Rejects(e) /\ UNCHANGED cached
    /\ UNCHANGED conn

Completed(e) ==
    /\ Doing(e, "running")
    /\ io' = [io EXCEPT ![e] = NoOperation]
    /\ UNCHANGED cached
    /\ conn' = Collected(conn)
    /\ UNCHANGED <<deaths, faults>>

-----------------------------------------------------------------------------
(* The browser                                                             *)

(* Transactions under way on the handle are aborted, which is no closing   *)
(* error and not retried; that of "answered" has been answered before.     *)
Aborted(c, answered) ==
    [e \in Event |->
        IF ~Uses(e, c) THEN io[e]
        ELSE IF e \in answered THEN NoOperation
        ELSE Failed(TRUE)]

Dead(c, answered) ==
    /\ conn[c] = "open"
    /\ Death
    /\ conn' = [conn EXCEPT ![c] = "dead"]
    /\ io' = Aborted(c, answered)
    /\ UNCHANGED cached

(* The backing store fails, or the data of the site is cleared.            *)
ForceClose(c) == Dead(c, {})

(* The same between the answer to e and the commit of its transaction.     *)
Dies(e) == Doing(e, "running") /\ Dead(io[e].db, {e})

(* onclose, which may come after the handle has been replaced.             *)
CloseEvent(c) ==
    /\ conn[c] = "dead"
    /\ cached' = Without(c)
    /\ UNCHANGED <<io, deaths, faults>>
    /\ conn' = Collected([conn EXCEPT ![c] = "unused"])

(* onversionchange: another version of the database is asked for; the      *)
(* handle closes when its transactions are done.                           *)
VersionChange(c) ==
    /\ cached = c /\ conn[c] = "open"
    /\ Fault
    /\ cached' = Without(c)
    /\ UNCHANGED <<io, deaths>>
    /\ conn' = Collected(conn)

(* The worker stops, and its handles with it.                              *)
ConnectionsGone ==
    /\ conn' = [c \in Conn |-> "unused"]
    /\ cached' = NoHandle
    /\ io' = [e \in Event |-> NoOperation]
    /\ deaths' = 0

ConnNext ==
    \/ \E e \in Event : OpenFails(e)
    \/ \E c \in Conn : ForceClose(c) \/ CloseEvent(c) \/ VersionChange(c)

-----------------------------------------------------------------------------
(* One closed connection does not fail an operation that had no            *)
(* transaction on it: the retry finds a new handle.                        *)
SurvivesOneDeath ==
    \A e \in Event : Doing(e, "rejected") /\ ~io[e].aborted => deaths >= 2
=============================================================================
