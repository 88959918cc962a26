------------------------------ MODULE Tenants -------------------------------
(***************************************************************************)
(* The tenant of a request (server/tenant/context.js): the configuration   *)
(* in the blob store, with the master key, and the database adapter that   *)
(* one process opens once and shares between its requests.  One tenant id  *)
(* and one database; requests overlap at every await.                      *)
(***************************************************************************)
EXTENDS Integers

CONSTANTS
    InitRequest,   \* POST /init-tenant
    UserRequest,   \* requests with the token of the tenant
    MaxFaults      \* bound: failures of the database, restarts of the process

ASSUME TenantConstants ==
    /\ InitRequest \cap UserRequest = {}
    /\ MaxFaults \in Nat

VARIABLES
    config,        \* the master key in the blob store; 0: no configuration
    lastKey,       \* keys drawn so far
    adapter,       \* adapterCache: the promise of the adapter
    req,           \* req[q]: how far request q has come
    faults

tenantVars == <<config, lastKey, adapter, req, faults>>

Request == InitRequest \cup UserRequest
Key == Nat          \* master keys as they are drawn; 0: none

Progress == [pc    : {"idle", "connecting", "connected", "failed", "refused", "done"},
             key   : Key,             \* master key as it was read
             since : 0..MaxFaults]    \* history: faults when it arrived
Idle == [pc |-> "idle", key |-> 0, since |-> 0]

TenantsTypeOK ==
    /\ config \in Key
    /\ lastKey \in Key
    /\ adapter \in {"none", "pending", "ready", "rejected"}
    /\ req \in [Request -> Progress]
    /\ faults \in 0..MaxFaults

TenantsInit ==
    /\ config = 0 /\ lastKey = 0 /\ adapter = "none" /\ faults = 0
    /\ req = [q \in Request |-> Idle]

Fault == faults < MaxFaults /\ faults' = faults + 1
At(q, pc) == req[q].pc = pc
Answer(q, pc) == req' = [req EXCEPT ![q].pc = pc]

-----------------------------------------------------------------------------
(* getOrCreateAdapter: the first request asks for the adapter, the others  *)
(* wait for the same promise.                                              *)
GetOrCreateAdapter(q, key) ==
    /\ adapter' = IF adapter = "none" THEN "pending" ELSE adapter
    /\ req' = [req EXCEPT ![q] =
                 [key |-> key, since |-> faults,
                  pc |-> CASE adapter = "ready" -> "connected"
                           [] adapter = "rejected" -> "failed"
                           [] OTHER -> "connecting"]]

Connecting == {q \in Request : At(q, "connecting")}
Waiters(pc) == req' = [q \in Request |-> IF q \in Connecting
                                         THEN [req[q] EXCEPT !.pc = pc] ELSE req[q]]

(* The adapter is there and initSchema has run.                            *)
AdapterReady ==
    /\ adapter = "pending"
    /\ adapter' = "ready"
    /\ Waiters("connected")
    /\ UNCHANGED <<config, lastKey, faults>>

(* A slip: the rejected promise stays in the cache.                        *)
KeepRejected == adapter' = "rejected"

ForgetRejected == adapter' = "none"

(* Connecting or initSchema fails: the cache is cleared, everybody who     *)
(* waited is told.                                                         *)
AdapterFails ==
    /\ adapter = "pending"
    /\ Fault
    /\ ForgetRejected
    /\ Waiters("failed")
    /\ UNCHANGED <<config, lastKey>>

(* The process is replaced, its requests are lost.                         *)
RestartProcess ==
    /\ Fault
    /\ adapter' = "none"
    /\ req' = [q \in Request |-> IF req[q].pc \in {"connecting", "connected"}
                                 THEN [req[q] EXCEPT !.pc = "failed"] ELSE req[q]]
    /\ UNCHANGED <<config, lastKey>>

-----------------------------------------------------------------------------
(* initializeTenant: 409 if there is a configuration.  The operator sends   *)
(* again what has failed.                                                  *)
InitializeTenant(q) ==
    /\ q \in InitRequest /\ req[q].pc \in {"idle", "failed"}
    /\ IF config # 0 THEN Answer(q, "refused") /\ UNCHANGED adapter
       ELSE GetOrCreateAdapter(q, 0)
    /\ UNCHANGED <<config, lastKey, faults>>

(* initSchema once more, then a new key is written over what is there.     *)
SetTenantConfig(q) ==
    /\ q \in InitRequest /\ At(q, "connected")
    /\ lastKey' = lastKey + 1
    /\ config' = lastKey'
    /\ Answer(q, "done")
    /\ UNCHANGED <<adapter, faults>>

InitSchemaFails(q) ==
    /\ q \in InitRequest /\ At(q, "connected")
    /\ Fault
    /\ Answer(q, "failed")
    /\ UNCHANGED <<config, lastKey, adapter>>

(* resolveTenant: 401 without a configuration; the key is read before the  *)
(* adapter is awaited.                                                     *)
ResolveTenant(q) ==
    /\ q \in UserRequest
    /\ IF config = 0 THEN Answer(q, "refused") /\ UNCHANGED adapter
       ELSE GetOrCreateAdapter(q, config)
    /\ UNCHANGED <<config, lastKey, faults>>

TenantsProgress ==
    \/ AdapterReady
    \/ \E q \in InitRequest : InitializeTenant(q) \/ SetTenantConfig(q)

TenantsNext ==
    \/ TenantsProgress \/ AdapterFails \/ RestartProcess
    \/ \E q \in InitRequest : InitSchemaFails(q)

-----------------------------------------------------------------------------
(* A request fails for want of the database only if something has failed   *)
(* since it arrived: nobody is handed the failure of an earlier request.   *)
FailsOnlyByFault ==
    \A q \in Request : At(q, "failed") => faults > req[q].since
=============================================================================
