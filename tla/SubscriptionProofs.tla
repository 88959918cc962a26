------------------------- MODULE SubscriptionProofs -------------------------
(***************************************************************************)
(* Proofs about Subscriptions, for any number of requests, attempts and    *)
(* faults: the state is well typed, nobody is handed the failure of an     *)
(* earlier request, and no placeholder is put on record.                   *)
(***************************************************************************)
EXTENDS Subscriptions, TLAPS

(* What keeps the failures honest: a rejected adapter is never cached.     *)
NotCached == adapter # "rejected"
SinceBefore == \A q \in Request : req[q].since <= faults

(* Who has no body has no request under way; what is put is usable.        *)
BodyThere == \A q \in UserRequest : body[q] = NULL => At(q, "idle")
BodyUsable == \A q \in UserRequest :
                 body[q] # NULL /\ body[q].op = "put" => body[q].endpoint # Zombie

TypeInv == TypeOK /\ BodyThere
FaultInv == NotCached /\ SinceBefore /\ FailsOnlyByFault
ZombieInv == BodyUsable /\ NoZombie

-----------------------------------------------------------------------------
(* Type correctness                                                        *)

LEMMA FaultsInBounds == \A n \in 0..MaxFaults : n < MaxFaults => n + 1 \in 0..MaxFaults
BY TenantConstants DEF TenantConstants

LEMMA TypeInit == Init => TypeInv
<1> SUFFICES ASSUME Init PROVE TypeInv
    OBVIOUS
<1>1. Idle \in Progress
    BY TenantConstants DEF Idle, Progress, Key
<1>2. TenantsTypeOK
    BY <1>1, TenantConstants DEF Init, TenantsInit, TenantsTypeOK, Key
<1>3. app \in App
    BY SubscriptionConstants DEF Init, Closed, App, Key
<1>4. TypeOK
    BY <1>2, <1>3, SubscriptionConstants DEF Init, TypeOK, Endpoint
<1>5. BodyThere
    BY DEF Init, TenantsInit, BodyThere, At, Idle, Request
<1> QED BY <1>4, <1>5 DEF TypeInv

(* Answering a request, and asking for the adapter, keep its progress      *)
(* typed.                                                                  *)
LEMMA AnswerTyped ==
    ASSUME TenantsTypeOK, NEW q \in Request,
           NEW pc \in {"idle", "connecting", "connected", "failed", "refused", "done"},
           Answer(q, pc)
    PROVE  req' \in [Request -> Progress]
<1>1. [req[q] EXCEPT !.pc = pc] \in Progress
    BY DEF TenantsTypeOK, Progress
<1> QED BY <1>1 DEF TenantsTypeOK, Answer

LEMMA GetOrCreateAdapterTyped ==
    ASSUME TenantsTypeOK, NEW q \in Request, NEW key \in Key, GetOrCreateAdapter(q, key)
    PROVE  /\ adapter' \in {"none", "pending", "ready"} \cup {adapter}
           /\ req' \in [Request -> Progress]
           /\ req'[q] \in Progress /\ req'[q].key = key
           /\ \A p \in Request \ {q} : req'[p] = req[p]
<1> DEFINE pc == CASE adapter = "ready" -> "connected"
                   [] adapter = "rejected" -> "failed"
                   [] OTHER -> "connecting"
           new == [key |-> key, since |-> faults, pc |-> pc]
<1>1. pc \in {"connected", "failed", "connecting"}
    OBVIOUS
<1> HIDE DEF pc
<1>2. new \in Progress
    BY <1>1 DEF TenantsTypeOK, Progress
<1>3. req' = [req EXCEPT ![q] = new]
    BY DEF GetOrCreateAdapter, pc
<1>4. req' \in [Request -> Progress] /\ req'[q] = new /\ \A p \in Request \ {q} : req'[p] = req[p]
    BY <1>2, <1>3 DEF TenantsTypeOK
<1> QED BY <1>2, <1>4 DEF GetOrCreateAdapter, TenantsTypeOK

LEMMA WaitersTyped ==
    ASSUME TenantsTypeOK, NEW pc \in {"connected", "failed"}, Waiters(pc)
    PROVE  req' \in [Request -> Progress]
<1>1. \A q \in Request : [req[q] EXCEPT !.pc = pc] \in Progress
    BY DEF TenantsTypeOK, Progress
<1> QED BY <1>1 DEF TenantsTypeOK, Waiters

LEMMA ResolveTenantTyped ==
    ASSUME TenantsTypeOK, NEW q \in UserRequest, ResolveTenant(q)
    PROVE  TenantsTypeOK' /\ \A p \in UserRequest \ {q} : req'[p] = req[p]
<1>0. q \in Request
    BY DEF Request
<1>1. CASE config = 0
  <2>1. Answer(q, "refused")
      BY <1>1 DEF ResolveTenant
  <2>2. req' \in [Request -> Progress]
      BY <1>0, <2>1, AnswerTyped
  <2>3. \A p \in UserRequest \ {q} : req'[p] = req[p]
      BY <2>1 DEF Answer, TenantsTypeOK, Request
  <2> QED BY <1>1, <2>2, <2>3 DEF ResolveTenant, TenantsTypeOK
<1>2. CASE config # 0
  <2>1. GetOrCreateAdapter(q, config) /\ config \in Key
      BY <1>2 DEF ResolveTenant, TenantsTypeOK
  <2>2. /\ adapter' \in {"none", "pending", "ready"} \cup {adapter}
        /\ req' \in [Request -> Progress]
        /\ \A p \in Request \ {q} : req'[p] = req[p]
      BY <1>0, <2>1, GetOrCreateAdapterTyped
  <2> QED BY <2>2 DEF ResolveTenant, TenantsTypeOK, Request
<1> QED BY <1>1, <1>2

(* The steps of the tenants keep their types, and start nothing for a      *)
(* request of a user that is idle.                                         *)
LEMMA TenantsStepTyped ==
    ASSUME TenantsTypeOK, TenantsNext
    PROVE  /\ TenantsTypeOK'
           /\ \A q \in UserRequest : At(q, "idle") => At(q, "idle")'
<1>1. CASE AdapterReady
  <2>1. req' \in [Request -> Progress]
      BY <1>1, WaitersTyped DEF AdapterReady
  <2>2. \A q \in UserRequest : At(q, "idle") => req'[q] = req[q]
      BY <1>1 DEF AdapterReady, Waiters, Connecting, At, Request
  <2> QED BY <1>1, <2>1, <2>2 DEF AdapterReady, TenantsTypeOK, At
<1>2. CASE AdapterFails
  <2>1. req' \in [Request -> Progress]
      BY <1>2, WaitersTyped DEF AdapterFails
  <2>2. \A q \in UserRequest : At(q, "idle") => req'[q] = req[q]
      BY <1>2 DEF AdapterFails, Waiters, Connecting, At, Request
  <2>3. faults' \in 0..MaxFaults
      BY <1>2, FaultsInBounds DEF AdapterFails, Fault, TenantsTypeOK
  <2> QED BY <1>2, <2>1, <2>2, <2>3 DEF AdapterFails, ForgetRejected, TenantsTypeOK, At
<1>3. CASE RestartProcess
  <2>1. \A q \in Request : [req[q] EXCEPT !.pc = "failed"] \in Progress
      BY DEF TenantsTypeOK, Progress
  <2>2. req' \in [Request -> Progress]
      BY <1>3, <2>1 DEF RestartProcess, TenantsTypeOK
  <2>3. \A q \in UserRequest : At(q, "idle") => req'[q] = req[q]
      BY <1>3 DEF RestartProcess, At, Request
  <2>4. faults' \in 0..MaxFaults
      BY <1>3, FaultsInBounds DEF RestartProcess, Fault, TenantsTypeOK
  <2> QED BY <1>3, <2>2, <2>3, <2>4 DEF RestartProcess, TenantsTypeOK, At
<1>4. ASSUME NEW q \in InitRequest, InitializeTenant(q)
      PROVE  /\ TenantsTypeOK'
             /\ \A p \in UserRequest : At(p, "idle") => At(p, "idle")'
  <2>0. q \in Request /\ q \notin UserRequest /\ UserRequest \subseteq Request /\ 0 \in Key
      BY TenantConstants DEF Request, TenantConstants, Key
  <2>1. CASE config # 0
    <3>1. Answer(q, "refused")
        BY <1>4, <2>1 DEF InitializeTenant
    <3>2. req' \in [Request -> Progress]
        BY <2>0, <3>1, AnswerTyped
    <3>3. \A p \in UserRequest : req'[p] = req[p]
        BY <2>0, <3>1 DEF Answer, TenantsTypeOK
    <3> QED BY <1>4, <2>1, <3>2, <3>3 DEF InitializeTenant, TenantsTypeOK, At
  <2>2. CASE config = 0
    <3>1. GetOrCreateAdapter(q, 0)
        BY <1>4, <2>2 DEF InitializeTenant
    <3>2. /\ adapter' \in {"none", "pending", "ready"} \cup {adapter}
          /\ req' \in [Request -> Progress]
          /\ \A p \in Request \ {q} : req'[p] = req[p]
        BY <2>0, <3>1, GetOrCreateAdapterTyped
    <3>3. \A p \in UserRequest : req'[p] = req[p]
        BY <2>0, <3>2
    <3> QED BY <1>4, <3>2, <3>3 DEF InitializeTenant, TenantsTypeOK, At
  <2> QED BY <2>1, <2>2
<1>5. ASSUME NEW q \in InitRequest, SetTenantConfig(q)
      PROVE  /\ TenantsTypeOK'
             /\ \A p \in UserRequest : At(p, "idle") => At(p, "idle")'
  <2>0. q \in Request /\ q \notin UserRequest /\ UserRequest \subseteq Request
      BY TenantConstants DEF Request, TenantConstants
  <2>1. req' \in [Request -> Progress]
      BY <1>5, <2>0, AnswerTyped DEF SetTenantConfig
  <2>2. \A p \in UserRequest : req'[p] = req[p]
      BY <1>5, <2>0 DEF SetTenantConfig, Answer, TenantsTypeOK
  <2>3. lastKey' \in Key /\ config' \in Key
      BY <1>5 DEF SetTenantConfig, TenantsTypeOK, Key
  <2> QED BY <1>5, <2>1, <2>2, <2>3 DEF SetTenantConfig, TenantsTypeOK, At
<1>6. ASSUME NEW q \in InitRequest, InitSchemaFails(q)
      PROVE  /\ TenantsTypeOK'
             /\ \A p \in UserRequest : At(p, "idle") => At(p, "idle")'
  <2>0. q \in Request /\ q \notin UserRequest /\ UserRequest \subseteq Request
      BY TenantConstants DEF Request, TenantConstants
  <2>1. req' \in [Request -> Progress]
      BY <1>6, <2>0, AnswerTyped DEF InitSchemaFails
  <2>2. \A p \in UserRequest : req'[p] = req[p]
      BY <1>6, <2>0 DEF InitSchemaFails, Answer, TenantsTypeOK
  <2>3. faults' \in 0..MaxFaults
      BY <1>6, FaultsInBounds DEF InitSchemaFails, Fault, TenantsTypeOK
  <2> QED BY <1>6, <2>1, <2>2, <2>3 DEF InitSchemaFails, TenantsTypeOK, At
<1> QED BY <1>1, <1>2, <1>3, <1>4, <1>5, <1>6 DEF TenantsNext, TenantsProgress

(* What the sending and the end of a request leave typed.                  *)
LEMMA SendsTyped ==
    ASSUME TypeInv, NEW q \in UserRequest, NEW what \in Body, Sends(q, what)
    PROVE  TenantsTypeOK' /\ body' \in [UserRequest -> Body \cup {NULL}] /\ BodyThere'
<1>1. TenantsTypeOK' /\ \A p \in UserRequest \ {q} : req'[p] = req[p]
    BY ResolveTenantTyped DEF Sends, TypeInv, TypeOK
<1>2. body' \in [UserRequest -> Body \cup {NULL}]
    BY DEF Sends, TypeInv, TypeOK
<1>3. body'[q] # NULL /\ \A p \in UserRequest \ {q} : body'[p] = body[p]
    BY NullIsNoBody DEF Sends, TypeInv, TypeOK
<1>4. BodyThere'
    BY <1>1, <1>3 DEF TypeInv, BodyThere, At
<1> QED BY <1>1, <1>2, <1>4

LEMMA FinishedTyped ==
    ASSUME TypeInv, NEW q \in UserRequest, Finished(q)
    PROVE  TenantsTypeOK' /\ body' \in [UserRequest -> Body \cup {NULL}] /\ BodyThere'
<1>0. q \in Request /\ UserRequest \subseteq Request
    BY DEF Request
<1>1. Idle \in Progress
    BY TenantConstants DEF TenantConstants, Idle, Progress, Key
<1>2. req' \in [Request -> Progress] /\ req'[q] = Idle /\ \A p \in UserRequest \ {q} : req'[p] = req[p]
    BY <1>0, <1>1 DEF Finished, TypeInv, TypeOK, TenantsTypeOK
<1>3. body' \in [UserRequest -> Body \cup {NULL}] /\ \A p \in UserRequest \ {q} : body'[p] = body[p]
    BY DEF Finished, TypeInv, TypeOK
<1>4. TenantsTypeOK'
    BY <1>2 DEF Finished, TypeInv, TypeOK, TenantsTypeOK
<1>5. BodyThere'
    BY <1>2, <1>3 DEF TypeInv, BodyThere, At, Idle
<1> QED BY <1>3, <1>4, <1>5

LEMMA ClosedTyped == Closed \in App
BY SubscriptionConstants DEF SubscriptionConstants, Closed, App, Key

LEMMA AnsweredTyped ==
    ASSUME TypeInv, NEW q \in UserRequest, NEW ok \in BOOLEAN, Answered(q, ok)
    PROVE  app' \in App
<1>1. req[q].key \in Key
    BY DEF TypeInv, TypeOK, TenantsTypeOK, Progress, Request
<1>2. [app EXCEPT !.pc = "subscribing", !.key = req[q].key, !.attempt = 1, !.waits = NULL] \in App
  <2>1. 1 \in 0..MaxAttempts
      BY SubscriptionConstants DEF SubscriptionConstants
  <2>2. app \in App
      BY DEF TypeInv, TypeOK
  <2> DEFINE key == req[q].key
  <2>4. key \in Key
      BY <1>1
  <2> HIDE DEF key
  <2>5. [app EXCEPT !.pc = "subscribing", !.key = key, !.attempt = 1, !.waits = NULL] \in App
      BY <2>1, <2>2, <2>4 DEF App
  <2> QED BY <2>5 DEF key
<1> QED BY <1>2, ClosedTyped DEF Answered, TypeInv, TypeOK

LEMMA ChangesInBounds == TypeOK /\ Change => changes' \in 0..MaxChanges
BY SubscriptionConstants DEF SubscriptionConstants, TypeOK, Change

LEMMA BodiesTyped ==
    /\ [op |-> "key"] \in Body /\ [op |-> "delete"] \in Body
    /\ \A endpoint \in Endpoint, key \in Key :
          [op |-> "put", endpoint |-> endpoint, key |-> key] \in Body
BY DEF Body

LEMMA PageTyped ==
    ASSUME TypeInv, NEW q \in UserRequest, Page(q)
    PROVE  TypeInv'
<1>1. CASE StartApp(q)
  <2>1. [Closed EXCEPT !.pc = "init", !.waits = q] \in App
      BY ClosedTyped DEF App
  <2>2. TenantsTypeOK' /\ body' \in [UserRequest -> Body \cup {NULL}] /\ BodyThere'
      BY <1>1, BodiesTyped, SendsTyped DEF StartApp
  <2> QED BY <1>1, <2>1, <2>2 DEF StartApp, TypeInv, TypeOK
<1>2. ASSUME NEW endpoint \in Endpoint, Subscribe(q, endpoint)
      PROVE  TypeInv'
  <2>1. issued' \in Endpoint
      BY <1>2 DEF Subscribe, TypeInv, TypeOK
  <2>2. browser' \in Endpoint \cup {NULL}
      BY <1>2 DEF Subscribe
  <2>3. row' = row /\ changes' = changes
      BY <1>2 DEF Subscribe
  <2>4. CASE Usable(endpoint)
    <3>1. [op |-> "put", endpoint |-> endpoint, key |-> app.key] \in Body
        BY BodiesTyped DEF TypeInv, TypeOK, App
    <3>2. TenantsTypeOK' /\ body' \in [UserRequest -> Body \cup {NULL}] /\ BodyThere'
        BY <1>2, <2>4, <3>1, SendsTyped DEF Subscribe
    <3>3. [app EXCEPT !.pc = "putting", !.waits = q] \in App
        BY DEF TypeInv, TypeOK, App
    <3>4. app' \in App
        BY <1>2, <2>4, <3>3 DEF Subscribe
    <3> QED BY <2>1, <2>2, <2>3, <3>2, <3>4 DEF TypeInv, TypeOK
  <2>5. CASE ~Usable(endpoint)
    <3>1. app.attempt < MaxAttempts => [app EXCEPT !.attempt = app.attempt + 1] \in App
        BY SubscriptionConstants DEF SubscriptionConstants, TypeInv, TypeOK, App
    <3>2. app' \in App
        BY <1>2, <2>5, <3>1, ClosedTyped DEF Subscribe
    <3>3. UNCHANGED <<tenantVars, body>>
        BY <1>2, <2>5 DEF Subscribe
    <3> QED BY <2>1, <2>2, <2>3, <3>2, <3>3
            DEF TypeInv, TypeOK, TenantsTypeOK, BodyThere, At, tenantVars
  <2> QED BY <2>4, <2>5
<1> QED BY <1>1, <1>2 DEF Page

LEMMA ServeTyped ==
    ASSUME TypeInv, NEW q \in UserRequest, Serve(q)
    PROVE  TypeInv'
<1>1. Finished(q)
    BY DEF Serve, GetUserKey, PutPushSubscription, DeletePushSubscription, Refused
<1>2. TenantsTypeOK' /\ body' \in [UserRequest -> Body \cup {NULL}] /\ BodyThere'
    BY <1>1, FinishedTyped
<1>3. \E ok \in BOOLEAN : Answered(q, ok)
    BY DEF Serve, GetUserKey, PutPushSubscription, DeletePushSubscription, Refused, Decrypts
<1>4. app' \in App
    BY <1>3, AnsweredTyped
<1>5. UNCHANGED <<browser, issued, changes>>
    BY DEF Serve, GetUserKey, PutPushSubscription, DeletePushSubscription, Refused
<1>6. row' \in Stored \cup {NULL}
  <2>1. CASE PutPushSubscription(q)
    <3>1. body[q] \in Body /\ body[q].op = "put"
        BY <2>1 DEF PutPushSubscription, TypeInv, TypeOK, BodyThere, At
    <3>2. body[q].endpoint \in Endpoint
        BY <3>1 DEF Body
    <3>3. req[q].key \in Key
        BY DEF TypeInv, TypeOK, TenantsTypeOK, Progress, Request
    <3>4. Upserted(q) \in Stored
        BY <3>2, <3>3 DEF Upserted, Stored
    <3> QED BY <2>1, <3>4 DEF PutPushSubscription, TypeInv, TypeOK
  <2>2. CASE ~PutPushSubscription(q)
      BY <2>2 DEF Serve, GetUserKey, DeletePushSubscription, Refused, TypeInv, TypeOK
  <2> QED BY <2>1, <2>2
<1> QED BY <1>2, <1>4, <1>5, <1>6 DEF TypeInv, TypeOK

LEMMA TypeStep == TypeInv /\ [Next]_vars => TypeInv'
<1> SUFFICES ASSUME TypeInv, [Next]_vars PROVE TypeInv'
    OBVIOUS
<1>1. CASE TenantsNext /\ UNCHANGED subVars
  <2>1. TenantsTypeOK' /\ \A q \in UserRequest : At(q, "idle") => At(q, "idle")'
      BY <1>1, TenantsStepTyped DEF TypeInv, TypeOK
  <2> QED BY <1>1, <2>1 DEF TypeInv, TypeOK, BodyThere, subVars
<1>2. ASSUME NEW q \in UserRequest, Page(q) PROVE TypeInv'
    BY <1>2, PageTyped
<1>3. ASSUME NEW q \in UserRequest, StopPushes(q) PROVE TypeInv'
  <2>1. TenantsTypeOK' /\ body' \in [UserRequest -> Body \cup {NULL}] /\ BodyThere'
      BY <1>3, BodiesTyped, SendsTyped DEF StopPushes
  <2>2. changes' \in 0..MaxChanges
      BY <1>3, ChangesInBounds DEF StopPushes, TypeInv
  <2> QED BY <1>3, <2>1, <2>2 DEF StopPushes, TypeInv, TypeOK
<1>4. ASSUME NEW q \in UserRequest, Serve(q) PROVE TypeInv'
    BY <1>4, ServeTyped
<1>5. CASE Reload
  <2>1. changes' \in 0..MaxChanges
      BY <1>5, ChangesInBounds DEF Reload, TypeInv
  <2> QED BY <1>5, <2>1, ClosedTyped
          DEF Reload, TypeInv, TypeOK, TenantsTypeOK, BodyThere, At, tenantVars
<1>6. CASE LoseEndpoint
  <2>1. changes' \in 0..MaxChanges
      BY <1>6, ChangesInBounds DEF LoseEndpoint, TypeInv
  <2> QED BY <1>6, <2>1
          DEF LoseEndpoint, TypeInv, TypeOK, TenantsTypeOK, BodyThere, At, tenantVars
<1>7. CASE UNCHANGED vars
    BY <1>7 DEF vars, subVars, tenantVars, TypeInv, TypeOK, TenantsTypeOK, BodyThere, At
<1> QED BY <1>1, <1>2, <1>3, <1>4, <1>5, <1>6, <1>7 DEF Next

LEMMA TypeInvariant == Spec => []TypeInv
BY TypeInit, TypeStep, PTL DEF Spec

(* Every reachable state is well typed: a request of a user is under way   *)
(* only with a body, and every row is a whole one.                         *)
THEOREM TypeCorrect == Spec => []TypeOK
BY TypeInvariant, PTL DEF TypeInv

-----------------------------------------------------------------------------
(* Nobody is handed the failure of an earlier request                      *)

LEMMA FaultInit == Init => FaultInv
<1> SUFFICES ASSUME Init PROVE FaultInv
    OBVIOUS
<1>1. NotCached
    BY DEF Init, TenantsInit, NotCached
<1>2. SinceBefore /\ FailsOnlyByFault
    BY DEF Init, TenantsInit, Idle, SinceBefore, FailsOnlyByFault, At
<1> QED BY <1>1, <1>2 DEF FaultInv

(* Steps that leave the adapter and the faults, and change nothing of a    *)
(* request but to make it idle, refused or done, keep the invariant.       *)
LEMMA QuietStep ==
    ASSUME FaultInv, UNCHANGED <<adapter, faults>>,
           \A p \in Request : \/ req'[p].pc # "failed" /\ req'[p].since <= faults
                              \/ req'[p] = req[p]
    PROVE  FaultInv'
<1>1. NotCached' BY DEF FaultInv, NotCached
<1>2. SinceBefore' BY DEF FaultInv, SinceBefore
<1>3. FailsOnlyByFault' BY DEF FaultInv, FailsOnlyByFault, At
<1> QED BY <1>1, <1>2, <1>3 DEF FaultInv

(* So does a failure: whoever fails is told in the step of the fault.      *)
LEMMA FaultStep ==
    ASSUME TypeOK, FaultInv, Fault, adapter' \in {"none", adapter},
           \A p \in Request : req'[p].since = req[p].since
    PROVE  FaultInv'
<1>1. faults' = faults + 1 /\ faults \in Nat
    BY DEF Fault, TypeOK, TenantsTypeOK
<1>2. \A p \in Request : req[p].since \in Nat
    BY DEF TypeOK, TenantsTypeOK, Progress
<1>3. NotCached' BY DEF FaultInv, NotCached
<1>4. \A p \in Request : req'[p].since < faults'
    BY <1>1, <1>2 DEF FaultInv, SinceBefore
<1>5. SinceBefore' BY <1>1, <1>2, <1>4 DEF SinceBefore
<1>6. FailsOnlyByFault' BY <1>4 DEF FailsOnlyByFault
<1> QED BY <1>3, <1>5, <1>6 DEF FaultInv

LEMMA GetOrCreateAdapterFaults ==
    ASSUME TypeOK, FaultInv, NEW q \in Request, NEW key \in Key,
           GetOrCreateAdapter(q, key), faults' = faults
    PROVE  FaultInv'
<1>0. adapter # "rejected"
    BY DEF FaultInv, NotCached
<1>1. req'[q].pc # "failed" /\ req'[q].since = faults /\ \A p \in Request \ {q} : req'[p] = req[p]
    BY <1>0 DEF GetOrCreateAdapter, TypeOK, TenantsTypeOK
<1>2. faults \in Nat
    BY DEF TypeOK, TenantsTypeOK
<1>3. NotCached' BY <1>0 DEF GetOrCreateAdapter, NotCached
<1>4. SinceBefore' BY <1>1, <1>2 DEF FaultInv, SinceBefore
<1>5. FailsOnlyByFault' BY <1>1 DEF FaultInv, FailsOnlyByFault, At
<1> QED BY <1>3, <1>4, <1>5 DEF FaultInv

LEMMA AnswerFaults ==
    ASSUME TypeOK, FaultInv, NEW q \in Request, NEW pc \in {"refused", "done"},
           Answer(q, pc), UNCHANGED <<adapter, faults>>
    PROVE  FaultInv'
<1>1. /\ req'[q].pc # "failed" /\ req'[q].since = req[q].since
      /\ \A p \in Request \ {q} : req'[p] = req[p]
    BY DEF Answer, TypeOK, TenantsTypeOK, Progress
<1> QED BY <1>1, QuietStep DEF FaultInv, SinceBefore

LEMMA ResolveTenantFaults ==
    ASSUME TypeOK, FaultInv, NEW q \in UserRequest, ResolveTenant(q)
    PROVE  FaultInv'
<1>0. q \in Request /\ config \in Key /\ faults' = faults
    BY DEF Request, TypeOK, TenantsTypeOK, ResolveTenant
<1>1. CASE config = 0
    BY <1>0, <1>1, AnswerFaults DEF ResolveTenant
<1>2. CASE config # 0
    BY <1>0, <1>2, GetOrCreateAdapterFaults DEF ResolveTenant
<1> QED BY <1>1, <1>2

LEMMA TenantsStepFaults ==
    ASSUME TypeOK, FaultInv, TenantsNext
    PROVE  FaultInv'
<1>1. CASE AdapterReady
  <2>1. \A p \in Request : \/ req'[p].pc # "failed" /\ req'[p].since = req[p].since
                           \/ req'[p] = req[p]
      BY <1>1 DEF AdapterReady, Waiters, Connecting, TypeOK, TenantsTypeOK, Progress
  <2>2. NotCached'
      BY <1>1 DEF AdapterReady, NotCached
  <2>3. SinceBefore' /\ FailsOnlyByFault'
      BY <1>1, <2>1 DEF AdapterReady, FaultInv, SinceBefore, FailsOnlyByFault, At
  <2> QED BY <2>2, <2>3 DEF FaultInv
<1>2. CASE AdapterFails
  <2>1. \A p \in Request : req'[p].since = req[p].since
      BY <1>2 DEF AdapterFails, Waiters, Connecting, TypeOK, TenantsTypeOK, Progress
  <2> QED BY <1>2, <2>1, FaultStep DEF AdapterFails, ForgetRejected
<1>3. CASE RestartProcess
  <2>1. \A p \in Request : req'[p].since = req[p].since
      BY <1>3 DEF RestartProcess, TypeOK, TenantsTypeOK, Progress
  <2> QED BY <1>3, <2>1, FaultStep DEF RestartProcess
<1>4. ASSUME NEW q \in InitRequest, InitializeTenant(q) PROVE FaultInv'
  <2>0. q \in Request /\ 0 \in Key
      BY DEF Request, Key
  <2>1. CASE config # 0
      BY <1>4, <2>0, <2>1, AnswerFaults DEF InitializeTenant
  <2>2. CASE config = 0
      BY <1>4, <2>0, <2>2, GetOrCreateAdapterFaults DEF InitializeTenant
  <2> QED BY <2>1, <2>2
<1>5. ASSUME NEW q \in InitRequest, SetTenantConfig(q) PROVE FaultInv'
    BY <1>5, AnswerFaults DEF SetTenantConfig, Request
<1>6. ASSUME NEW q \in InitRequest, InitSchemaFails(q) PROVE FaultInv'
  <2>1. \A p \in Request : req'[p].since = req[p].since
      BY <1>6 DEF InitSchemaFails, Answer, TypeOK, TenantsTypeOK, Progress
  <2> QED BY <1>6, <2>1, FaultStep DEF InitSchemaFails
<1> QED BY <1>1, <1>2, <1>3, <1>4, <1>5, <1>6 DEF TenantsNext, TenantsProgress

LEMMA FinishedFaults ==
    ASSUME TypeOK, FaultInv, NEW q \in UserRequest, Finished(q)
    PROVE  FaultInv'
<1>1. faults \in Nat
    BY DEF TypeOK, TenantsTypeOK
<1>2. \A p \in Request : \/ req'[p].pc # "failed" /\ req'[p].since = 0
                         \/ req'[p] = req[p]
    BY DEF Finished, Idle, TypeOK, TenantsTypeOK
<1>3. UNCHANGED <<adapter, faults>>
    BY DEF Finished
<1> QED BY <1>1, <1>2, <1>3, QuietStep

LEMMA FaultsStep == TypeInv /\ FaultInv /\ [Next]_vars => FaultInv'
<1> SUFFICES ASSUME TypeOK, FaultInv, [Next]_vars PROVE FaultInv'
    BY DEF TypeInv
<1>1. CASE UNCHANGED tenantVars
    BY <1>1 DEF tenantVars, FaultInv, NotCached, SinceBefore, FailsOnlyByFault, At
<1>2. CASE TenantsNext
    BY <1>2, TenantsStepFaults
<1>3. ASSUME NEW q \in UserRequest, ResolveTenant(q) PROVE FaultInv'
    BY <1>3, ResolveTenantFaults
<1>4. ASSUME NEW q \in UserRequest, Finished(q) PROVE FaultInv'
    BY <1>4, FinishedFaults
<1>5. ASSUME NEW q \in UserRequest, Page(q) PROVE UNCHANGED tenantVars \/ ResolveTenant(q)
    BY <1>5 DEF Page, StartApp, Subscribe, Sends
<1>6. ASSUME NEW q \in UserRequest, StopPushes(q) PROVE ResolveTenant(q)
    BY <1>6 DEF StopPushes, Sends
<1>7. ASSUME NEW q \in UserRequest, Serve(q) PROVE Finished(q)
    BY <1>7 DEF Serve, GetUserKey, PutPushSubscription, DeletePushSubscription, Refused
<1>8. Reload \/ LoseEndpoint \/ UNCHANGED vars => UNCHANGED tenantVars
    BY DEF Reload, LoseEndpoint, vars
<1> QED BY <1>1, <1>2, <1>3, <1>4, <1>5, <1>6, <1>7, <1>8 DEF Next

(* getOrCreateAdapter: however requests overlap and whatever fails, nobody *)
(* waits on a connection that had failed before the request arrived.       *)
THEOREM FailuresFresh == Spec => []FailsOnlyByFault
<1>1. Spec => []FaultInv
    BY FaultInit, FaultsStep, TypeInvariant, PTL DEF Spec
<1> QED BY <1>1, PTL DEF FaultInv

-----------------------------------------------------------------------------
(* No placeholder on record                                                *)

LEMMA ZombieInit == Init => ZombieInv
BY DEF Init, ZombieInv, BodyUsable, NoZombie

LEMMA ZombieStep == TypeInv /\ ZombieInv /\ [Next]_vars => ZombieInv'
<1> SUFFICES ASSUME TypeInv, ZombieInv, [Next]_vars PROVE ZombieInv'
    OBVIOUS
<1>1. ASSUME NEW q \in UserRequest, NEW what \in Body, Sends(q, what), row' = row,
             what.op = "put" => what.endpoint # Zombie
      PROVE  ZombieInv'
  <2>1. \A p \in UserRequest : body'[p] = IF p = q THEN what ELSE body[p]
      BY <1>1 DEF Sends, TypeInv, TypeOK
  <2> QED BY <1>1, <2>1 DEF ZombieInv, BodyUsable, NoZombie
<1>2. CASE UNCHANGED <<body, row>>
    BY <1>2 DEF ZombieInv, BodyUsable, NoZombie
<1>3. ASSUME NEW q \in UserRequest, StartApp(q) PROVE ZombieInv'
  <2>1. [op |-> "key"].op # "put" /\ row' = row
      BY <1>3 DEF StartApp
  <2> QED BY <1>1, <1>3, <2>1, BodiesTyped DEF StartApp
<1>4. ASSUME NEW q \in UserRequest, StopPushes(q) PROVE ZombieInv'
  <2>1. [op |-> "delete"].op # "put" /\ row' = row
      BY <1>4 DEF StopPushes
  <2> QED BY <1>1, <1>4, <2>1, BodiesTyped DEF StopPushes
<1>5. ASSUME NEW q \in UserRequest, NEW endpoint \in Endpoint, Subscribe(q, endpoint)
      PROVE  ZombieInv'
  <2>1. row' = row
      BY <1>5 DEF Subscribe
  <2>2. CASE Usable(endpoint)
    <3>1. [op |-> "put", endpoint |-> endpoint, key |-> app.key] \in Body
        BY BodiesTyped DEF TypeInv, TypeOK, App
    <3>2. Sends(q, [op |-> "put", endpoint |-> endpoint, key |-> app.key])
        BY <1>5, <2>2 DEF Subscribe
    <3> QED BY <1>1, <2>1, <2>2, <3>1, <3>2 DEF Usable
  <2>3. CASE ~Usable(endpoint)
      BY <1>2, <1>5, <2>1, <2>3 DEF Subscribe
  <2> QED BY <2>2, <2>3
<1>6. ASSUME NEW q \in UserRequest, Serve(q) PROVE ZombieInv'
  <2>1. body' = [body EXCEPT ![q] = NULL]
      BY <1>6 DEF Serve, GetUserKey, PutPushSubscription, DeletePushSubscription, Refused, Finished
  <2>2. BodyUsable'
      BY <2>1 DEF ZombieInv, BodyUsable, TypeInv, TypeOK
  <2>3. CASE PutPushSubscription(q)
    <3>1. body[q] # NULL /\ body[q].op = "put"
        BY <2>3 DEF PutPushSubscription, TypeInv, BodyThere, At
    <3>2. Upserted(q).endpoint # Zombie
        BY <3>1 DEF Upserted, ZombieInv, BodyUsable
    <3>3. NoZombie'
        BY <2>3, <3>2 DEF PutPushSubscription, ZombieInv, NoZombie
    <3> QED BY <2>2, <3>3 DEF ZombieInv
  <2>4. CASE ~PutPushSubscription(q)
    <3>1. row' \in {row, NULL}
        BY <1>6, <2>4 DEF Serve, GetUserKey, DeletePushSubscription, Refused
    <3>2. NoZombie'
        BY <3>1 DEF ZombieInv, NoZombie
    <3> QED BY <2>2, <3>2 DEF ZombieInv
  <2> QED BY <2>3, <2>4
<1>7. (TenantsNext /\ UNCHANGED subVars) \/ Reload \/ LoseEndpoint \/ UNCHANGED vars
        => UNCHANGED <<body, row>>
    BY DEF Reload, LoseEndpoint, vars, subVars
<1> QED BY <1>2, <1>3, <1>4, <1>5, <1>6, <1>7 DEF Next, Page

(* subscribePush: a placeholder endpoint never reaches the record of the   *)
(* user, for any number of attempts, reloads and reordered requests.       *)
THEOREM NoZombieOnRecord == Spec => []NoZombie
<1>1. Spec => []ZombieInv
    BY ZombieInit, ZombieStep, TypeInvariant, PTL DEF Spec
<1> QED BY <1>1, PTL DEF ZombieInv
=============================================================================
