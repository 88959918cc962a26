--------------------------- MODULE Subscriptions ----------------------------
(***************************************************************************)
(* The push subscription of a user: the browser's, and the one the server  *)
(* has on record (client subscribePush and putPushSubscription,            *)
(* server/handlers/push-subscription.js and lib/push-subscription-store).  *)
(* Bodies and rows are encrypted with a key derived from the master key.   *)
(* A page that has been reloaded leaves its requests under way.            *)
(***************************************************************************)
EXTENDS Tenants

CONSTANTS
    NULL,
    MaxAttempts,   \* PUSH_SUBSCRIBE_ATTEMPTS_MAX
    MaxChanges     \* bound: rotated endpoints, reloads, DELETEs by the user

ASSUME SubscriptionConstants ==
    /\ MaxAttempts \in Nat \ {0}
    /\ MaxChanges \in Nat
    /\ NULL \notin UserRequest

VARIABLES
    browser,       \* endpoint of the subscription the browser holds
    issued,        \* endpoints the push service has issued so far
    app,           \* the page
    body,          \* body[q]: what request q asks for
    row,           \* the row of the user in push_subscriptions
    changes

subVars == <<browser, issued, app, body, row, changes>>
vars == <<tenantVars, subVars>>

Zombie == 0        \* permanently-removed.invalid
Endpoint == 0..(MaxChanges + 1)

App == [pc      : {"closed", "init", "subscribing", "putting"},
        key     : Key,                        \* the userKey of init()
        attempt : 0..MaxAttempts,
        waits   : UserRequest \cup {NULL}]   \* the request it awaits
Closed == [pc |-> "closed", key |-> 0, attempt |-> 0, waits |-> NULL]

Body == [op : {"key", "delete"}] \cup [op : {"put"}, endpoint : Endpoint, key : Key]
Stored == [endpoint : Endpoint, key : Key]

ASSUME NullIsNoBody == NULL \notin Body

TypeOK ==
    /\ TenantsTypeOK
    /\ browser \in Endpoint \cup {NULL}
    /\ issued \in Endpoint
    /\ app \in App
    /\ body \in [UserRequest -> Body \cup {NULL}]
    /\ row \in Stored \cup {NULL}
    /\ changes \in 0..MaxChanges

Init ==
    /\ TenantsInit
    /\ browser = NULL /\ issued = 0 /\ row = NULL /\ changes = 0
    /\ app = Closed
    /\ body = [q \in UserRequest |-> NULL]

Change == changes < MaxChanges /\ changes' = changes + 1

(* A request is sent, and its tenant resolved.                             *)
Sends(q, what) ==
    /\ body[q] = NULL
    /\ ResolveTenant(q)
    /\ body' = [body EXCEPT ![q] = what]

Finished(q) == /\ body' = [body EXCEPT ![q] = NULL]
               /\ req' = [req EXCEPT ![q] = Idle]
               /\ UNCHANGED <<config, lastKey, adapter, faults>>

-----------------------------------------------------------------------------
(* The page                                                                *)

(* init(): GET /get-user-key.                                              *)
StartApp(q) ==
    /\ app.pc = "closed"
    /\ Sends(q, [op |-> "key"])
    /\ app' = [Closed EXCEPT !.pc = "init", !.waits = q]
    /\ UNCHANGED <<browser, issued, row, changes>>

(* A slip: the last attempt is taken as it comes.                          *)
TakenAtLast(endpoint) == endpoint # Zombie \/ app.attempt = MaxAttempts

Usable(endpoint) == endpoint # Zombie

(* What pushManager.subscribe() gives: the subscription that is there, or  *)
(* a new one, which may be a placeholder for a while.                      *)
Offered == IF browser # NULL THEN {browser}
           ELSE {Zombie} \cup IF issued <= MaxChanges THEN {issued + 1} ELSE {}

(* One attempt of subscribePush.  A placeholder is given back before the   *)
(* next attempt (unsubscribe() may fail); after the last one it throws.    *)
Subscribe(q, endpoint) ==
    /\ app.pc = "subscribing"
    /\ endpoint \in Offered
    /\ issued' = IF endpoint > issued THEN endpoint ELSE issued
    /\ IF Usable(endpoint)
       THEN /\ browser' = endpoint
            /\ Sends(q, [op |-> "put", endpoint |-> endpoint, key |-> app.key])
            /\ app' = [app EXCEPT !.pc = "putting", !.waits = q]
       ELSE /\ browser' \in {NULL, endpoint}
            /\ app' = IF app.attempt < MaxAttempts
                      THEN [app EXCEPT !.attempt = @ + 1] ELSE Closed
            /\ UNCHANGED <<tenantVars, body>>
    /\ UNCHANGED <<row, changes>>

(* The answer, if the page still waits for it.                             *)
Answered(q, ok) ==
    app' = IF app.waits # q THEN app
           ELSE IF app.pc = "init" /\ ok
           THEN [app EXCEPT !.pc = "subscribing", !.key = req[q].key,
                            !.attempt = 1, !.waits = NULL]
           ELSE Closed

(* deletePushSubscription: the user wants no more pushes.                  *)
StopPushes(q) ==
    /\ Change
    /\ Sends(q, [op |-> "delete"])
    /\ UNCHANGED <<browser, issued, app, row>>

Reload ==
    /\ Change
    /\ app' = Closed
    /\ UNCHANGED <<tenantVars, browser, issued, body, row>>

(* The push service drops the endpoint, or the site data is cleared.       *)
LoseEndpoint ==
    /\ Change
    /\ browser # NULL
    /\ browser' = NULL
    /\ UNCHANGED <<tenantVars, issued, app, body, row>>

-----------------------------------------------------------------------------
(* The server                                                              *)

(* GET /get-user-key derives the key of the user from the key it has read. *)
GetUserKey(q) ==
    /\ At(q, "connected") /\ body[q].op = "key"
    /\ Answered(q, TRUE)
    /\ Finished(q)
    /\ UNCHANGED <<browser, issued, row, changes>>

Decrypts(q) == body[q].key = req[q].key

(* A slip: INSERT without ON CONFLICT DO UPDATE.                           *)
Inserted(q) == IF row # NULL THEN row
               ELSE [endpoint |-> body[q].endpoint, key |-> req[q].key]

Upserted(q) == [endpoint |-> body[q].endpoint, key |-> req[q].key]

(* PUT /push-subscription: 400 for a body of another key, else the row is  *)
(* overwritten, whatever is there.                                         *)
PutPushSubscription(q) ==
    /\ At(q, "connected") /\ body[q].op = "put"
    /\ Answered(q, Decrypts(q))
    /\ row' = IF Decrypts(q) THEN Upserted(q) ELSE row
    /\ Finished(q)
    /\ UNCHANGED <<browser, issued, changes>>

DeletePushSubscription(q) ==
    /\ At(q, "connected") /\ body[q].op = "delete"
    /\ Answered(q, TRUE)
    /\ row' = NULL
    /\ Finished(q)
    /\ UNCHANGED <<browser, issued, changes>>

(* 401, or the failure of the adapter.                                     *)
Refused(q) ==
    /\ req[q].pc \in {"refused", "failed"}
    /\ Answered(q, FALSE)
    /\ Finished(q)
    /\ UNCHANGED <<browser, issued, row, changes>>

Serve(q) ==
    \/ GetUserKey(q) \/ PutPushSubscription(q) \/ DeletePushSubscription(q) \/ Refused(q)

Page(q) == StartApp(q) \/ \E endpoint \in Endpoint : Subscribe(q, endpoint)

Next ==
    \/ TenantsNext /\ UNCHANGED subVars
    \/ \E q \in UserRequest : Page(q) \/ StopPushes(q) \/ Serve(q)
    \/ Reload \/ LoseEndpoint

Spec == Init /\ [][Next]_vars

(* The server serves, the tenant is initialised, the user opens the app    *)
(* again, which registers as the documentation asks for at every start,    *)
(* and the browser neither hands out placeholders nor keeps one for ever.  *)
Subscribed(q) == \E endpoint \in Endpoint \ {Zombie} : Subscribe(q, endpoint)
GivenBack(q) == Subscribe(q, Zombie) /\ browser' = NULL
FairSpec ==
    /\ Spec
    /\ SF_vars(\E q \in UserRequest : GivenBack(q))
    /\ WF_vars(TenantsProgress /\ UNCHANGED subVars)
    /\ WF_vars(\E q \in UserRequest : Serve(q))
    /\ WF_vars(\E q \in UserRequest : Page(q))
    /\ SF_vars(\E q \in UserRequest : Subscribed(q))

-----------------------------------------------------------------------------
(* Properties                                                              *)

(* A placeholder the browser hands out while it cleans up is never put on  *)
(* record as the place to push to.                                         *)
NoZombie == row # NULL => row.endpoint # Zombie

(* What resolvePushSubscription finds at delivery: a row that opens with   *)
(* the key of the tenant and names the endpoint of the browser.            *)
Reached == row # NULL /\ row.key = config /\ row.endpoint = browser

(* Whatever has been replaced, reordered, dropped or re-keyed, pushes find *)
(* their way again.                                                        *)
EventuallyReached == <>[]Reached
=============================================================================
