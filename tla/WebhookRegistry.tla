-------------------------- MODULE WebhookRegistry --------------------------
(***************************************************************************)
(* Registrations of webhooks, their signing secrets, and the fan-out of an *)
(* event to them.  Webhooks and secrets are named by the request that made *)
(* them.  A handler loads a row, and its commit writes only the columns it *)
(* changed; no row is locked.  Every webhook subscribes to the event; url  *)
(* and events together are its pair.                                       *)
(***************************************************************************)
EXTENDS Naturals, FiniteSets

CONSTANTS
    HookRequests,  \* API requests and tasks, each performing one operation
    FirstHook,     \* a webhook registered before
    Pairs,
    HookCap,       \* MAX_WEBHOOKS_PER_ACCOUNT
    EventBudget    \* EVENT_LISTENER_RATE_LIMIT_PER_SUBSCRIBER

ASSUME RegistryAssumption ==
    FirstHook \notin HookRequests /\ Pairs # {} /\ HookCap \in Nat /\ EventBudget \in Nat

VARIABLES
    hooks,    \* the webhooks table
    lapsed,   \* secrets whose grace window has ended
    eventHits,     \* Redis counter of each webhook in this window
    armed,    \* webhooks whose counter has a TTL
    hookPc, hookReq,
    sent,     \* the webhooks each fan-out made a delivery for
    gone      \* the webhooks that were deleted when it began

hookVars == <<hooks, lapsed, eventHits, armed, hookPc, hookReq, sent, gone>>

Hooks == HookRequests \cup {FirstHook}
Webhook == [pair : Pairs, active : BOOLEAN, deleted : BOOLEAN, secret : Hooks, version : Nat,
            previous : SUBSET Hooks]
HookSteps == {"idle", "insert", "patch", "rotate", "delete", "prune", "plan", "arm", "create", "done"}

RegistryTypeOK ==
    /\ DOMAIN hooks \subseteq Hooks /\ \A h \in DOMAIN hooks : hooks[h] \in Webhook
    /\ lapsed \subseteq Hooks
    /\ eventHits \in [Hooks -> Nat] /\ armed \subseteq Hooks
    /\ hookPc \in [HookRequests -> HookSteps]
    /\ sent \in [HookRequests -> SUBSET Hooks] /\ gone \in [HookRequests -> SUBSET Hooks]

-----------------------------------------------------------------------------

NoHookReq == [todo |-> {}]
HookGoto(r, step) == hookPc' = [hookPc EXCEPT ![r] = step]
HookEnd(r) == HookGoto(r, "done") /\ hookReq' = [hookReq EXCEPT ![r] = NoHookReq]
HookKeep(r, req) == hookReq' = [hookReq EXCEPT ![r] = req]

NewHook(p, r) ==
    [pair |-> p, active |-> TRUE, deleted |-> FALSE, secret |-> r, version |-> 1, previous |-> {}]

\* uq_webhooks_url_events_live, for a webhook h that would have pair p.
PairTaken(h, p) == \E g \in DOMAIN hooks \ {h} : ~ hooks[g].deleted /\ hooks[g].pair = p

\* create_webhook: the cap counts the tombstones too, and 0 disables it.
CapCheck(r, p) ==
    /\ hookPc[r] = "idle"
    /\ IF HookCap > 0 /\ Cardinality(DOMAIN hooks) >= HookCap
       THEN HookEnd(r)
       ELSE HookGoto(r, "insert") /\ HookKeep(r, [pair |-> p])
    /\ UNCHANGED <<hooks, lapsed, eventHits, armed, sent, gone>>

InsertHook(r) ==
    LET p == hookReq[r].pair IN
    /\ hookPc[r] = "insert"
    /\ hooks' = IF PairTaken(r, p) THEN hooks
                ELSE [h \in DOMAIN hooks \cup {r} |-> IF h = r THEN NewHook(p, r) ELSE hooks[h]]
    /\ HookEnd(r)
    /\ UNCHANGED <<lapsed, eventHits, armed, sent, gone>>

\* _get_live_webhook_or_409, for the handlers that change a webhook.
LiveWebhook(r, h, step) ==
    /\ hookPc[r] = "idle" /\ h \in DOMAIN hooks
    /\ IF hooks[h].deleted
       THEN HookEnd(r)
       ELSE HookGoto(r, step) /\ HookKeep(r, [hook |-> h, row |-> hooks[h]])
    /\ UNCHANGED <<hooks, lapsed, eventHits, armed, sent, gone>>

\* update_webhook: the url or the events, or is_active, or a name or another
\* column that nothing here depends on.  A pair that is taken is an error 500.
PatchCommit(r) ==
    LET q == hookReq[r] IN
    /\ hookPc[r] = "patch"
    /\ \/ \E p \in Pairs : hooks' = IF PairTaken(q.hook, p) /\ ~ hooks[q.hook].deleted THEN hooks
                                    ELSE [hooks EXCEPT ![q.hook].pair = IF p = q.row.pair THEN @ ELSE p]
       \/ \E b \in BOOLEAN : hooks' = [hooks EXCEPT ![q.hook].active = IF b = q.row.active THEN @ ELSE b]
    /\ HookEnd(r)
    /\ UNCHANGED <<lapsed, eventHits, armed, sent, gone>>

\* prune_expired_secrets.
Kept(secrets) == secrets \ lapsed

\* previous_secrets after a rotation.  A list that was loaded with entries,
\* all of them in grace, is appended to in place: the ORM does not see the
\* change and the column is not written.
HistoryAfter(row, stored) ==
    IF row.previous # {} /\ Kept(row.previous) = row.previous
    THEN stored
    ELSE Kept(row.previous) \cup {row.secret}

\* rotate_webhook_secret, and update_webhook with a secret.
RotateCommit(r) ==
    LET q == hookReq[r] IN
    /\ hookPc[r] = "rotate"
    /\ hooks' = [hooks EXCEPT ![q.hook].secret = r,
                              ![q.hook].version = q.row.version + 1,
                              ![q.hook].previous = HistoryAfter(q.row, @)]
    /\ HookEnd(r)
    /\ UNCHANGED <<lapsed, eventHits, armed, sent, gone>>

\* delete_webhook; a tombstone is left as it is.
DeleteRead(r, h) ==
    /\ hookPc[r] = "idle" /\ h \in DOMAIN hooks
    /\ IF hooks[h].deleted
       THEN HookEnd(r)
       ELSE HookGoto(r, "delete") /\ HookKeep(r, [hook |-> h, row |-> hooks[h]])
    /\ UNCHANGED <<hooks, lapsed, eventHits, armed, sent, gone>>

DeleteCommit(r) ==
    LET q == hookReq[r] IN
    /\ hookPc[r] = "delete"
    /\ hooks' = [hooks EXCEPT ![q.hook].deleted = TRUE,
                              ![q.hook].active = IF q.row.active THEN FALSE ELSE @]
    /\ HookEnd(r)
    /\ UNCHANGED <<lapsed, eventHits, armed, sent, gone>>

\* expire_old_secrets loads every webhook and writes the pruned lists at the end.
PruneRead(r) ==
    /\ hookPc[r] = "idle"
    /\ HookGoto(r, "prune")
    /\ HookKeep(r, [pruned |-> [h \in {h \in DOMAIN hooks : Kept(hooks[h].previous) # hooks[h].previous} |->
                                   Kept(hooks[h].previous)]])
    /\ UNCHANGED <<hooks, lapsed, eventHits, armed, sent, gone>>

PruneCommit(r) ==
    /\ hookPc[r] = "prune"
    /\ hooks' = [h \in DOMAIN hooks |->
                   IF h \in DOMAIN hookReq[r].pruned
                   THEN [hooks[h] EXCEPT !.previous = hookReq[r].pruned[h]]
                   ELSE hooks[h]]
    /\ HookEnd(r)
    /\ UNCHANGED <<lapsed, eventHits, armed, sent, gone>>

GraceEnds(s) ==
    /\ \E h \in DOMAIN hooks : s \in hooks[h].previous
    /\ lapsed' = lapsed \cup {s}
    /\ UNCHANGED <<hooks, eventHits, armed, hookPc, hookReq, sent, gone>>

-----------------------------------------------------------------------------

\* Selects on the active flag alone.
ActiveOnly == {h \in DOMAIN hooks : hooks[h].active}

\* subscribers_for_event
Subscribers == {h \in DOMAIN hooks : hooks[h].active /\ ~ hooks[h].deleted}

\* dispatch_plan: the subscribers are read in one statement.
ResolveSubscribers(r) ==
    /\ hookPc[r] = "idle"
    /\ HookGoto(r, "plan") /\ HookKeep(r, [todo |-> Subscribers, allowed |-> {}])
    /\ gone' = [gone EXCEPT ![r] = {h \in DOMAIN hooks : hooks[h].deleted}]
    /\ UNCHANGED <<hooks, lapsed, eventHits, armed, sent>>

\* allow: one more hit of the subscriber; the counter is armed afterwards.
Incr(r, h) ==
    /\ hookPc[r] = "plan" /\ h \in hookReq[r].todo
    /\ eventHits' = [eventHits EXCEPT ![h] = @ + 1]
    /\ HookGoto(r, "arm")
    /\ HookKeep(r, [hook |-> h, count |-> eventHits[h] + 1, todo |-> hookReq[r].todo \ {h},
                    allowed |-> hookReq[r].allowed])
    /\ UNCHANGED <<hooks, lapsed, armed, sent, gone>>

\* A window that has ended since leaves no counter to arm.
Arm(r) ==
    LET q == hookReq[r] IN
    /\ hookPc[r] = "arm"
    /\ armed' = IF eventHits[q.hook] > 0 THEN armed \cup {q.hook} ELSE armed
    /\ HookGoto(r, "plan")
    /\ HookKeep(r, [todo |-> q.todo,
                    allowed |-> q.allowed \cup IF q.count <= EventBudget THEN {q.hook} ELSE {}])
    /\ UNCHANGED <<hooks, lapsed, eventHits, sent, gone>>

\* Redis is unreachable: the process's own limiter decides.
AllowLocal(r, h) ==
    LET q == hookReq[r] IN
    /\ \/ hookPc[r] = "plan" /\ h \in q.todo
       \/ hookPc[r] = "arm" /\ h = q.hook
    /\ HookGoto(r, "plan")
    /\ \E ok \in SUBSET {h} : HookKeep(r, [todo |-> q.todo \ {h}, allowed |-> q.allowed \cup ok])
    /\ UNCHANGED <<hooks, lapsed, eventHits, armed, sent, gone>>

PlanDone(r) ==
    /\ hookPc[r] = "plan" /\ hookReq[r].todo = {}
    /\ HookGoto(r, "create")
    /\ UNCHANGED <<hooks, lapsed, eventHits, armed, hookReq, sent, gone>>

\* create_delivery for each allowed subscriber in turn.
CreateDelivery(r) ==
    LET q == hookReq[r] IN
    /\ hookPc[r] = "create"
    /\ IF q.allowed = {}
       THEN HookEnd(r) /\ UNCHANGED sent
       ELSE \E h \in q.allowed :
              /\ sent' = [sent EXCEPT ![r] = @ \cup {h}]
              /\ HookKeep(r, [q EXCEPT !.allowed = @ \ {h}])
              /\ UNCHANGED hookPc
    /\ UNCHANGED <<hooks, lapsed, eventHits, armed, gone>>

WindowEnds(h) ==
    /\ h \in armed
    /\ armed' = armed \ {h} /\ eventHits' = [eventHits EXCEPT ![h] = 0]
    /\ UNCHANGED <<hooks, lapsed, hookPc, hookReq, sent, gone>>

HookCrash(r) ==
    /\ hookPc[r] \notin {"idle", "done"}
    /\ HookEnd(r)
    /\ UNCHANGED <<hooks, lapsed, eventHits, armed, sent, gone>>

RegistryInit ==
    /\ \E on \in BOOLEAN :
          hooks = [h \in {FirstHook} |->
                     [NewHook(CHOOSE p \in Pairs : TRUE, FirstHook) EXCEPT !.active = on]]
    /\ lapsed = {} /\ eventHits = [h \in Hooks |-> 0] /\ armed = {}
    /\ hookPc = [r \in HookRequests |-> "idle"] /\ hookReq = [r \in HookRequests |-> NoHookReq]
    /\ sent = [r \in HookRequests |-> {}] /\ gone = [r \in HookRequests |-> {}]

ChangeHook(r) ==
    \/ \E p \in Pairs : CapCheck(r, p)
    \/ \E h \in DOMAIN hooks : LiveWebhook(r, h, "patch") \/ LiveWebhook(r, h, "rotate") \/ DeleteRead(r, h)
    \/ InsertHook(r) \/ PatchCommit(r) \/ RotateCommit(r) \/ DeleteCommit(r) \/ PruneRead(r) \/ PruneCommit(r)

FanOut(r) ==
    \/ ResolveSubscribers(r) \/ Arm(r) \/ PlanDone(r) \/ CreateDelivery(r)
    \/ \E h \in DOMAIN hooks : Incr(r, h) \/ AllowLocal(r, h)

RegistryNext ==
    \/ \E r \in HookRequests : ChangeHook(r) \/ FanOut(r) \/ HookCrash(r)
    \/ \E s \in Hooks : GraceEnds(s) \/ WindowEnds(s)

RegistrySpec == RegistryInit /\ [][RegistryNext]_hookVars

-----------------------------------------------------------------------------

\* An event raised after a webhook was deleted makes no delivery for it, even
\* when an edit that was under way has set the tombstone active again
\* (delete_webhook, subscriber_filter).
TombstoneGetsNoEvent == \A r \in HookRequests : sent[r] \cap gone[r] = {}

=============================================================================
