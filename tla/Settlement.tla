----------------------------- MODULE Settlement -----------------------------
(***************************************************************************)
(* Settlement of outages: the resolve and recompute-sla handlers, running  *)
(* concurrently with each other and with the edits of an outage.           *)
(*                                                                         *)
(* Each handler is a sequence of database transactions.  A step of the     *)
(* model is a statement at which the handler can be overtaken: a commit, a *)
(* read whose value it keeps, or a lock it may have to wait for.  Tables   *)
(* are partial functions: DOMAIN outage is the set of ids with a row.  A   *)
(* request inserts at most one SLA row and at most one payment, so a row   *)
(* is named by the request that inserted it.                               *)
(*                                                                         *)
(* PostgreSQL (READ COMMITTED) is external: every lock, the transaction-   *)
(* scoped advisory ones included, is released when its holder commits or   *)
(* rolls back; a FOR UPDATE on an outage makes inserts of rows that        *)
(* reference it wait (their foreign key takes a share lock on it).         *)
(* The tables are those of the ORM with the constraints and indexes of the *)
(* migrations.                                                             *)
(* Not modelled here: the audit log (its own table and session), the       *)
(* analytics cache and the delivery of the webhooks that Notify triggers.  *)
(***************************************************************************)
EXTENDS SlaCalculator, FiniteSets

CONSTANTS
    Outages,     \* outage ids
    Requests,    \* the POST .../resolve and .../recompute-sla requests
    Mttrs,       \* values of mttr_minutes a resolve request may carry
    Times,       \* values of resolved_at
    MaxEdits,    \* bound: PUT, PATCH and DELETE requests
    None         \* SQL NULL, and "nobody"

ASSUME SettlementAssumption ==
    /\ Mttrs \subseteq Int
    /\ MaxEdits \in Nat
    /\ None \notin Requests /\ None \notin Times
    /\ None \notin Mttrs /\ None \notin Severities

VARIABLES
    outage,      \* table outages, with each outage's events
    sla,         \* table sla_results
    payment,     \* table payment_transactions
    notified,    \* <<request, SLA row>>: violation webhooks triggered
    lock,        \* PostgreSQL lock -> the request that holds it
    pc,          \* request -> its next step, or how it ended
    req,         \* request -> its local variables
    edits        \* PUT, PATCH and DELETE requests so far

tables == <<outage, sla, payment, notified>>
vars == <<outage, sla, payment, notified, lock, pc, req, edits>>

-----------------------------------------------------------------------------
(* Rows, locks and steps.                                                  *)

ResolvedAt == Times \cup {None}

SlaStatus ==
    [status : {"met", "violated"}, mttr_minutes : Int, threshold_minutes : Nat]

EventTypes == {"created", "updated", "resolved", "sla_computed", "sla_recomputed"}

Outage ==
    [status : {"open", "resolved"}, severity : Severities,
     mttr_minutes : Mttrs \cup {None}, resolved_at : ResolvedAt,
     sla_status : SlaStatus \cup {None}, events : SUBSET EventTypes]

\* compute_hash digests outage, detected_at, resolved_at and the constant
\* policy version; detected_at never changes, so resolved_at stands for it.
SlaRow ==
    [outage : Outages, compute_hash : ResolvedAt, is_latest : BOOLEAN,
     result : SLAResult]

Payment ==
    [sla_result_id : Requests, outage : Outages,
     type : {"reward", "penalty"}, amount : Nat]

ResolveLock(o)   == <<"resolve", o>>     \* advisory, key resolve:<id>
RecomputeLock(o) == <<"recompute", o>>   \* advisory, key sla_recompute:<id>
RowLock(o)       == <<"outage", o>>      \* outages row, FOR UPDATE
LatestLock(s)    == <<"sla", s>>         \* sla_results row, FOR UPDATE

Locks == ({"resolve", "recompute", "outage"} \X Outages) \cup ({"sla"} \X Requests)

Steps == {"resolve", "resolved_event", "recompute", "find", "latest",
          "wait_latest", "insert", "computed_event", "sla_status", "find_payment",
          "insert_payment", "notify", "recomputed_event"}

\* How a request ends: its HTTP status, or the death of its process.
Ends == {"200", "400", "404", "500", "503", "crashed"}

\* The local variables of a handler.
Request ==
    [kind : {"resolve", "recompute", None}, outage : Outages \cup {None},
     severity : Severities \cup {None}, mttr : Mttrs \cup {None},
     resolved_at : ResolvedAt, latest : Requests \cup {None},
     row : Requests \cup {None}]

Unused == [kind |-> None, outage |-> None, severity |-> None, mttr |-> None,
           resolved_at |-> None, latest |-> None, row |-> None]

Init ==
    /\ outage = [o \in {} |-> None]
    /\ sla = [s \in {} |-> None]
    /\ payment = [p \in {} |-> None]
    /\ notified = {}
    /\ lock = [l \in Locks |-> None]
    /\ pc = [r \in Requests |-> "start"]
    /\ req = [r \in Requests |-> Unused]
    /\ edits = 0

Exists(o) == o \in DOMAIN outage

Free(r, l) == lock[l] \in {None, r}

\* Commit or rollback: every lock of the transaction is released.
Release(r) == lock' = [l \in Locks |-> IF lock[l] = r THEN None ELSE lock[l]]

Acquire(r, l) == lock' = [lock EXCEPT ![l] = r]

NeverContended(l) == FALSE

\* advisory_lock_nowait: pg_try_advisory_xact_lock refuses a held lock.
Contended(l) == lock[l] # None

GetOrm(r, o) == UNCHANGED lock

\* get_orm_locked, once no other transaction holds the row.
GetOrmLocked(r, o) == Acquire(r, RowLock(o))

Goto(r, step) == pc' = [pc EXCEPT ![r] = step]

\* A session that is never closed keeps its transaction, and its locks.
FailLeaking(r, code) ==
    /\ Goto(r, code)
    /\ UNCHANGED <<lock, tables, edits>>

\* The handler raises: its session is closed, which rolls back.
Fail(r, code) ==
    /\ Goto(r, code)
    /\ Release(r)
    /\ UNCHANGED <<tables, edits>>

Rows(o) == {s \in DOMAIN sla : sla[s].outage = o}

LatestRows(o) == {s \in Rows(o) : sla[s].is_latest}

\* find_by_compute_hash; a row without a hash matches nothing.
SameHash(o, hash) == {s \in Rows(o) : hash # None /\ sla[s].compute_hash = hash}

PaymentsOf(s) == {p \in DOMAIN payment : payment[p].sla_result_id = s}

-----------------------------------------------------------------------------
(* POST /outages, PUT and PATCH /outages/{id}, DELETE /outages/{id}.  An   *)
(* UPDATE or DELETE waits for the row lock a recompute holds.              *)

CreateOutage(o) ==
    /\ ~Exists(o)
    /\ \E status \in {"open", "resolved"}, severity \in Severities :
          outage' = [i \in DOMAIN outage \cup {o} |->
                       IF i # o THEN outage[i]
                       ELSE [status |-> status, severity |-> severity,
                             mttr_minutes |-> None, resolved_at |-> None,
                             sla_status |-> None, events |-> {"created"}]]
    /\ UNCHANGED <<sla, payment, notified, lock, pc, req, edits>>

ALLOWED_STATUS_TRANSITIONS == {<<"open", "open">>, <<"open", "resolved">>,
                               <<"resolved", "resolved">>}

\* A field the payload leaves out keeps its value, which is one of the values
\* chosen here; a rejected transition changes nothing.  PATCH differs only in
\* the name of its event.
UpdateOutage(o) ==
    /\ Exists(o)
    /\ edits < MaxEdits
    /\ lock[RowLock(o)] = None
    /\ \E status \in {"open", "resolved"}, severity \in Severities,
          resolved_at \in ResolvedAt :
          /\ <<outage[o].status, status>> \in ALLOWED_STATUS_TRANSITIONS
          /\ outage' = [outage EXCEPT ![o].status = status,
                                      ![o].severity = severity,
                                      ![o].resolved_at = resolved_at,
                                      ![o].events = @ \cup {"updated"}]
    /\ edits' = edits + 1
    /\ UNCHANGED <<sla, payment, notified, lock, pc, req>>

NoHistoryCheck(o) == FALSE

\* Read by the handler, and held at the DELETE by ON DELETE RESTRICT.
HasFinancialHistory(o) ==
    \/ Rows(o) # {}
    \/ \E p \in DOMAIN payment : payment[p].outage = o

\* The outage's events go with it (ON DELETE CASCADE).
DeleteOutage(o) ==
    /\ Exists(o)
    /\ edits < MaxEdits
    /\ lock[RowLock(o)] = None
    /\ ~HasFinancialHistory(o)
    /\ outage' = [i \in DOMAIN outage \ {o} |-> outage[i]]
    /\ edits' = edits + 1
    /\ UNCHANGED <<sla, payment, notified, lock, pc, req>>

-----------------------------------------------------------------------------
(* POST /outages/{id}/resolve                                              *)

\* Under the advisory lock the handler first reads the outage.  For a resolved
\* one it compares existing.mttr_minutes, an attribute the Outage model does not
\* have: the AttributeError ends the request as 503.  A held lock ends it as
\* 500: constructing ConcurrencyLockError raises a TypeError itself.
ResolveBegin(r) ==
    /\ pc[r] = "start"
    /\ \E o \in Outages, m \in Mttrs :
          /\ req' = [req EXCEPT ![r] = [@ EXCEPT !.kind = "resolve", !.outage = o, !.mttr = m]]
          /\ \/ /\ Contended(ResolveLock(o))
                /\ Fail(r, "500")
             \/ /\ ~Contended(ResolveLock(o))
                /\ Exists(o) /\ outage[o].status = "resolved"
                /\ Fail(r, "503")
             \/ /\ ~Contended(ResolveLock(o))
                /\ Exists(o) => outage[o].status = "open"
                /\ Acquire(r, ResolveLock(o))
                /\ Goto(r, "resolve")
                /\ UNCHANGED <<tables, edits>>

\* OutageRepository.resolve: FOR UPDATE, then the write and its commit.  An
\* outage found resolved with the same MTTR is returned without a commit.
ResolveOutage(r) ==
    LET o == req[r].outage
        replay == outage[o].status = "resolved" /\ outage[o].mttr_minutes = req[r].mttr
    IN  /\ pc[r] = "resolve"
        /\ \/ /\ ~Exists(o)
              /\ Fail(r, "503")
              /\ UNCHANGED req
           \/ /\ Exists(o)
              /\ Free(r, RowLock(o))
              /\ \E now \in Times :
                    outage' = IF replay THEN outage
                              ELSE [outage EXCEPT ![o].status = "resolved",
                                                  ![o].mttr_minutes = req[r].mttr,
                                                  ![o].resolved_at = now]
              /\ IF replay THEN GetOrmLocked(r, o) ELSE Release(r)
              /\ Goto(r, "resolved_event")
              /\ UNCHANGED <<sla, payment, notified, req, edits>>

\* The refresh after the commit reads the values the calculation uses; the
\* event is a transaction of its own and needs the outage to exist.
ResolvedEvent(r) ==
    LET o == req[r].outage
    IN  /\ pc[r] = "resolved_event"
        /\ \/ /\ ~Exists(o)
              /\ Fail(r, "503")
              /\ UNCHANGED req
           \/ /\ Exists(o)
              /\ Free(r, RowLock(o))
              /\ outage' = [outage EXCEPT ![o].events = @ \cup {"resolved"}]
              /\ req' = [req EXCEPT ![r] = [@ EXCEPT !.severity = outage[o].severity,
                                                     !.resolved_at = outage[o].resolved_at]]
              /\ Release(r)
              /\ Goto(r, "find")
              /\ UNCHANGED <<sla, payment, notified, edits>>

-----------------------------------------------------------------------------
(* POST /outages/{id}/recompute-sla                                        *)

\* The severity is the one read here, before any lock.
RecomputeBegin(r) ==
    /\ pc[r] = "start"
    /\ \E o \in Outages :
          \/ /\ ~Exists(o)
             /\ req' = [req EXCEPT ![r] = [@ EXCEPT !.kind = "recompute", !.outage = o]]
             /\ Fail(r, "404")
          \/ /\ Exists(o)
             /\ req' = [req EXCEPT ![r] = [@ EXCEPT !.kind = "recompute", !.outage = o,
                                                    !.severity = outage[o].severity]]
             /\ \/ /\ outage[o].status # "resolved"
                   /\ Fail(r, "400")
                \/ /\ outage[o].status = "resolved"
                   /\ Contended(RecomputeLock(o))
                   /\ Fail(r, "500")
                \/ /\ outage[o].status = "resolved"
                   /\ ~Contended(RecomputeLock(o))
                   /\ Acquire(r, RecomputeLock(o))
                   /\ Goto(r, "recompute")
                   /\ UNCHANGED <<tables, edits>>

\* get_orm_locked.  An outage without an MTTR fails the comparison with the
\* threshold.  The row lock is kept until the first commit.
RecomputeRow(r) ==
    LET o == req[r].outage
    IN  /\ pc[r] = "recompute"
        /\ \/ /\ ~Exists(o)
              /\ Fail(r, "503")
              /\ UNCHANGED req
           \/ /\ Exists(o)
              /\ Free(r, RowLock(o))
              /\ outage[o].mttr_minutes = None
              /\ Fail(r, "503")
              /\ UNCHANGED req
           \/ /\ Exists(o)
              /\ Free(r, RowLock(o))
              /\ outage[o].mttr_minutes # None
              /\ req' = [req EXCEPT ![r] = [@ EXCEPT !.mttr = outage[o].mttr_minutes,
                                                     !.resolved_at = outage[o].resolved_at]]
              /\ GetOrmLocked(r, o)
              /\ Goto(r, "find")
              /\ UNCHANGED <<tables, edits>>

-----------------------------------------------------------------------------
(* SLARepository.create_if_changed, called by both handlers                *)

AfterStore(r) == IF req[r].kind = "resolve" THEN "computed_event" ELSE "sla_status"

\* A row of the same compute_hash is returned as it is.  The comparison with
\* the latest row never succeeds: a stored row has an id, the new one has none.
FindByComputeHash(r) ==
    LET same == SameHash(req[r].outage, req[r].resolved_at)
    IN  /\ pc[r] = "find"
        /\ \/ /\ same = {}
              /\ Goto(r, "latest")
              /\ UNCHANGED req
           \/ \E s \in same :
              /\ req' = [req EXCEPT ![r] = [@ EXCEPT !.row = s]]
              /\ Goto(r, AfterStore(r))
        /\ UNCHANGED <<tables, lock, edits>>

\* SELECT ... WHERE is_latest FOR UPDATE, as the statement's snapshot sees it.
LockLatest(r) ==
    LET latest == LatestRows(req[r].outage)
    IN  /\ pc[r] = "latest"
        /\ \/ /\ latest = {}
              /\ Goto(r, "insert")
              /\ UNCHANGED <<lock, req>>
           \/ \E s \in latest :
              /\ req' = [req EXCEPT ![r] = [@ EXCEPT !.latest = s]]
              /\ \/ /\ Free(r, LatestLock(s))
                    /\ Acquire(r, LatestLock(s))
                    /\ Goto(r, "insert")
                 \/ /\ ~Free(r, LatestLock(s))
                    /\ Goto(r, "wait_latest")
                    /\ UNCHANGED lock
        /\ UNCHANGED <<tables, edits>>

\* Once the holder is done the row is checked again: one that is no longer the
\* latest is skipped, and the newer latest row is not in the snapshot.
LatestUnlocked(r) ==
    LET s == req[r].latest
    IN  /\ pc[r] = "wait_latest"
        /\ Free(r, LatestLock(s))
        /\ \/ /\ sla[s].is_latest
              /\ Acquire(r, LatestLock(s))
              /\ UNCHANGED req
           \/ /\ ~sla[s].is_latest
              /\ req' = [req EXCEPT ![r] = [@ EXCEPT !.latest = None]]
              /\ UNCHANGED lock
        /\ Goto(r, "insert")
        /\ UNCHANGED <<tables, edits>>

\* Without the partial unique index of migration 0011.
InsertAllowedNoLatestIndex(r) ==
    LET o == req[r].outage
    IN  Exists(o) /\ SameHash(o, req[r].resolved_at) = {}

\* The constraints of sla_results: foreign key, UNIQUE (outage_id, compute_hash)
\* and the partial unique index over the latest rows.
InsertAllowed(r) ==
    LET o == req[r].outage
    IN  /\ Exists(o)
        /\ SameHash(o, req[r].resolved_at) = {}
        /\ req[r].latest = None => LatestRows(o) = {}

\* is_latest set only for an outage's first result.
WithNewLatestFirstOnly(r) ==
    LET o == req[r].outage
    IN  [s \in DOMAIN sla \cup {r} |->
           IF s = r
           THEN [outage |-> o, compute_hash |-> req[r].resolved_at,
                 is_latest |-> req[r].latest = None,
                 result |-> SettledResult(req[r].severity, req[r].mttr)]
           ELSE IF sla[s].outage = o /\ req[r].latest # None
                THEN [sla[s] EXCEPT !.is_latest = FALSE]
                ELSE sla[s]]

\* The rows after the demotion of the latest row, if one was found, and the
\* insert of the new one.
WithNewLatest(r) ==
    LET o == req[r].outage
    IN  [s \in DOMAIN sla \cup {r} |->
           IF s = r
           THEN [outage |-> o, compute_hash |-> req[r].resolved_at, is_latest |-> TRUE,
                 result |-> SettledResult(req[r].severity, req[r].mttr)]
           ELSE IF sla[s].outage = o /\ req[r].latest # None
                THEN [sla[s] EXCEPT !.is_latest = FALSE]
                ELSE sla[s]]

\* SLARepository.create: demotion, insert and commit.
InsertResult(r) ==
    /\ pc[r] = "insert"
    /\ Exists(req[r].outage) => Free(r, RowLock(req[r].outage))
    /\ \/ /\ ~InsertAllowed(r)
          /\ Fail(r, "503")
          /\ UNCHANGED req
       \/ /\ InsertAllowed(r)
          /\ sla' = WithNewLatest(r)
          /\ req' = [req EXCEPT ![r] = [@ EXCEPT !.row = r]]
          /\ Release(r)
          /\ Goto(r, AfterStore(r))
          /\ UNCHANGED <<outage, payment, notified, edits>>

-----------------------------------------------------------------------------
(* The rest of both handlers, each step a transaction of its own           *)

ComputedEvent(r) ==
    LET o == req[r].outage
    IN  /\ pc[r] = "computed_event"
        /\ Free(r, RowLock(o))
        /\ outage' = [outage EXCEPT ![o].events = @ \cup {"sla_computed"}]
        /\ Release(r)
        /\ Goto(r, "sla_status")
        /\ UNCHANGED <<sla, payment, notified, req, edits>>

StatusOf(result) ==
    [status |-> result.status, mttr_minutes |-> result.mttr_minutes,
     threshold_minutes |-> result.threshold_minutes]

\* The denormalized copy on the outage row.
WriteSlaStatus(r) ==
    LET o == req[r].outage
    IN  /\ pc[r] = "sla_status"
        /\ Free(r, RowLock(o))
        /\ outage' = [outage EXCEPT ![o].sla_status = StatusOf(sla[req[r].row].result)]
        /\ Release(r)
        /\ Goto(r, "find_payment")
        /\ UNCHANGED <<sla, payment, notified, req, edits>>

\* The webhook is triggered before the payment exists.
FindPaymentLater(r) ==
    /\ pc[r] = "find_payment"
    /\ Goto(r, "notify")
    /\ UNCHANGED <<tables, lock, req, edits>>

\* get_by_sla_result.  FOR UPDATE finds nothing to lock when there is no row.
FindPayment(r) ==
    /\ pc[r] = "find_payment"
    /\ Goto(r, IF PaymentsOf(req[r].row) = {} THEN "insert_payment" ELSE "notify")
    /\ UNCHANGED <<tables, lock, req, edits>>

AbsMissing(n) == n

Abs(n) == IF n < 0 THEN -n ELSE n

PaymentFor(o, s) ==
    [sla_result_id |-> s, outage |-> o, type |-> sla[s].result.payment_type,
     amount |-> Abs(sla[s].result.amount)]

PaymentNotUnique(r) == TRUE

\* sla_result_id is UNIQUE, and so is (outage_id, type): an outage is paid at
\* most once in each direction, and a second insert fails.
PaymentAllowed(r) ==
    /\ PaymentsOf(req[r].row) = {}
    /\ \A p \in DOMAIN payment :
          payment[p].outage = req[r].outage
              => payment[p].type # sla[req[r].row].result.payment_type

InsertPayment(r) ==
    LET o == req[r].outage
    IN  /\ pc[r] = "insert_payment"
        /\ Free(r, RowLock(o))
        /\ \/ /\ ~PaymentAllowed(r)
              /\ Fail(r, "503")
           \/ /\ PaymentAllowed(r)
              /\ payment' = [p \in DOMAIN payment \cup {r} |->
                               IF p = r THEN PaymentFor(o, req[r].row) ELSE payment[p]]
              /\ Release(r)
              /\ Goto(r, "notify")
              /\ UNCHANGED <<outage, sla, notified, edits>>
        /\ UNCHANGED req

\* trigger_sla_violation_webhooks
Notify(r) ==
    /\ pc[r] = "notify"
    /\ notified' = IF sla[req[r].row].result.status = "violated"
                   THEN notified \cup {<<r, req[r].row>>} ELSE notified
    /\ Goto(r, IF req[r].kind = "resolve" THEN "200" ELSE "recomputed_event")
    /\ UNCHANGED <<outage, sla, payment, lock, req, edits>>

RecomputedEvent(r) ==
    LET o == req[r].outage
    IN  /\ pc[r] = "recomputed_event"
        /\ Free(r, RowLock(o))
        /\ outage' = [outage EXCEPT ![o].events = @ \cup {"sla_recomputed"}]
        /\ Release(r)
        /\ Goto(r, "200")
        /\ UNCHANGED <<sla, payment, notified, req, edits>>

-----------------------------------------------------------------------------
(* Failures                                                                *)

Running(r) == pc[r] \in Steps

\* The worker dies, or the connection drops: PostgreSQL rolls back.
Crash(r) ==
    /\ Running(r)
    /\ Fail(r, "crashed")
    /\ UNCHANGED req

\* The lock a request waits for, if any.
WantedLock(r) ==
    CASE pc[r] = "wait_latest" -> {LatestLock(req[r].latest)}
      [] pc[r] \in {"resolve", "recompute", "insert"} -> {RowLock(req[r].outage)}
      [] OTHER -> {}

WaitsFor(r, q) == r # q /\ \E l \in WantedLock(r) : lock[l] = q

\* PostgreSQL's deadlock detector aborts one transaction of a cycle.  A cycle
\* is a recompute holding the outage row and waiting for the latest SLA row,
\* and a request holding that row whose insert waits for the outage row.
BreakDeadlock(r) ==
    /\ \E q \in Requests : WaitsFor(r, q) /\ WaitsFor(q, r)
    /\ Fail(r, "503")
    /\ UNCHANGED req

-----------------------------------------------------------------------------
(* One step of a request that has begun.                                   *)
Step(r) ==
    \/ ResolveOutage(r) \/ ResolvedEvent(r) \/ RecomputeRow(r)
    \/ FindByComputeHash(r) \/ LockLatest(r) \/ LatestUnlocked(r) \/ InsertResult(r)
    \/ ComputedEvent(r) \/ WriteSlaStatus(r) \/ FindPayment(r) \/ InsertPayment(r)
    \/ Notify(r) \/ RecomputedEvent(r) \/ BreakDeadlock(r)

Next ==
    \/ \E o \in Outages : CreateOutage(o) \/ UpdateOutage(o) \/ DeleteOutage(o)
    \/ \E r \in Requests : ResolveBegin(r) \/ RecomputeBegin(r) \/ Step(r) \/ Crash(r)

Spec == Init /\ [][Next]_vars

\* A worker keeps executing a request it has begun, and PostgreSQL hands a
\* released lock to a waiter and aborts deadlocked transactions.  Nothing makes
\* a client send a request, an editor edit or a worker crash.
Fairness == \A r \in Requests : WF_vars(Step(r))

FairSpec == Spec /\ Fairness

-----------------------------------------------------------------------------
(* Properties                                                              *)

\* Every variable holds what its table, column or local variable can hold.
TypeOK ==
    /\ DOMAIN outage \subseteq Outages
    /\ \A o \in DOMAIN outage : outage[o] \in Outage
    /\ DOMAIN sla \subseteq Requests
    /\ \A s \in DOMAIN sla : sla[s] \in SlaRow
    /\ DOMAIN payment \subseteq Requests
    /\ \A p \in DOMAIN payment : payment[p] \in Payment
    /\ notified \subseteq Requests \X Requests
    /\ lock \in [Locks -> Requests \cup {None}]
    /\ pc \in [Requests -> Steps \cup Ends \cup {"start"}]
    /\ req \in [Requests -> Request]
    /\ edits \in 0 .. MaxEdits

\* An outage with SLA results has exactly one latest result, whatever requests
\* raced to store theirs and wherever one of them died: the demotion and the
\* insert of SLARepository.create are one transaction, and a writer that lost
\* its turn is stopped by the unique index.
ExactlyOneLatest ==
    \A o \in Outages : Rows(o) # {} => \E s \in Rows(o) : LatestRows(o) = {s}

\* One payment per SLA result, for the result's outage, amount and direction:
\* two requests that settle the same result never pay it twice.
PaidOncePerResult ==
    \A p \in DOMAIN payment :
        LET s == payment[p].sla_result_id
        IN  /\ s \in DOMAIN sla
            /\ PaymentsOf(s) = {p}
            /\ payment[p] = PaymentFor(sla[s].outage, s)

\* An outage is paid at most once in each direction, however many results are
\* stored for it one after another.
PaidOncePerDirection ==
    \A p, q \in DOMAIN payment :
        payment[p].outage = payment[q].outage /\ payment[p].type = payment[q].type
            => p = q

\* No two results of an outage share a compute_hash, so a settled
\* (outage, resolved_at) is never settled under the same hash again.
ComputeHashUnique ==
    \A s, t \in DOMAIN sla :
        s # t /\ sla[s].outage = sla[t].outage /\ sla[s].compute_hash # None
            => sla[s].compute_hash # sla[t].compute_hash

\* An outage that was settled is never deleted, however the deletion races
\* with the requests that settle it.
SettledOutageKept == \A s \in DOMAIN sla : sla[s].outage \in DOMAIN outage

\* A recompute stores its result from the MTTR and the resolved_at the outage
\* still has at that moment: its row lock keeps editors and resolvers out.
RecomputeInputsFresh ==
    \A r \in Requests :
        LET o == req[r].outage
        IN  req[r].kind = "recompute"
              /\ pc[r] \in {"find", "latest", "wait_latest", "insert"}
            => /\ o \in DOMAIN outage
               /\ req[r].mttr = outage[o].mttr_minutes
               /\ req[r].resolved_at = outage[o].resolved_at

\* The webhook for a violation goes out only for a violated result that has
\* its penalty payment recorded.
NotifiedAfterPayment ==
    \A n \in notified :
        /\ n[2] \in DOMAIN sla
        /\ sla[n[2]].result.status = "violated"
        /\ PaymentsOf(n[2]) # {}

\* The recorded MTTR of an outage is written once: no second resolve, however it
\* is interleaved, replaces the number the first one settled on.  Only the
\* deletion of the outage removes it.
MttrWrittenOnce ==
    [][\A o \in DOMAIN outage \cap DOMAIN outage' :
          outage[o].mttr_minutes # None
              => outage'[o].mttr_minutes = outage[o].mttr_minutes]_vars

\* A stored SLA result is never altered except that it stops being the latest,
\* and it does so only in the transaction that stores its successor.
ResultsOnlySuperseded ==
    [][\A s \in DOMAIN sla :
          /\ s \in DOMAIN sla'
          /\ sla'[s] # sla[s] =>
                /\ sla'[s] = [sla[s] EXCEPT !.is_latest = FALSE]
                /\ \E t \in DOMAIN sla' \ DOMAIN sla :
                      sla'[t].outage = sla[s].outage /\ sla'[t].is_latest]_vars

\* What the recompute-sla docstring and the design document promise: re-running
\* with unchanged inputs returns the prior row, so two recomputes that read the
\* same severity, MTTR and resolved_at settle on the same row.
UnchangedInputsSameResult ==
    \A r, q \in {x \in Requests : req[x].kind = "recompute" /\ req[x].row # None} :
        (/\ req[r].outage = req[q].outage /\ req[r].severity = req[q].severity
         /\ req[r].mttr = req[q].mttr /\ req[r].resolved_at = req[q].resolved_at)
        => req[r].row = req[q].row

\* What the resolve docstring promises: a resolve of an outage already resolved
\* with the same MTTR is idempotent, so it is not refused.
ResolveReplayAccepted ==
    [][\A r \in Requests :
          LET o == req'[r].outage
          IN  (/\ pc[r] = "start" /\ pc'[r] # "start"
               /\ req'[r].kind = "resolve" /\ ~Contended(ResolveLock(o))
               /\ Exists(o) /\ outage[o].mttr_minutes = req'[r].mttr)
              => pc'[r] # "503"]_vars

\* Every request that has begun is answered or dies; none waits for ever on
\* the locks of the others.  (A request begins once, so from some moment on no
\* request is under way.)
EveryRequestEnds == <>[](\A r \in Requests : ~Running(r))

=============================================================================
