-------------------------- MODULE PaymentLifecycle --------------------------
(***************************************************************************)
(* The status of a payment after settlement created it: the reconcile and  *)
(* retry endpoints, the callback of the payment provider, and the store of *)
(* single-use nonces that guards the callback.                             *)
(*                                                                         *)
(* PaymentRepository reads a row, validates the transition and writes, in  *)
(* one transaction and without locking the row: the read and the write are *)
(* two steps.  A handler runs one request after another; a process is a    *)
(* worker with its handlers and its in-memory nonces.  Requests that only  *)
(* answer 400, 401 or 404 leave no trace and are left out; the audit log   *)
(* has its own module in the plan.                                         *)
(*                                                                         *)
(* Redis is external: any call may fail, and the process then does without *)
(* it for a while.  A nonce lives for five minutes, longer than a request. *)
(***************************************************************************)
EXTENDS Naturals, FiniteSets

CONSTANTS
    Payments,       \* payment ids
    Handlers,       \* threads that serve the payment endpoints
    Processes,      \* the worker processes
    ProcessOf,      \* handler -> its process
    Nonces,         \* callback nonces
    MAX_RETRIES,    \* PaymentRepository.MAX_RETRIES
    MaxFallback,    \* MAX_FALLBACK_TOKENS
    None            \* no payment, no nonce, no store

ASSUME PaymentAssumption ==
    /\ ProcessOf \in [Handlers -> Processes]
    /\ MAX_RETRIES \in Nat /\ MaxFallback \in Nat
    /\ None \notin Payments /\ None \notin Nonces
    /\ "redis" \notin Processes

VARIABLES
    payment,     \* table payment_transactions
    used,        \* nonces registered in Redis
    fallback,    \* process -> nonces registered in its memory
    tripped,     \* processes that do without Redis for now
    pc,          \* handler -> its next step
    req          \* handler -> its local variables

nonceVars == <<used, fallback, tripped>>
vars == <<payment, used, fallback, tripped, pc, req>>

-----------------------------------------------------------------------------

PaymentStatus == {"pending", "confirmed", "failed"}

\* Whatever text a client may send as a status.
Requested == PaymentStatus \cup {"other"}

VALID_TRANSITIONS ==
    {<<"pending", "confirmed">>, <<"pending", "failed">>, <<"failed", "pending">>}

\* confirmed_at is TRUE when the column is not NULL.
Row == [status : PaymentStatus, retry_count : 0 .. MAX_RETRIES, confirmed_at : BOOLEAN]

NewRow == [status |-> "pending", retry_count |-> 0, confirmed_at |-> FALSE]

\* Where a nonce was registered.
Stores == {"redis"} \cup Processes

Steps == {"lookup", "reconcile", "write", "after", "retry", "write_retry"}

\* The row `seen' is the one the handler validated and is about to write.
Request ==
    [id : Payments \cup {None}, status : Requested, nonce : Nonces \cup {None},
     store : Stores \cup {None}, seen : Row]

NoRequest == [id |-> None, status |-> "other", nonce |-> None, store |-> None,
              seen |-> NewRow]

Init ==
    /\ payment = [p \in {} |-> NewRow]
    /\ used = {}
    /\ fallback = [q \in Processes |-> {}]
    /\ tripped = {}
    /\ pc = [h \in Handlers |-> "idle"]
    /\ req = [h \in Handlers |-> NoRequest]

Goto(h, step) ==
    /\ pc' = [pc EXCEPT ![h] = step]
    /\ UNCHANGED req

\* The request is answered, or its exception is.
Done(h) ==
    /\ pc' = [pc EXCEPT ![h] = "idle"]
    /\ req' = [req EXCEPT ![h] = NoRequest]

See(h, step) ==
    /\ pc' = [pc EXCEPT ![h] = step]
    /\ req' = [req EXCEPT ![h] = [@ EXCEPT !.seen = payment[req[h].id]]]

Exists(p) == p \in DOMAIN payment

-----------------------------------------------------------------------------
(* Settlement inserts the row.                                             *)

Create(p) ==
    /\ ~Exists(p)
    /\ payment' = [i \in DOMAIN payment \cup {p} |-> IF i = p THEN NewRow ELSE payment[i]]
    /\ UNCHANGED <<nonceVars, pc, req>>

-----------------------------------------------------------------------------
(* POST .../reconcile, .../retry and .../retry-queue/.../retry             *)

ReconcilePayment(h, p) ==
    /\ pc[h] = "idle" /\ Exists(p)
    /\ \E s \in Requested : req' = [req EXCEPT ![h] = [@ EXCEPT !.id = p, !.status = s]]
    /\ pc' = [pc EXCEPT ![h] = "reconcile"]
    /\ UNCHANGED <<payment, nonceVars>>

RetryPayment(h, p) ==
    /\ pc[h] = "idle" /\ Exists(p)
    /\ req' = [req EXCEPT ![h] = [@ EXCEPT !.id = p]]
    /\ pc' = [pc EXCEPT ![h] = "retry"]
    /\ UNCHANGED <<payment, nonceVars>>

-----------------------------------------------------------------------------
(* POST /provider-callback: consuming the nonce                            *)

InFlight == {req[h].nonce : h \in Handlers}

\* SET NX in Redis.
ConsumeRedis(q, n) ==
    /\ q \notin tripped
    /\ n \notin used
    /\ used' = used \cup {n}
    /\ UNCHANGED <<fallback, tripped>>

\* A full map drops the entries older than the window; what is left of the
\* others is not tested for its age.
Kept(q, kept) ==
    IF Cardinality(fallback[q]) >= MaxFallback
    THEN kept \subseteq fallback[q] /\ fallback[q] \cap InFlight \subseteq kept
    ELSE kept = fallback[q]

\* Registered nonces are not looked at.
ConsumeFallbackBlind(q, n) ==
    /\ fallback' = [fallback EXCEPT ![q] = @ \cup {n}]
    /\ tripped' = tripped \cup {q}
    /\ UNCHANGED used

\* Redis fails now, or failed a moment ago: the process's own map decides.
ConsumeFallback(q, n) ==
    /\ \E kept \in SUBSET fallback[q] :
          /\ Kept(q, kept)
          /\ n \notin kept
          /\ fallback' = [fallback EXCEPT ![q] = kept \cup {n}]
    /\ tripped' = tripped \cup {q}
    /\ UNCHANGED used

\* A nonce that is not new to the process's map: 409.  (One that is not new to
\* Redis leaves no trace.)
RefuseReplay(q) ==
    /\ \E n \in Nonces, kept \in SUBSET fallback[q] :
          /\ Kept(q, kept)
          /\ n \in kept
          /\ fallback' = [fallback EXCEPT ![q] = kept]
    /\ tripped' = tripped \cup {q}
    /\ UNCHANGED <<payment, used, pc, req>>

\* A callback whose signature is valid and whose nonce is new to the store
\* that was asked.
ProviderCallback(h, p) ==
    LET q == ProcessOf[h]
    IN  /\ pc[h] = "idle"
        /\ \E s \in Requested, n \in Nonces, store \in {"redis", q} :
              /\ \/ store = "redis" /\ ConsumeRedis(q, n)
                 \/ store = q /\ ConsumeFallback(q, n)
              /\ req' = [req EXCEPT ![h] = [@ EXCEPT !.id = p, !.status = s, !.nonce = n,
                                                     !.store = store]]
        /\ pc' = [pc EXCEPT ![h] = "lookup"]
        /\ UNCHANGED payment

\* An unknown payment is 404, one that has the status already is returned.
CallbackLookup(h) ==
    LET p == req[h].id
    IN  /\ pc[h] = "lookup"
        /\ \/ /\ Exists(p) => payment[p].status = req[h].status
              /\ Done(h)
           \/ /\ Exists(p) /\ payment[p].status # req[h].status
              /\ Goto(h, "reconcile")
        /\ UNCHANGED <<payment, nonceVars>>

-----------------------------------------------------------------------------
(* PaymentRepository.reconcile and retry                                   *)

ValidateNothing(current, next) == next \in PaymentStatus

\* validate_transition
Validate(current, next) == <<current, next>> \in VALID_TRANSITIONS

ReconcileRead(h) ==
    /\ pc[h] = "reconcile"
    /\ \/ /\ Validate(payment[req[h].id].status, req[h].status)
          /\ See(h, "write")
       \/ /\ ~Validate(payment[req[h].id].status, req[h].status)
          /\ Done(h)
    /\ UNCHANGED <<payment, nonceVars>>

Reconciled(row, s) ==
    [row EXCEPT !.status = s, !.confirmed_at = @ \/ s = "confirmed"]

\* The columns it changes are written whatever the row holds by now.  Only the
\* callback goes on.
ReconcileWrite(h) ==
    /\ pc[h] = "write"
    /\ payment' = [payment EXCEPT ![req[h].id] = Reconciled(@, req[h].status)]
    /\ IF req[h].nonce = None THEN Done(h) ELSE Goto(h, "after")
    /\ UNCHANGED nonceVars

\* The refreshed row decides whether a failed payment is retried.
AutoRetry(h) ==
    LET retry == /\ req[h].status = "failed"
                 /\ payment[req[h].id].retry_count < MAX_RETRIES
    IN  /\ pc[h] = "after"
        /\ IF retry THEN Goto(h, "retry") ELSE Done(h)
        /\ UNCHANGED <<payment, nonceVars>>

RetryAllowedOneMore(row) == row.retry_count <= MAX_RETRIES

RetryAllowed(row) == row.retry_count < MAX_RETRIES

RetryRead(h) ==
    LET row == payment[req[h].id]
        ok == RetryAllowed(row) /\ Validate(row.status, "pending")
    IN  /\ pc[h] = "retry"
        /\ IF ok THEN See(h, "write_retry") ELSE Done(h)
        /\ UNCHANGED <<payment, nonceVars>>

\* The counter written is the one that was read, plus one.
RetryWrite(h) ==
    /\ pc[h] = "write_retry"
    /\ payment' = [payment EXCEPT ![req[h].id] =
                     [@ EXCEPT !.status = "pending",
                               !.retry_count = req[h].seen.retry_count + 1]]
    /\ Done(h)
    /\ UNCHANGED nonceVars

-----------------------------------------------------------------------------
(* The environment                                                         *)

NonceExpires(n) ==
    /\ n \in used \ InFlight
    /\ used' = used \ {n}
    /\ UNCHANGED <<payment, fallback, tripped, pc, req>>

CircuitCloses(q) ==
    /\ q \in tripped
    /\ tripped' = tripped \ {q}
    /\ UNCHANGED <<payment, used, fallback, pc, req>>

\* A worker process dies: open transactions roll back and its memory is lost.
Crash(q) ==
    LET mine == {h \in Handlers : ProcessOf[h] = q}
    IN  /\ \E h \in mine : pc[h] # "idle"
        /\ pc' = [h \in Handlers |-> IF h \in mine THEN "idle" ELSE pc[h]]
        /\ req' = [h \in Handlers |-> IF h \in mine THEN NoRequest ELSE req[h]]
        /\ fallback' = [fallback EXCEPT ![q] = {}]
        /\ tripped' = tripped \ {q}
        /\ UNCHANGED <<payment, used>>

Next ==
    \/ \E p \in Payments : Create(p)
    \/ \E h \in Handlers, p \in Payments :
          ReconcilePayment(h, p) \/ RetryPayment(h, p) \/ ProviderCallback(h, p)
    \/ \E h \in Handlers :
          \/ CallbackLookup(h) \/ ReconcileRead(h) \/ ReconcileWrite(h)
          \/ AutoRetry(h) \/ RetryRead(h) \/ RetryWrite(h)
    \/ \E n \in Nonces : NonceExpires(n)
    \/ \E q \in Processes : RefuseReplay(q) \/ CircuitCloses(q) \/ Crash(q)

Spec == Init /\ [][Next]_vars

-----------------------------------------------------------------------------
(* Properties                                                              *)

\* Rows, stores and local variables hold what they can hold; in particular no
\* interleaving of retries takes retry_count past MAX_RETRIES.
TypeOK ==
    /\ DOMAIN payment \subseteq Payments
    /\ \A p \in DOMAIN payment : payment[p] \in Row
    /\ used \subseteq Nonces
    /\ fallback \in [Processes -> SUBSET Nonces]
    /\ tripped \subseteq Processes
    /\ pc \in [Handlers -> Steps \cup {"idle"}]
    /\ req \in [Handlers -> Request]

\* A confirmed payment has its time of confirmation, whoever wrote the row last.
ConfirmedHasTime ==
    \A p \in DOMAIN payment : payment[p].status = "confirmed" => payment[p].confirmed_at

\* A callback the provider repeats while the first copy is still being handled
\* is refused: two copies are under way only if different stores admitted them,
\* which takes a failure of Redis between them.
RepeatedCallbackRefused ==
    \A h, g \in Handlers :
        req[h].nonce # None /\ req[h].nonce = req[g].nonce /\ req[h].store = req[g].store
            => h = g

\* A row that did not change since its writer validated it moves only along
\* VALID_TRANSITIONS: every breach of the policy is a lost update.
PolicyUnlessOvertaken ==
    [][\A h \in Handlers :
          LET p == req[h].id
          IN  (/\ pc[h] \in {"write", "write_retry"} /\ pc'[h] # pc[h]
               /\ payment' # payment /\ payment[p] = req[h].seen)
              => <<payment[p].status, payment'[p].status>> \in VALID_TRANSITIONS]_vars

\* What VALID_TRANSITIONS says: nothing follows confirmed.
ConfirmedIsFinal ==
    [][\A p \in DOMAIN payment :
          payment[p].status = "confirmed" => payment'[p].status = "confirmed"]_vars

=============================================================================
