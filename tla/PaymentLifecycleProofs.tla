----------------------- MODULE PaymentLifecycleProofs -----------------------
(***************************************************************************)
(* Proofs about PaymentLifecycle: its invariants for any number of         *)
(* handlers, processes, payments and nonces, and the status policy.        *)
(***************************************************************************)
EXTENDS PaymentLifecycle, TLAPS

\* Where the nonce of a callback under way is registered.
NonceRegistered ==
    \A h \in Handlers : req[h].nonce # None =>
        \/ req[h].store = "redis" /\ req[h].nonce \in used
        \/ req[h].store = ProcessOf[h] /\ req[h].nonce \in fallback[ProcessOf[h]]

\* What a handler knows at each step.
HandlerOK(h) ==
    /\ pc[h] = "lookup" => req[h].id \in Payments
    /\ pc[h] \in Steps \ {"lookup"} => req[h].id \in DOMAIN payment
    /\ pc[h] = "write" => Validate(req[h].seen.status, req[h].status)
    /\ pc[h] = "write_retry" =>
          req[h].seen.retry_count < MAX_RETRIES /\ req[h].seen.status = "failed"

PInv ==
    /\ TypeOK
    /\ ConfirmedHasTime
    /\ NonceRegistered
    /\ RepeatedCallbackRefused
    /\ \A h \in Handlers : HandlerOK(h)

-----------------------------------------------------------------------------
(* Rows and local variables keep their types under the updates made.       *)

\* The rows that reconcile and retry write are rows, and a row that reconcile
\* or retry leaves confirmed has its time.
LEMMA RowUpdates ==
    ASSUME NEW row \in Row, row.status = "confirmed" => row.confirmed_at
    PROVE  /\ \A s \in PaymentStatus :
                 /\ Reconciled(row, s) \in Row
                 /\ Reconciled(row, s).status = s
                 /\ Reconciled(row, s).status = "confirmed" => Reconciled(row, s).confirmed_at
           /\ \A n \in 0 .. MAX_RETRIES :
                 [row EXCEPT !.status = "pending", !.retry_count = n] \in Row
  BY DEF Row, Reconciled, PaymentStatus

\* The initial row and the empty request have their types.
LEMMA Blank == NewRow \in Row /\ NoRequest \in Request
  BY PaymentAssumption DEF NewRow, NoRequest, Row, Request, Requested, PaymentStatus

\* A request keeps its type when the fields of an operation are filled in.
LEMMA RequestUpdates ==
    ASSUME NEW r \in Request, NEW p \in Payments, NEW s \in Requested, NEW n \in Nonces,
           NEW store \in Stores, NEW row \in Row
    PROVE  /\ [r EXCEPT !.id = p] \in Request
           /\ [r EXCEPT !.id = p, !.status = s] \in Request
           /\ [r EXCEPT !.id = p, !.status = s, !.nonce = n, !.store = store] \in Request
           /\ [r EXCEPT !.seen = row] \in Request
  BY DEF Request

\* validate_transition accepts known statuses only, and pending only after failed.
LEMMA ValidStatuses ==
    \A c, n : Validate(c, n) =>
        /\ n \in PaymentStatus
        /\ c # "confirmed"
        /\ n = "pending" => c = "failed"
  BY DEF Validate, VALID_TRANSITIONS, PaymentStatus

-----------------------------------------------------------------------------
(* Steps that concern one handler.                                         *)

\* A step that leaves the stores and the nonces of all requests alone, and keeps
\* every row, keeps what is said of nonces and of the other handlers.
LEMMA Quiet ==
    ASSUME PInv, NEW h \in Handlers, UNCHANGED nonceVars,
           req' \in [Handlers -> Request], pc' \in [Handlers -> Steps \cup {"idle"}],
           \A g \in Handlers \ {h} : req'[g] = req[g] /\ pc'[g] = pc[g],
           \/ req'[h].nonce = None
           \/ req'[h].nonce = req[h].nonce /\ req'[h].store = req[h].store,
           DOMAIN payment \subseteq DOMAIN payment', DOMAIN payment' \subseteq Payments,
           \A p \in DOMAIN payment' : payment'[p] \in Row,
           ConfirmedHasTime', HandlerOK(h)'
    PROVE  PInv'
  <1>1. TypeOK'
    BY DEF PInv, TypeOK, nonceVars
  <1>2. NonceRegistered'
    BY DEF PInv, NonceRegistered, nonceVars
  <1>3. RepeatedCallbackRefused'
    BY DEF PInv, RepeatedCallbackRefused
  <1>4. ASSUME NEW g \in Handlers \ {h}
        PROVE  HandlerOK(g)'
    BY <1>4 DEF PInv, HandlerOK
  <1> QED BY <1>1, <1>2, <1>3, <1>4 DEF PInv

\* The end of a request, without a write.
LEMMA DoneInv ==
    ASSUME PInv, NEW h \in Handlers, Done(h), UNCHANGED nonceVars, UNCHANGED payment
    PROVE  PInv'
  <1>1. /\ req' \in [Handlers -> Request] /\ pc' \in [Handlers -> Steps \cup {"idle"}]
        /\ pc'[h] = "idle" /\ req'[h].nonce = None
        /\ \A g \in Handlers \ {h} : req'[g] = req[g] /\ pc'[g] = pc[g]
    BY Blank DEF PInv, TypeOK, Done, NoRequest
  <1>2. HandlerOK(h)'
    BY <1>1 DEF HandlerOK, Steps
  <1> QED BY <1>1, <1>2, Quiet DEF PInv, TypeOK, ConfirmedHasTime

\* Moving on without touching anything but the local variables.
LEMMA LocalInv ==
    ASSUME PInv, NEW h \in Handlers, NEW r \in Request, NEW step \in Steps,
           req' = [req EXCEPT ![h] = r], pc' = [pc EXCEPT ![h] = step],
           UNCHANGED nonceVars, UNCHANGED payment,
           r.nonce = req[h].nonce, r.store = req[h].store, HandlerOK(h)'
    PROVE  PInv'
  <1>1. /\ req' \in [Handlers -> Request] /\ pc' \in [Handlers -> Steps \cup {"idle"}]
        /\ req'[h] = r
        /\ \A g \in Handlers \ {h} : req'[g] = req[g] /\ pc'[g] = pc[g]
    BY DEF PInv, TypeOK
  <1> QED BY <1>1, Quiet DEF PInv, TypeOK, ConfirmedHasTime

-----------------------------------------------------------------------------
(* One lemma per action.                                                   *)

LEMMA CreateInv == ASSUME PInv, NEW p \in Payments, Create(p) PROVE PInv'
  <1>1. /\ DOMAIN payment' = DOMAIN payment \cup {p}
        /\ payment'[p] = NewRow
        /\ \A i \in DOMAIN payment : payment'[i] = payment[i]
    BY DEF Create, Exists
  <1>2. TypeOK' /\ ConfirmedHasTime'
    BY <1>1, Blank DEF PInv, TypeOK, ConfirmedHasTime, Create, nonceVars, NewRow
  <1>3. NonceRegistered' /\ RepeatedCallbackRefused'
    BY DEF PInv, NonceRegistered, RepeatedCallbackRefused, Create, nonceVars
  <1>4. ASSUME NEW h \in Handlers PROVE HandlerOK(h)'
    BY <1>1 DEF PInv, HandlerOK, Create, nonceVars
  <1> QED BY <1>2, <1>3, <1>4 DEF PInv

LEMMA ReconcilePaymentInv ==
    ASSUME PInv, NEW h \in Handlers, NEW p \in Payments, ReconcilePayment(h, p)
    PROVE  PInv'
  <1>1. PICK s \in Requested :
            req' = [req EXCEPT ![h] = [req[h] EXCEPT !.id = p, !.status = s]]
    BY DEF ReconcilePayment
  <1> DEFINE r == [req[h] EXCEPT !.id = p, !.status = s]
  <1>2. req[h] \in Request
    BY DEF PInv, TypeOK
  <1>3. r \in Request /\ r.nonce = req[h].nonce /\ r.store = req[h].store /\ r.id = p
    BY <1>2, RequestUpdates DEF Request
  <1>4. req'[h] = r /\ pc'[h] = "reconcile"
    BY <1>1 DEF PInv, TypeOK, ReconcilePayment
  <1>5. HandlerOK(h)'
    BY <1>3, <1>4 DEF HandlerOK, ReconcilePayment, Exists
  <1>6. "reconcile" \in Steps
    BY DEF Steps
  <1> HIDE DEF r
  <1> QED BY <1>1, <1>3, <1>5, <1>6, LocalInv DEF ReconcilePayment, r

LEMMA RetryPaymentInv ==
    ASSUME PInv, NEW h \in Handlers, NEW p \in Payments, RetryPayment(h, p)
    PROVE  PInv'
  <1> DEFINE r == [req[h] EXCEPT !.id = p]
  <1>2. req[h] \in Request
    BY DEF PInv, TypeOK
  <1>3. r \in Request /\ r.nonce = req[h].nonce /\ r.store = req[h].store /\ r.id = p
    BY <1>2 DEF Request
  <1>4. req'[h] = r /\ pc'[h] = "retry"
    BY DEF PInv, TypeOK, RetryPayment
  <1>5. HandlerOK(h)'
    BY <1>3, <1>4 DEF HandlerOK, RetryPayment, Exists
  <1>6. "retry" \in Steps
    BY DEF Steps
  <1> QED BY <1>3, <1>5, <1>6, LocalInv DEF RetryPayment

\* A callback is admitted only if no callback under way holds its nonce in the
\* same store.
LEMMA ProviderCallbackInv ==
    ASSUME PInv, NEW h \in Handlers, NEW p \in Payments, ProviderCallback(h, p)
    PROVE  PInv'
  <1> DEFINE q == ProcessOf[h]
  <1>1. PICK s \in Requested, n \in Nonces, store \in {"redis", q} :
            /\ \/ store = "redis" /\ ConsumeRedis(q, n)
               \/ store = q /\ ConsumeFallback(q, n)
            /\ req' = [req EXCEPT ![h] = [req[h] EXCEPT !.id = p, !.status = s,
                                                        !.nonce = n, !.store = store]]
    BY DEF ProviderCallback
  <1> DEFINE r == [req[h] EXCEPT !.id = p, !.status = s, !.nonce = n, !.store = store]
  <1>2. q \in Processes /\ store \in Stores /\ req[h] \in Request /\ "redis" \notin Processes
    BY PaymentAssumption DEF PInv, TypeOK, Stores
  <1>3. r \in Request /\ r.nonce = n /\ r.store = store /\ r.id = p
    BY <1>2, RequestUpdates DEF Request
  <1>4. /\ req'[h] = r /\ pc'[h] = "lookup"
        /\ req' \in [Handlers -> Request] /\ pc' \in [Handlers -> Steps \cup {"idle"}]
        /\ \A g \in Handlers \ {h} : req'[g] = req[g] /\ pc'[g] = pc[g]
    BY <1>1, <1>3 DEF PInv, TypeOK, ProviderCallback, Steps
  <1> HIDE DEF r
  <1>5. /\ used' \subseteq Nonces /\ fallback' \in [Processes -> SUBSET Nonces]
        /\ tripped' \subseteq Processes
    BY <1>1, <1>2 DEF PInv, TypeOK, ConsumeRedis, ConsumeFallback
  <1>6. /\ used \subseteq used'
        /\ \A x \in Processes : fallback[x] \cap InFlight \subseteq fallback'[x]
        /\ store = "redis" => n \in used' /\ n \notin used
        /\ store = q => n \in fallback'[q] /\ n \notin fallback[q] \cap InFlight
    <2>1. CASE store = "redis" /\ ConsumeRedis(q, n)
      BY <2>1, <1>2 DEF ConsumeRedis
    <2>2. CASE store = q /\ ConsumeFallback(q, n)
      <3>1. PICK kept \in SUBSET fallback[q] :
                Kept(q, kept) /\ n \notin kept /\ fallback' = [fallback EXCEPT ![q] = kept \cup {n}]
        BY <2>2 DEF ConsumeFallback
      <3>2. fallback[q] \cap InFlight \subseteq kept
        BY <3>1 DEF Kept
      <3> QED BY <3>1, <3>2, <2>2, <1>2 DEF PInv, TypeOK, ConsumeFallback
    <2> QED BY <1>1, <2>1, <2>2
  <1>7. \A g \in Handlers : req[g].nonce \in InFlight
    BY DEF InFlight
  <1>8. \A g \in Handlers \ {h} : req[g].nonce = n => req[g].store # store
    <2> SUFFICES ASSUME NEW g \in Handlers \ {h}, req[g].nonce = n, req[g].store = store
                 PROVE  FALSE
      OBVIOUS
    <2>1. n # None
      BY PaymentAssumption
    <2>2. \/ req[g].store = "redis" /\ n \in used
          \/ req[g].store = ProcessOf[g] /\ n \in fallback[ProcessOf[g]]
      BY <2>1 DEF PInv, NonceRegistered
    <2>3. ProcessOf[g] \in Processes
      BY PaymentAssumption
    <2> QED BY <1>2, <1>6, <1>7, <2>2, <2>3
  <1>9. NonceRegistered'
    <2> SUFFICES ASSUME NEW g \in Handlers, req'[g].nonce # None
                 PROVE  \/ req'[g].store = "redis" /\ req'[g].nonce \in used'
                        \/ req'[g].store = ProcessOf[g] /\ req'[g].nonce \in fallback'[ProcessOf[g]]
      BY DEF NonceRegistered
    <2>1. CASE g = h
      BY <2>1, <1>3, <1>4, <1>6
    <2>2. CASE g # h
      <3>1. ProcessOf[g] \in Processes /\ req'[g] = req[g]
        BY <2>2, <1>4, PaymentAssumption
      <3> QED BY <3>1, <1>6, <1>7 DEF PInv, NonceRegistered
    <2> QED BY <2>1, <2>2
  <1>10. RepeatedCallbackRefused'
    BY <1>3, <1>4, <1>8 DEF PInv, RepeatedCallbackRefused
  <1>11. UNCHANGED payment
    BY DEF ProviderCallback
  <1>12. TypeOK' /\ ConfirmedHasTime'
    BY <1>4, <1>5, <1>11 DEF PInv, TypeOK, ConfirmedHasTime
  <1>13. ASSUME NEW g \in Handlers PROVE HandlerOK(g)'
    BY <1>3, <1>4, <1>11 DEF PInv, HandlerOK
  <1> QED BY <1>9, <1>10, <1>12, <1>13 DEF PInv

\* A refused replay only drops nonces no request is using.
LEMMA RefuseReplayInv == ASSUME PInv, NEW q \in Processes, RefuseReplay(q) PROVE PInv'
  <1>1. PICK kept \in SUBSET fallback[q] :
            Kept(q, kept) /\ fallback' = [fallback EXCEPT ![q] = kept]
    BY DEF RefuseReplay
  <1>2. fallback[q] \cap InFlight \subseteq kept
    BY <1>1 DEF Kept
  <1>3. \A x \in Processes : fallback[x] \cap InFlight \subseteq fallback'[x]
    BY <1>1, <1>2 DEF PInv, TypeOK
  <1>4. \A g \in Handlers : req[g].nonce \in InFlight /\ ProcessOf[g] \in Processes
    BY PaymentAssumption DEF InFlight
  <1>5. NonceRegistered'
    BY <1>3, <1>4 DEF PInv, NonceRegistered, RefuseReplay
  <1>6. TypeOK'
    BY <1>1 DEF PInv, TypeOK, RefuseReplay
  <1>7. ASSUME NEW g \in Handlers PROVE HandlerOK(g)'
    BY DEF PInv, HandlerOK, RefuseReplay
  <1> QED BY <1>5, <1>6, <1>7 DEF PInv, ConfirmedHasTime, RepeatedCallbackRefused, RefuseReplay

LEMMA CallbackLookupInv ==
    ASSUME PInv, NEW h \in Handlers, CallbackLookup(h) PROVE PInv'
  <1>1. UNCHANGED nonceVars /\ UNCHANGED payment
    BY DEF CallbackLookup
  <1>2. CASE Done(h)
    BY <1>1, <1>2, DoneInv
  <1>3. CASE Exists(req[h].id) /\ Goto(h, "reconcile")
    <2>1. /\ req[h] \in Request /\ "reconcile" \in Steps
          /\ req' = [req EXCEPT ![h] = req[h]] /\ pc' = [pc EXCEPT ![h] = "reconcile"]
          /\ pc'[h] = "reconcile" /\ req'[h] = req[h]
      BY <1>3 DEF PInv, TypeOK, Goto, Steps
    <2>2. HandlerOK(h)'
      BY <1>1, <1>3, <2>1 DEF HandlerOK, Exists
    <2> QED BY <1>1, <2>1, <2>2, LocalInv
  <1> QED BY <1>2, <1>3 DEF CallbackLookup

\* Reading a row that exists and keeping it.
LEMMA SeeInv ==
    ASSUME PInv, NEW h \in Handlers, NEW step \in {"write", "write_retry"}, See(h, step),
           req[h].id \in DOMAIN payment, UNCHANGED nonceVars, UNCHANGED payment,
           step = "write" => Validate(payment[req[h].id].status, req[h].status),
           step = "write_retry" => /\ payment[req[h].id].retry_count < MAX_RETRIES
                                   /\ payment[req[h].id].status = "failed"
    PROVE  PInv'
  <1> DEFINE r == [req[h] EXCEPT !.seen = payment[req[h].id]]
  <1>1. req[h] \in Request /\ payment[req[h].id] \in Row /\ step \in Steps
    BY DEF PInv, TypeOK, Steps
  <1>2. /\ r \in Request /\ r.nonce = req[h].nonce /\ r.store = req[h].store
        /\ r.id = req[h].id /\ r.status = req[h].status /\ r.seen = payment[req[h].id]
    BY <1>1 DEF Request
  <1>3. /\ req' = [req EXCEPT ![h] = r] /\ pc' = [pc EXCEPT ![h] = step]
        /\ req'[h] = r /\ pc'[h] = step
    BY DEF See, PInv, TypeOK
  <1> HIDE DEF r
  <1>4. HandlerOK(h)'
    BY <1>2, <1>3 DEF HandlerOK, Validate
  <1> QED BY <1>1, <1>2, <1>3, <1>4, LocalInv

LEMMA ReconcileReadInv ==
    ASSUME PInv, NEW h \in Handlers, ReconcileRead(h) PROVE PInv'
  <1>1. req[h].id \in DOMAIN payment
    BY DEF PInv, HandlerOK, ReconcileRead, Steps
  <1>2. UNCHANGED nonceVars /\ UNCHANGED payment
    BY DEF ReconcileRead
  <1>3. CASE Validate(payment[req[h].id].status, req[h].status) /\ See(h, "write")
    BY <1>1, <1>2, <1>3, SeeInv
  <1>4. CASE Done(h)
    BY <1>2, <1>4, DoneInv
  <1> QED BY <1>3, <1>4 DEF ReconcileRead

LEMMA RetryReadInv ==
    ASSUME PInv, NEW h \in Handlers, RetryRead(h) PROVE PInv'
  <1> DEFINE row == payment[req[h].id]
  <1>1. req[h].id \in DOMAIN payment
    BY DEF PInv, HandlerOK, RetryRead, Steps
  <1>2. UNCHANGED nonceVars /\ UNCHANGED payment
    BY DEF RetryRead
  <1>3. CASE RetryAllowed(row) /\ Validate(row.status, "pending") /\ See(h, "write_retry")
    <2>1. row.retry_count < MAX_RETRIES /\ row.status = "failed"
      BY <1>3, ValidStatuses DEF RetryAllowed
    <2> QED BY <1>1, <1>2, <1>3, <2>1, SeeInv
  <1>4. CASE Done(h)
    BY <1>2, <1>4, DoneInv
  <1> QED BY <1>3, <1>4 DEF RetryRead

LEMMA AutoRetryInv ==
    ASSUME PInv, NEW h \in Handlers, AutoRetry(h) PROVE PInv'
  <1>1. UNCHANGED nonceVars /\ UNCHANGED payment
    BY DEF AutoRetry
  <1>2. CASE Goto(h, "retry")
    <2>1. /\ req[h] \in Request /\ "retry" \in Steps
          /\ req' = [req EXCEPT ![h] = req[h]] /\ pc' = [pc EXCEPT ![h] = "retry"]
          /\ pc'[h] = "retry" /\ req'[h] = req[h]
      BY <1>2 DEF PInv, TypeOK, Goto, Steps
    <2>2. HandlerOK(h)'
      BY <1>1, <2>1 DEF PInv, HandlerOK, AutoRetry, Steps
    <2> QED BY <1>1, <2>1, <2>2, LocalInv
  <1>3. CASE Done(h)
    BY <1>1, <1>3, DoneInv
  <1> QED BY <1>2, <1>3 DEF AutoRetry

\* A write of one row, by a handler that goes on or is done.
LEMMA WriteInv ==
    ASSUME PInv, NEW h \in Handlers, NEW row \in Row, req[h].id \in DOMAIN payment,
           payment' = [payment EXCEPT ![req[h].id] = row],
           row.status = "confirmed" => row.confirmed_at,
           Done(h) \/ (pc[h] # "idle" /\ Goto(h, "after")), UNCHANGED nonceVars
    PROVE  PInv'
  <1>1. /\ DOMAIN payment' = DOMAIN payment
        /\ \A p \in DOMAIN payment' : payment'[p] = row \/ payment'[p] = payment[p]
    OBVIOUS
  <1>2. /\ req' \in [Handlers -> Request] /\ pc' \in [Handlers -> Steps \cup {"idle"}]
        /\ \A g \in Handlers \ {h} : req'[g] = req[g] /\ pc'[g] = pc[g]
        /\ \/ pc'[h] = "idle" /\ req'[h].nonce = None
           \/ pc'[h] = "after" /\ req'[h] = req[h]
    BY Blank DEF PInv, TypeOK, Done, Goto, NoRequest, Steps
  <1>3. HandlerOK(h)'
    BY <1>1, <1>2 DEF HandlerOK, Steps
  <1>4. ConfirmedHasTime' /\ \A p \in DOMAIN payment' : payment'[p] \in Row
    BY <1>1 DEF PInv, TypeOK, ConfirmedHasTime
  <1> QED BY <1>1, <1>2, <1>3, <1>4, Quiet DEF PInv, TypeOK

LEMMA ReconcileWriteInv ==
    ASSUME PInv, NEW h \in Handlers, ReconcileWrite(h) PROVE PInv'
  <1> DEFINE old == payment[req[h].id]
             row == Reconciled(old, req[h].status)
  <1>1. req[h].id \in DOMAIN payment /\ Validate(req[h].seen.status, req[h].status)
    BY DEF PInv, HandlerOK, ReconcileWrite, Steps
  <1>2. old \in Row /\ (old.status = "confirmed" => old.confirmed_at)
    BY <1>1 DEF PInv, TypeOK, ConfirmedHasTime
  <1>3. row \in Row /\ (row.status = "confirmed" => row.confirmed_at)
    BY <1>1, <1>2, RowUpdates, ValidStatuses
  <1>4. /\ payment' = [payment EXCEPT ![req[h].id] = row]
        /\ Done(h) \/ (pc[h] # "idle" /\ Goto(h, "after"))
        /\ UNCHANGED nonceVars
    BY DEF ReconcileWrite
  <1> HIDE DEF row
  <1> QED BY <1>1, <1>3, <1>4, WriteInv

LEMMA RetryWriteInv ==
    ASSUME PInv, NEW h \in Handlers, RetryWrite(h) PROVE PInv'
  <1> DEFINE old == payment[req[h].id]
             row == [old EXCEPT !.status = "pending",
                                !.retry_count = req[h].seen.retry_count + 1]
  <1>1. req[h].id \in DOMAIN payment /\ req[h].seen.retry_count < MAX_RETRIES
    BY DEF PInv, HandlerOK, RetryWrite, Steps
  <1>2. old \in Row /\ req[h].seen \in Row
    BY <1>1 DEF PInv, TypeOK, Request
  <1>3. req[h].seen.retry_count + 1 \in 0 .. MAX_RETRIES
    BY <1>1, <1>2, PaymentAssumption DEF Row
  <1>4. row \in Row /\ row.status = "pending"
    BY <1>2, <1>3 DEF Row, PaymentStatus
  <1>5. payment' = [payment EXCEPT ![req[h].id] = row] /\ Done(h) /\ UNCHANGED nonceVars
    BY DEF RetryWrite
  <1> HIDE DEF row
  <1> QED BY <1>1, <1>4, <1>5, WriteInv

LEMMA NonceExpiresInv == ASSUME PInv, NEW n \in Nonces, NonceExpires(n) PROVE PInv'
  <1>1. \A g \in Handlers : req[g].nonce \in InFlight
    BY DEF InFlight
  <1>2. NonceRegistered'
    BY <1>1 DEF PInv, NonceRegistered, NonceExpires
  <1>3. TypeOK'
    BY DEF PInv, TypeOK, NonceExpires
  <1>4. ASSUME NEW g \in Handlers PROVE HandlerOK(g)'
    BY DEF PInv, HandlerOK, NonceExpires
  <1> QED BY <1>2, <1>3, <1>4 DEF PInv, ConfirmedHasTime, RepeatedCallbackRefused, NonceExpires

LEMMA CircuitClosesInv == ASSUME PInv, NEW q \in Processes, CircuitCloses(q) PROVE PInv'
  <1>1. TypeOK'
    BY DEF PInv, TypeOK, CircuitCloses
  <1>2. ASSUME NEW g \in Handlers PROVE HandlerOK(g)'
    BY DEF PInv, HandlerOK, CircuitCloses
  <1> QED BY <1>1, <1>2
          DEF PInv, ConfirmedHasTime, NonceRegistered, RepeatedCallbackRefused, CircuitCloses

\* A process takes its nonces and the callbacks that hold them with it.
LEMMA CrashInv == ASSUME PInv, NEW q \in Processes, Crash(q) PROVE PInv'
  <1>1. \A g \in Handlers :
            \/ ProcessOf[g] = q /\ pc'[g] = "idle" /\ req'[g] = NoRequest
            \/ ProcessOf[g] # q /\ pc'[g] = pc[g] /\ req'[g] = req[g]
    BY DEF Crash
  <1>2. NoRequest.nonce = None
    BY DEF NoRequest
  <1>3. \A x \in Processes \ {q} : fallback'[x] = fallback[x]
    BY DEF PInv, TypeOK, Crash
  <1>4. \A g \in Handlers : ProcessOf[g] \in Processes
    BY PaymentAssumption
  <1>5. NonceRegistered'
    BY <1>1, <1>2, <1>3, <1>4 DEF PInv, NonceRegistered, Crash
  <1>6. RepeatedCallbackRefused'
    BY <1>1, <1>2 DEF PInv, RepeatedCallbackRefused
  <1>7. TypeOK' /\ ConfirmedHasTime'
    BY Blank DEF PInv, TypeOK, ConfirmedHasTime, Crash
  <1>8. ASSUME NEW g \in Handlers PROVE HandlerOK(g)'
    BY <1>1 DEF PInv, HandlerOK, Crash, Steps
  <1> QED BY <1>5, <1>6, <1>7, <1>8 DEF PInv

-----------------------------------------------------------------------------
(* The theorems                                                            *)

LEMMA InitPInv == Init => PInv
  <1> SUFFICES ASSUME Init PROVE PInv
    OBVIOUS
  <1>1. TypeOK /\ ConfirmedHasTime
    BY Blank DEF Init, TypeOK, ConfirmedHasTime
  <1>2. NonceRegistered /\ RepeatedCallbackRefused
    BY DEF Init, NonceRegistered, RepeatedCallbackRefused, NoRequest
  <1>3. \A h \in Handlers : HandlerOK(h)
    BY DEF Init, HandlerOK, Steps
  <1> QED BY <1>1, <1>2, <1>3 DEF PInv

LEMMA NextPInv == PInv /\ [Next]_vars => PInv'
  <1> SUFFICES ASSUME PInv, [Next]_vars PROVE PInv'
    OBVIOUS
  <1>1. CASE UNCHANGED vars
    <2>1. ASSUME NEW h \in Handlers PROVE HandlerOK(h)'
      BY <1>1 DEF PInv, HandlerOK, vars
    <2> QED BY <1>1, <2>1 DEF PInv, TypeOK, ConfirmedHasTime, NonceRegistered,
                              RepeatedCallbackRefused, vars
  <1>2. CASE \E p \in Payments : Create(p)
    BY <1>2, CreateInv
  <1>3. CASE \E h \in Handlers, p \in Payments :
                ReconcilePayment(h, p) \/ RetryPayment(h, p) \/ ProviderCallback(h, p)
    BY <1>3, ReconcilePaymentInv, RetryPaymentInv, ProviderCallbackInv
  <1>4. CASE \E h \in Handlers :
                \/ CallbackLookup(h) \/ ReconcileRead(h) \/ ReconcileWrite(h)
                \/ AutoRetry(h) \/ RetryRead(h) \/ RetryWrite(h)
    BY <1>4, CallbackLookupInv, ReconcileReadInv, ReconcileWriteInv, AutoRetryInv,
       RetryReadInv, RetryWriteInv
  <1>5. CASE \E n \in Nonces : NonceExpires(n)
    BY <1>5, NonceExpiresInv
  <1>6. CASE \E q \in Processes : RefuseReplay(q) \/ CircuitCloses(q) \/ Crash(q)
    BY <1>6, RefuseReplayInv, CircuitClosesInv, CrashInv
  <1> QED BY <1>1, <1>2, <1>3, <1>4, <1>5, <1>6 DEF Next

\* The inductive invariant holds in every reachable state.
THEOREM PaymentInvariance == Spec => []PInv
  BY InitPInv, NextPInv, PTL DEF Spec

\* The lifecycle is type correct; in particular retry_count never exceeds
\* MAX_RETRIES.
THEOREM PaymentTypeCorrect == Spec => []TypeOK
  <1>1. PInv => TypeOK
    BY DEF PInv
  <1> QED BY <1>1, PaymentInvariance, PTL

\* Every confirmed payment has its time of confirmation.
THEOREM ConfirmationTimed == Spec => []ConfirmedHasTime
  <1>1. PInv => ConfirmedHasTime
    BY DEF PInv
  <1> QED BY <1>1, PaymentInvariance, PTL

\* A repeated callback is refused by the store that admitted the first copy.
THEOREM RepeatsRefused == Spec => []RepeatedCallbackRefused
  <1>1. PInv => RepeatedCallbackRefused
    BY DEF PInv
  <1> QED BY <1>1, PaymentInvariance, PTL

-----------------------------------------------------------------------------
(* The status policy.                                                      *)

\* What a writer writes, from the status it validated.
LEMMA WrittenStatus ==
    ASSUME PInv, NEW h \in Handlers, ReconcileWrite(h) \/ RetryWrite(h)
    PROVE  /\ req[h].id \in DOMAIN payment
           /\ Validate(req[h].seen.status, payment'[req[h].id].status)
  <1>1. req[h].id \in DOMAIN payment
    BY DEF PInv, HandlerOK, ReconcileWrite, RetryWrite, Steps
  <1>2. payment[req[h].id] \in Row
    BY <1>1 DEF PInv, TypeOK
  <1>3. CASE ReconcileWrite(h)
    <2>1. Validate(req[h].seen.status, req[h].status)
      BY <1>3 DEF PInv, HandlerOK, ReconcileWrite
    <2>2. payment'[req[h].id].status = req[h].status
      BY <1>1, <1>2, <1>3 DEF ReconcileWrite, Reconciled, Row
    <2> QED BY <1>1, <2>1, <2>2
  <1>4. CASE RetryWrite(h)
    <2>1. req[h].seen.status = "failed"
      BY <1>4 DEF PInv, HandlerOK, RetryWrite
    <2>2. payment'[req[h].id].status = "pending"
      BY <1>1, <1>2, <1>4 DEF RetryWrite, Row
    <2> QED BY <1>1, <2>1, <2>2 DEF Validate, VALID_TRANSITIONS
  <1> QED BY <1>3, <1>4

\* A row that did not change since it was validated follows the policy.
THEOREM PolicyFollowed == Spec => PolicyUnlessOvertaken
  <1> DEFINE Step == \A h \in Handlers :
          LET p == req[h].id
          IN  (/\ pc[h] \in {"write", "write_retry"} /\ pc'[h] # pc[h]
               /\ payment' # payment /\ payment[p] = req[h].seen)
              => <<payment[p].status, payment'[p].status>> \in VALID_TRANSITIONS
  <1>1. PInv /\ [Next]_vars => Step
    <2> SUFFICES ASSUME PInv, [Next]_vars, NEW h \in Handlers,
                        pc[h] \in {"write", "write_retry"}, pc'[h] # pc[h],
                        payment' # payment, payment[req[h].id] = req[h].seen
                 PROVE  <<payment[req[h].id].status, payment'[req[h].id].status>>
                            \in VALID_TRANSITIONS
      OBVIOUS
    <2>1. ReconcileWrite(h) \/ RetryWrite(h)
      <3>1. CASE \E g \in Handlers : ReconcileWrite(g) \/ RetryWrite(g)
        <4>1. PICK g \in Handlers : ReconcileWrite(g) \/ RetryWrite(g)
          BY <3>1
        <4>2. g = h
          BY <4>1 DEF ReconcileWrite, RetryWrite, Done, Goto, PInv, TypeOK
        <4> QED BY <4>1, <4>2
      <3>2. CASE \E i \in Payments : Create(i)
        BY <3>2 DEF Create
      <3>3. CASE UNCHANGED payment
        BY <3>3
      <3> QED BY <3>1, <3>2, <3>3
              DEF Next, vars, ReconcilePayment, RetryPayment, ProviderCallback, CallbackLookup,
                  ReconcileRead, AutoRetry, RetryRead, NonceExpires, RefuseReplay,
                  CircuitCloses, Crash
    <2> QED BY <2>1, WrittenStatus DEF Validate
  <1>2. Spec => [][Step]_vars
    BY <1>1, PaymentInvariance, PTL DEF Spec
  <1> QED BY <1>2 DEF PolicyUnlessOvertaken

=============================================================================
