-------------------------- MODULE SettlementProofs --------------------------
(***************************************************************************)
(* Proofs about Settlement, for every set of outages, requests, MTTRs,     *)
(* times and edits.                                                        *)
(*                                                                         *)
(* The safety properties are not inductive by themselves: what a request   *)
(* may do next depends on what it read and on the locks it has kept since. *)
(* IInv adds that knowledge, request by request and step by step.          *)
(***************************************************************************)
EXTENDS Settlement, SlaCalculatorProofs, TLAPS

BeforeStore == {"resolve", "resolved_event", "recompute", "find", "latest",
                "wait_latest", "insert"}
Computing   == {"find", "latest", "wait_latest", "insert"}
Unpaid      == {"computed_event", "sla_status", "find_payment", "insert_payment"}
Stored      == Unpaid \cup {"notify", "recomputed_event"}

\* Rows are named by the request that inserts them: not yet used names.
NamesFresh(r) ==
    /\ pc[r] \in BeforeStore \cup {"start"} => r \notin DOMAIN sla
    /\ pc[r] \in BeforeStore \cup Unpaid \cup {"start"} => r \notin DOMAIN payment

\* What the handler has read by the time it is at a step.
LocalsSet(r) ==
    /\ pc[r] = "start" => req[r].latest = None
    /\ Running(r) => req[r].outage \in Outages
    /\ pc[r] \in {"resolve", "resolved_event"} =>
          req[r].kind = "resolve" /\ req[r].mttr \in Mttrs
    /\ pc[r] = "recompute" => req[r].kind = "recompute" /\ req[r].severity \in Severities
    /\ pc[r] \in Computing => req[r].severity \in Severities /\ req[r].mttr \in Mttrs
    /\ pc[r] \in {"resolve", "resolved_event", "recompute", "find", "latest"} =>
          req[r].latest = None

\* A request about to demote the latest row has it locked, and it still is.
LatestLocked(r) ==
    /\ pc[r] = "wait_latest" => req[r].latest \in Rows(req[r].outage)
    /\ pc[r] = "insert" /\ req[r].latest # None =>
          /\ req[r].latest \in LatestRows(req[r].outage)
          /\ lock[LatestLock(req[r].latest)] = r

\* A request past the store has a result of its outage, and at Notify a payment.
ResultStored(r) ==
    /\ pc[r] \in Stored => req[r].row \in Rows(req[r].outage)
    /\ pc[r] = "notify" => PaymentsOf(req[r].row) # {}

\* From its read of the outage on, a resolve keeps every other resolve out.
ResolveAlone(r) ==
    pc[r] = "resolve" =>
        /\ lock[ResolveLock(req[r].outage)] = r
        /\ Exists(req[r].outage) => outage[req[r].outage].mttr_minutes = None

\* Until it has stored its result, a recompute has the outage row locked.
RowKept(r) ==
    req[r].kind = "recompute" /\ pc[r] \in Computing =>
        /\ lock[RowLock(req[r].outage)] = r
        /\ Exists(req[r].outage)
        /\ req[r].mttr = outage[req[r].outage].mttr_minutes
        /\ req[r].resolved_at = outage[req[r].outage].resolved_at

RequestOK(r) ==
    /\ NamesFresh(r)
    /\ LocalsSet(r)
    /\ LatestLocked(r)
    /\ ResultStored(r)
    /\ ResolveAlone(r)
    /\ RowKept(r)

OpenHasNoMttr ==
    \A o \in DOMAIN outage : outage[o].status = "open" => outage[o].mttr_minutes = None

TablesOK ==
    /\ SettledOutageKept
    /\ ExactlyOneLatest
    /\ ComputeHashUnique
    /\ PaidOncePerResult
    /\ NotifiedAfterPayment
    /\ OpenHasNoMttr

IInv ==
    /\ TypeOK
    /\ TablesOK
    /\ \A r \in Requests : RequestOK(r)

-----------------------------------------------------------------------------
(* Locks                                                                   *)

\* The four families of locks are disjoint, and within one the name tells the key.
LEMMA LockNames ==
    /\ \A o \in Outages : /\ ResolveLock(o) \in Locks
                          /\ RecomputeLock(o) \in Locks
                          /\ RowLock(o) \in Locks
    /\ \A s \in Requests : LatestLock(s) \in Locks
    /\ \A o, i \in Outages : /\ ResolveLock(o) # RowLock(i)
                             /\ ResolveLock(o) # RecomputeLock(i)
                             /\ RecomputeLock(o) # RowLock(i)
                             /\ ResolveLock(o) = ResolveLock(i) => o = i
                             /\ RowLock(o) = RowLock(i) => o = i
    /\ \A o \in Outages, s \in Requests : /\ LatestLock(s) # ResolveLock(o)
                                          /\ LatestLock(s) # RowLock(o)
                                          /\ LatestLock(s) # RecomputeLock(o)
    /\ \A s, t \in Requests : LatestLock(s) = LatestLock(t) => s = t
  BY DEF Locks, ResolveLock, RecomputeLock, RowLock, LatestLock

\* A commit or rollback of r takes no lock from another request.
LEMMA ReleaseKeeps ==
    ASSUME TypeOK, NEW r \in Requests, Release(r)
    PROVE  /\ lock' \in [Locks -> Requests \cup {None}]
           /\ \A q \in Requests \ {r}, l \in Locks : lock[l] = q => lock'[l] = q
  BY SettlementAssumption DEF TypeOK, Release

\* Neither does r by acquiring a lock that is free.
LEMMA AcquireKeeps ==
    ASSUME TypeOK, NEW r \in Requests, NEW l \in Locks, Free(r, l), Acquire(r, l)
    PROVE  /\ lock' \in [Locks -> Requests \cup {None}]
           /\ lock'[l] = r
           /\ \A q \in Requests \ {r}, k \in Locks : lock[k] = q => lock'[k] = q
           /\ \A k \in Locks : lock[k] = r => lock'[k] = r
  BY SettlementAssumption DEF TypeOK, Acquire, Free

\* The tables' invariants look only at the tables.
LEMMA TablesFrame ==
    ASSUME TablesOK, UNCHANGED tables
    PROVE  TablesOK'
  BY DEF TablesOK, tables, SettledOutageKept, ExactlyOneLatest, ComputeHashUnique,
         PaidOncePerResult, NotifiedAfterPayment, OpenHasNoMttr, Rows, LatestRows,
         PaymentsOf, PaymentFor

\* A request that keeps its locks, in tables that do not change, is not
\* disturbed by a step of another request.
LEMMA OtherFrame ==
    ASSUME TypeOK, UNCHANGED <<outage, sla, payment>>, NEW q \in Requests, RequestOK(q),
           pc'[q] = pc[q], req'[q] = req[q],
           \A l \in Locks : lock[l] = q => lock'[l] = q
    PROVE  RequestOK(q)'
<1>1. NamesFresh(q)' /\ LocalsSet(q)'
  BY DEF RequestOK, NamesFresh, LocalsSet, Running
<1>2. LatestLocked(q)'
  BY LockNames DEF RequestOK, LatestLocked, Rows, LatestRows, TypeOK
<1>3. ResultStored(q)'
  BY DEF RequestOK, ResultStored, Rows, PaymentsOf
<1>4. ResolveAlone(q)'
  BY LockNames DEF RequestOK, ResolveAlone, LocalsSet, Running, Steps, Exists
<1>5. RowKept(q)'
  BY LockNames DEF RequestOK, RowKept, LocalsSet, Running, Steps, Computing, Exists
<1> QED
  BY <1>1, <1>2, <1>3, <1>4, <1>5 DEF RequestOK

\* A request that has ended promises nothing.
LEMMA EndedOK ==
    ASSUME NEW r \in Requests, pc'[r] \in Ends
    PROVE  RequestOK(r)'
  BY DEF RequestOK, NamesFresh, LocalsSet, LatestLocked, ResultStored, ResolveAlone,
         RowKept, Running, Steps, Ends, BeforeStore, Computing, Unpaid, Stored

\* A request that fails releases its locks and leaves every table as it is: the
\* invariant survives every error path, crash and abort.
LEMMA FailPreserves ==
    ASSUME IInv, NEW r \in Requests, NEW code \in Ends, Fail(r, code),
           req' \in [Requests -> Request],
           \A q \in Requests \ {r} : req'[q] = req[q]
    PROVE  IInv'
<1>1. TypeOK'
  BY ReleaseKeeps DEF IInv, TypeOK, Fail, Goto, tables
<1>2. TablesOK'
  BY TablesFrame DEF IInv, Fail
<1>3. ASSUME NEW q \in Requests PROVE RequestOK(q)'
  <2>1. CASE q = r
    <3>1. pc'[r] = code
      BY DEF IInv, TypeOK, Fail, Goto
    <3> QED
      BY <2>1, <3>1, EndedOK
  <2>2. CASE q # r
    <3>1. pc'[q] = pc[q] /\ req'[q] = req[q] /\ UNCHANGED <<outage, sla, payment>>
      BY <2>2 DEF IInv, TypeOK, Fail, Goto, tables
    <3>2. \A l \in Locks : lock[l] = q => lock'[l] = q
      BY <2>2, ReleaseKeeps DEF IInv, Fail
    <3> QED
      BY <3>1, <3>2, OtherFrame DEF IInv
  <2> QED
    BY <2>1, <2>2
<1> QED
  BY <1>1, <1>2, <1>3 DEF IInv

\* A step of r that changes no table: what is left to show is the types and
\* what r itself is promised.
LEMMA LocalStep ==
    ASSUME IInv, NEW r \in Requests, UNCHANGED tables, TypeOK', RequestOK(r)',
           \A q \in Requests \ {r} : pc'[q] = pc[q] /\ req'[q] = req[q],
           \A q \in Requests \ {r}, l \in Locks : lock[l] = q => lock'[l] = q
    PROVE  IInv'
<1>1. TablesOK'
  BY TablesFrame DEF IInv
<1>2. ASSUME NEW q \in Requests, q # r PROVE RequestOK(q)'
  BY <1>2, OtherFrame DEF IInv, tables
<1> QED
  BY <1>1, <1>2 DEF IInv

\* A step that changes only the outages.  It may not touch an outage row that
\* another request has locked, nor give an MTTR to one that another request is
\* about to resolve.
OutageKeptFor(q) ==
    \A o \in Outages :
        /\ lock[RowLock(o)] = q /\ o \in DOMAIN outage =>
              /\ o \in DOMAIN outage'
              /\ outage'[o].mttr_minutes = outage[o].mttr_minutes
              /\ outage'[o].resolved_at = outage[o].resolved_at
        /\ /\ lock[ResolveLock(o)] = q
           /\ o \in DOMAIN outage => outage[o].mttr_minutes = None
           /\ o \in DOMAIN outage'
           => outage'[o].mttr_minutes = None

\* A request is not disturbed by a change of outages that keeps what its locks
\* protect.
LEMMA OtherOutageFrame ==
    ASSUME TypeOK, UNCHANGED <<sla, payment, notified>>, NEW q \in Requests, RequestOK(q),
           pc'[q] = pc[q], req'[q] = req[q],
           \A l \in Locks : lock[l] = q => lock'[l] = q,
           OutageKeptFor(q)
    PROVE  RequestOK(q)'
<1>1. NamesFresh(q)' /\ LocalsSet(q)'
  BY DEF RequestOK, NamesFresh, LocalsSet, Running
<1>2. LatestLocked(q)'
  BY LockNames DEF RequestOK, LatestLocked, Rows, LatestRows, TypeOK
<1>3. ResultStored(q)'
  BY DEF RequestOK, ResultStored, Rows, PaymentsOf
<1>4. ResolveAlone(q)'
  BY LockNames DEF RequestOK, ResolveAlone, LocalsSet, Running, Steps, Exists, OutageKeptFor
<1>5. RowKept(q)'
  BY LockNames DEF RequestOK, RowKept, LocalsSet, Running, Steps, Computing, Exists,
                   OutageKeptFor
<1> QED
  BY <1>1, <1>2, <1>3, <1>4, <1>5 DEF RequestOK

\* Nor are the tables' invariants, as long as settled outages remain.
LEMMA OutageTablesFrame ==
    ASSUME TablesOK, UNCHANGED <<sla, payment, notified>>, OpenHasNoMttr',
           \A s \in DOMAIN sla : sla[s].outage \in DOMAIN outage'
    PROVE  TablesOK'
  BY DEF TablesOK, SettledOutageKept, ExactlyOneLatest, ComputeHashUnique,
         PaidOncePerResult, NotifiedAfterPayment, Rows, LatestRows, PaymentsOf, PaymentFor

\* A step of a request r that writes one outage row, which no other request has
\* locked, and commits.
LEMMA OutageStep ==
    ASSUME IInv, NEW r \in Requests, UNCHANGED <<sla, payment, notified>>,
           TypeOK', RequestOK(r)', Release(r), OpenHasNoMttr',
           DOMAIN outage' = DOMAIN outage,
           \A q \in Requests \ {r} : pc'[q] = pc[q] /\ req'[q] = req[q] /\ OutageKeptFor(q)
    PROVE  IInv'
<1>1. TablesOK'
  BY OutageTablesFrame DEF IInv, TablesOK, SettledOutageKept
<1>2. ASSUME NEW q \in Requests, q # r PROVE RequestOK(q)'
  BY <1>2, OtherOutageFrame, ReleaseKeeps DEF IInv
<1> QED
  BY <1>1, <1>2 DEF IInv

\* A step that edits the outages and concerns no request.
LEMMA EditStep ==
    ASSUME IInv, UNCHANGED <<sla, payment, notified, lock, pc, req>>, TypeOK', OpenHasNoMttr',
           \A s \in DOMAIN sla : sla[s].outage \in DOMAIN outage',
           \A q \in Requests : OutageKeptFor(q)
    PROVE  IInv'
<1>1. TablesOK'
  BY OutageTablesFrame DEF IInv
<1>2. ASSUME NEW q \in Requests PROVE RequestOK(q)'
  BY <1>2, OtherOutageFrame DEF IInv
<1> QED
  BY <1>1, <1>2 DEF IInv

-----------------------------------------------------------------------------
(* The edits                                                               *)

\* POST /outages adds a row no request has seen.
LEMMA CreateOutagePreserves ==
    ASSUME IInv, NEW o \in Outages, CreateOutage(o)
    PROVE  IInv'
<1>1. PICK status \in {"open", "resolved"}, severity \in Severities :
         outage' = [i \in DOMAIN outage \cup {o} |->
                       IF i # o THEN outage[i]
                       ELSE [status |-> status, severity |-> severity,
                             mttr_minutes |-> None, resolved_at |-> None,
                             sla_status |-> None, events |-> {"created"}]]
  BY DEF CreateOutage
<1>2. DOMAIN outage' = DOMAIN outage \cup {o} /\ o \notin DOMAIN outage
  BY <1>1 DEF CreateOutage, Exists
<1>3. TypeOK'
  <2>1. outage'[o] \in Outage
    BY <1>1, <1>2 DEF Outage, ResolvedAt, EventTypes
  <2>2. \A i \in DOMAIN outage' : outage'[i] \in Outage
    BY <1>1, <1>2, <2>1 DEF IInv, TypeOK
  <2> QED
    BY <1>2, <2>2 DEF IInv, TypeOK, CreateOutage
<1>4. OpenHasNoMttr'
  BY <1>1, <1>2 DEF IInv, TablesOK, OpenHasNoMttr
<1>5. \A s \in DOMAIN sla : sla[s].outage \in DOMAIN outage'
  BY <1>2 DEF IInv, TablesOK, SettledOutageKept
<1>6. ASSUME NEW q \in Requests PROVE OutageKeptFor(q)
  BY <1>1, <1>2 DEF OutageKeptFor
<1> QED
  BY <1>3, <1>4, <1>5, <1>6, EditStep DEF CreateOutage

\* PUT and PATCH wait for the row lock, and the transition table keeps a
\* resolved outage resolved.
LEMMA UpdateOutagePreserves ==
    ASSUME IInv, NEW o \in Outages, UpdateOutage(o)
    PROVE  IInv'
<1>1. PICK status \in {"open", "resolved"}, severity \in Severities,
           resolved_at \in ResolvedAt :
         /\ <<outage[o].status, status>> \in ALLOWED_STATUS_TRANSITIONS
         /\ outage' = [outage EXCEPT ![o].status = status,
                                     ![o].severity = severity,
                                     ![o].resolved_at = resolved_at,
                                     ![o].events = @ \cup {"updated"}]
  BY DEF UpdateOutage
<1>2. DOMAIN outage' = DOMAIN outage /\ o \in DOMAIN outage
  BY <1>1 DEF UpdateOutage, Exists
<1>3. TypeOK'
  <2>1. outage'[o] \in Outage
    BY <1>1, <1>2 DEF IInv, TypeOK, Outage, EventTypes
  <2>2. \A i \in DOMAIN outage' : outage'[i] \in Outage
    BY <1>1, <1>2, <2>1 DEF IInv, TypeOK
  <2> QED
    BY <1>2, <2>2, SettlementAssumption DEF IInv, TypeOK, UpdateOutage
<1>4. OpenHasNoMttr'
  BY <1>1, <1>2 DEF IInv, TypeOK, Outage, TablesOK, OpenHasNoMttr, ALLOWED_STATUS_TRANSITIONS
<1>5. \A s \in DOMAIN sla : sla[s].outage \in DOMAIN outage'
  BY <1>2 DEF IInv, TablesOK, SettledOutageKept
<1>6. ASSUME NEW q \in Requests PROVE OutageKeptFor(q)
  <2>1. lock[RowLock(o)] = None /\ q # None
    BY SettlementAssumption DEF UpdateOutage
  <2>2. outage'[o].mttr_minutes = outage[o].mttr_minutes
    BY <1>1, <1>2 DEF IInv, TypeOK, Outage
  <2>3. \A i \in DOMAIN outage \ {o} : outage'[i] = outage[i]
    BY <1>1
  <2> QED
    BY <1>2, <2>1, <2>2, <2>3 DEF OutageKeptFor
<1> QED
  BY <1>3, <1>4, <1>5, <1>6, EditStep DEF UpdateOutage

\* DELETE waits for the row lock and refuses a settled outage.
LEMMA DeleteOutagePreserves ==
    ASSUME IInv, NEW o \in Outages, DeleteOutage(o)
    PROVE  IInv'
<1>1. DOMAIN outage' = DOMAIN outage \ {o} /\ \A i \in DOMAIN outage' : outage'[i] = outage[i]
  BY DEF DeleteOutage
<1>2. TypeOK'
  BY <1>1, SettlementAssumption DEF IInv, TypeOK, DeleteOutage
<1>3. OpenHasNoMttr'
  BY <1>1 DEF IInv, TablesOK, OpenHasNoMttr
<1>4. \A s \in DOMAIN sla : sla[s].outage \in DOMAIN outage'
  BY <1>1 DEF IInv, TablesOK, SettledOutageKept, DeleteOutage, HasFinancialHistory, Rows
<1>5. ASSUME NEW q \in Requests PROVE OutageKeptFor(q)
  BY <1>1, SettlementAssumption DEF OutageKeptFor, DeleteOutage
<1> QED
  BY <1>2, <1>3, <1>4, <1>5, EditStep DEF DeleteOutage

-----------------------------------------------------------------------------
(* The steps of a resolve                                                  *)

\* A handler assigns its local variables, and only its own.
LEMMA AssignLocals ==
    ASSUME TypeOK, NEW r \in Requests, NEW x \in Request, req' = [req EXCEPT ![r] = x]
    PROVE  /\ req' \in [Requests -> Request]
           /\ req'[r] = x
           /\ \A q \in Requests \ {r} : req'[q] = req[q]
  BY DEF TypeOK

\* A resolve that gets past its read holds the advisory lock on an open outage.
LEMMA ResolveBeginPreserves ==
    ASSUME IInv, NEW r \in Requests, ResolveBegin(r)
    PROVE  IInv'
<1>1. PICK o \in Outages, m \in Mttrs :
         /\ req' = [req EXCEPT ![r] = [@ EXCEPT !.kind = "resolve", !.outage = o, !.mttr = m]]
         /\ \/ Fail(r, "500")
            \/ Fail(r, "503")
            \/ /\ ~Contended(ResolveLock(o))
               /\ Exists(o) => outage[o].status = "open"
               /\ Acquire(r, ResolveLock(o))
               /\ Goto(r, "resolve")
               /\ UNCHANGED <<tables, edits>>
  BY DEF ResolveBegin
<1>2. /\ req' \in [Requests -> Request]
      /\ \A q \in Requests \ {r} : req'[q] = req[q]
      /\ req'[r].kind = "resolve" /\ req'[r].outage = o /\ req'[r].mttr = m
      /\ req'[r].latest = req[r].latest
  <2> DEFINE x == [req[r] EXCEPT !.kind = "resolve", !.outage = o, !.mttr = m]
  <2>1. req[r] \in Request
    BY DEF IInv, TypeOK
  <2>2. /\ x \in Request /\ x.kind = "resolve" /\ x.outage = o /\ x.mttr = m
        /\ x.latest = req[r].latest
    BY <2>1 DEF Request
  <2>3. req' = [req EXCEPT ![r] = x]
    BY <1>1
  <2> QED
    BY <2>2, <2>3, AssignLocals DEF IInv
<1>3. CASE Fail(r, "500") \/ Fail(r, "503")
  BY <1>2, <1>3, FailPreserves DEF Ends
<1>4. CASE /\ ~Contended(ResolveLock(o))
           /\ Exists(o) => outage[o].status = "open"
           /\ Acquire(r, ResolveLock(o))
           /\ Goto(r, "resolve")
           /\ UNCHANGED <<tables, edits>>
  <2>1. ResolveLock(o) \in Locks /\ Free(r, ResolveLock(o))
    BY <1>4, LockNames DEF Contended, Free
  <2>2. /\ lock' \in [Locks -> Requests \cup {None}]
        /\ lock'[ResolveLock(o)] = r
        /\ \A q \in Requests \ {r}, l \in Locks : lock[l] = q => lock'[l] = q
    BY <1>4, <2>1, AcquireKeeps DEF IInv
  <2>3. pc' = [pc EXCEPT ![r] = "resolve"] /\ pc[r] = "start"
    BY <1>4 DEF Goto, ResolveBegin
  <2>4. TypeOK'
    BY <1>2, <1>4, <2>2, <2>3 DEF IInv, TypeOK, tables, Steps
  <2>5. RequestOK(r)'
    <3>0. pc'[r] = "resolve"
      BY <2>3 DEF IInv, TypeOK
    <3>1. NamesFresh(r)'
      BY <1>4, <2>3, <3>0 DEF IInv, RequestOK, NamesFresh, tables, BeforeStore, Unpaid
    <3>2. LocalsSet(r)'
      BY <1>2, <2>3, <3>0 DEF IInv, RequestOK, LocalsSet, Computing
    <3>3. LatestLocked(r)' /\ ResultStored(r)' /\ RowKept(r)'
      BY <3>0 DEF LatestLocked, ResultStored, RowKept, Computing, Stored, Unpaid
    <3>4. ResolveAlone(r)'
      BY <1>2, <1>4, <2>2 DEF ResolveAlone, Exists, tables, IInv, TablesOK, OpenHasNoMttr
    <3> QED
      BY <3>1, <3>2, <3>3, <3>4 DEF RequestOK
  <2>6. \A q \in Requests \ {r} : pc'[q] = pc[q] /\ req'[q] = req[q]
    BY <1>2, <2>3 DEF IInv, TypeOK
  <2> QED
    BY <1>4, <2>2, <2>4, <2>5, <2>6, LocalStep
<1> QED
  BY <1>1, <1>3, <1>4

\* The write of a resolve: the outage had no MTTR, and no other request has its
\* row locked.
LEMMA ResolveOutagePreserves ==
    ASSUME IInv, NEW r \in Requests, ResolveOutage(r)
    PROVE  IInv'
<1> DEFINE o == req[r].outage
<1>0. /\ pc[r] = "resolve" /\ o \in Outages /\ req[r].mttr \in Mttrs
      /\ req[r].kind = "resolve" /\ req[r].latest = None
      /\ req' = req /\ lock[ResolveLock(o)] = r
      /\ Exists(o) => outage[o].mttr_minutes = None
  BY DEF ResolveOutage, IInv, RequestOK, LocalsSet, ResolveAlone, Running, Steps
<1>1. CASE ~Exists(o)
  <2>1. Fail(r, "503")
    BY <1>1 DEF ResolveOutage
  <2> QED
    BY <1>0, <2>1, FailPreserves DEF Ends, IInv, TypeOK
<1>2. CASE Exists(o)
  <2>1. ~(outage[o].status = "resolved" /\ outage[o].mttr_minutes = req[r].mttr)
    BY <1>0, <1>2, SettlementAssumption
  <2>2. PICK now \in Times :
           /\ outage' = [outage EXCEPT ![o].status = "resolved",
                                       ![o].mttr_minutes = req[r].mttr,
                                       ![o].resolved_at = now]
           /\ Free(r, RowLock(o))
           /\ Release(r)
           /\ Goto(r, "resolved_event")
           /\ UNCHANGED <<sla, payment, notified, req, edits>>
    BY <1>2, <2>1 DEF ResolveOutage
  <2>3. o \in DOMAIN outage /\ DOMAIN outage' = DOMAIN outage
    BY <1>2, <2>2 DEF Exists
  <2>4. /\ outage'[o] \in Outage /\ outage'[o].status = "resolved"
        /\ \A i \in DOMAIN outage \ {o} : outage'[i] = outage[i]
    BY <1>0, <2>2, <2>3 DEF IInv, TypeOK, Outage, ResolvedAt
  <2>5. pc' = [pc EXCEPT ![r] = "resolved_event"] /\ pc'[r] = "resolved_event"
    BY <2>2 DEF Goto, IInv, TypeOK
  <2>6. TypeOK'
    BY <2>2, <2>3, <2>4, <2>5, ReleaseKeeps DEF IInv, TypeOK, Steps
  <2>7. OpenHasNoMttr'
    BY <2>3, <2>4 DEF IInv, TablesOK, OpenHasNoMttr
  <2>8. RequestOK(r)'
    <3>1. NamesFresh(r)'
      BY <1>0, <2>2, <2>5 DEF IInv, RequestOK, NamesFresh, BeforeStore, Unpaid
    <3>2. LocalsSet(r)'
      BY <1>0, <2>5 DEF LocalsSet, Computing, Running
    <3> QED
      BY <3>1, <3>2, <2>5 DEF RequestOK, LatestLocked, ResultStored, ResolveAlone, RowKept,
                               Computing, Stored, Unpaid
  <2>9. ASSUME NEW q \in Requests \ {r} PROVE OutageKeptFor(q)
    BY <1>0, <2>2, <2>3, <2>4, LockNames, SettlementAssumption
       DEF OutageKeptFor, Free
  <2>10. \A q \in Requests \ {r} : pc'[q] = pc[q] /\ req'[q] = req[q]
    BY <1>0, <2>5 DEF IInv, TypeOK
  <2> QED
    BY <2>2, <2>3, <2>6, <2>7, <2>8, <2>9, <2>10, OutageStep
<1> QED
  BY <1>1, <1>2

\* A step of r that writes an outage's events or its sla_status, and nothing
\* any other request relies on.
LEMMA AnnotateStep ==
    ASSUME IInv, NEW r \in Requests, NEW o \in DOMAIN outage, NEW next \in Steps \cup Ends,
           Free(r, RowLock(o)), Release(r), Goto(r, next), edits' = edits,
           UNCHANGED <<sla, payment, notified>>,
           DOMAIN outage' = DOMAIN outage,
           \A i \in DOMAIN outage \ {o} : outage'[i] = outage[i],
           outage'[o] \in Outage,
           outage'[o].status = outage[o].status,
           outage'[o].mttr_minutes = outage[o].mttr_minutes,
           outage'[o].resolved_at = outage[o].resolved_at,
           req' \in [Requests -> Request],
           \A q \in Requests \ {r} : req'[q] = req[q],
           RequestOK(r)'
    PROVE  IInv'
<1>1. TypeOK'
  BY ReleaseKeeps DEF IInv, TypeOK, Goto
<1>2. OpenHasNoMttr'
  BY DEF IInv, TablesOK, OpenHasNoMttr
<1>3. ASSUME NEW q \in Requests \ {r} PROVE OutageKeptFor(q)
  BY DEF OutageKeptFor
<1>4. \A q \in Requests \ {r} : pc'[q] = pc[q] /\ req'[q] = req[q]
  BY DEF IInv, TypeOK, Goto
<1> QED
  BY <1>1, <1>2, <1>3, <1>4, OutageStep

\* The resolved event, and the values the calculation will use.
LEMMA ResolvedEventPreserves ==
    ASSUME IInv, NEW r \in Requests, ResolvedEvent(r)
    PROVE  IInv'
<1> DEFINE o == req[r].outage
<1>0. /\ pc[r] = "resolved_event" /\ o \in Outages /\ req[r].mttr \in Mttrs
      /\ req[r].kind = "resolve" /\ req[r].latest = None
  BY DEF ResolvedEvent, IInv, RequestOK, LocalsSet, Running, Steps
<1>1. CASE ~Exists(o)
  <2>1. Fail(r, "503") /\ req' = req
    BY <1>1 DEF ResolvedEvent
  <2> QED
    BY <2>1, FailPreserves DEF Ends, IInv, TypeOK
<1>2. CASE Exists(o)
  <2>1. /\ Free(r, RowLock(o)) /\ Release(r) /\ Goto(r, "find")
        /\ outage' = [outage EXCEPT ![o].events = @ \cup {"resolved"}]
        /\ req' = [req EXCEPT ![r] = [@ EXCEPT !.severity = outage[o].severity,
                                               !.resolved_at = outage[o].resolved_at]]
        /\ UNCHANGED <<sla, payment, notified, edits>>
    BY <1>2 DEF ResolvedEvent
  <2>2. o \in DOMAIN outage /\ outage[o] \in Outage
    BY <1>2 DEF Exists, IInv, TypeOK
  <2>3. /\ DOMAIN outage' = DOMAIN outage
        /\ \A i \in DOMAIN outage \ {o} : outage'[i] = outage[i]
        /\ outage'[o] \in Outage /\ outage'[o].status = outage[o].status
        /\ outage'[o].mttr_minutes = outage[o].mttr_minutes
        /\ outage'[o].resolved_at = outage[o].resolved_at
    BY <2>1, <2>2 DEF Outage, EventTypes
  <2>4. /\ req' \in [Requests -> Request]
        /\ \A q \in Requests \ {r} : req'[q] = req[q]
        /\ req'[r].kind = "resolve" /\ req'[r].outage = o
        /\ req'[r].mttr = req[r].mttr /\ req'[r].severity \in Severities
        /\ req'[r].latest = None
    <3> DEFINE x == [req[r] EXCEPT !.severity = outage[o].severity,
                                   !.resolved_at = outage[o].resolved_at]
    <3>1. req[r] \in Request
      BY DEF IInv, TypeOK
    <3>2. /\ x \in Request /\ x.kind = "resolve" /\ x.outage = o
          /\ x.mttr = req[r].mttr /\ x.severity \in Severities /\ x.latest = None
      BY <1>0, <2>2, <3>1 DEF Request, Outage
    <3>3. req' = [req EXCEPT ![r] = x]
      BY <2>1
    <3> QED
      BY <3>2, <3>3, AssignLocals DEF IInv
  <2>5. pc'[r] = "find"
    BY <2>1 DEF Goto, IInv, TypeOK
  <2>6. RequestOK(r)'
    <3>1. NamesFresh(r)'
      BY <1>0, <2>1, <2>5 DEF IInv, RequestOK, NamesFresh, BeforeStore, Unpaid
    <3>2. LocalsSet(r)'
      BY <1>0, <2>4, <2>5 DEF LocalsSet, Computing, Running
    <3> QED
      BY <3>1, <3>2, <2>4, <2>5 DEF RequestOK, LatestLocked, ResultStored, ResolveAlone,
                                     RowKept, Stored, Unpaid
  <2> QED
    BY <2>1, <2>2, <2>3, <2>4, <2>6, AnnotateStep DEF Steps
<1> QED
  BY <1>1, <1>2

-----------------------------------------------------------------------------
(* The steps of a recompute                                                *)

\* A recompute that gets past its checks holds its own advisory lock.
LEMMA RecomputeBeginPreserves ==
    ASSUME IInv, NEW r \in Requests, RecomputeBegin(r)
    PROVE  IInv'
<1>1. PICK o \in Outages :
         \/ /\ ~Exists(o)
            /\ req' = [req EXCEPT ![r] = [@ EXCEPT !.kind = "recompute", !.outage = o]]
            /\ Fail(r, "404")
         \/ /\ Exists(o)
            /\ req' = [req EXCEPT ![r] = [@ EXCEPT !.kind = "recompute", !.outage = o,
                                                   !.severity = outage[o].severity]]
            /\ \/ Fail(r, "400")
               \/ Fail(r, "500")
               \/ /\ ~Contended(RecomputeLock(o))
                  /\ Acquire(r, RecomputeLock(o))
                  /\ Goto(r, "recompute")
                  /\ UNCHANGED <<tables, edits>>
  BY DEF RecomputeBegin
<1>2. CASE ~Exists(o)
  <2>1. /\ req' \in [Requests -> Request]
        /\ \A q \in Requests \ {r} : req'[q] = req[q]
    <3> DEFINE x == [req[r] EXCEPT !.kind = "recompute", !.outage = o]
    <3>1. req[r] \in Request
      BY DEF IInv, TypeOK
    <3>2. x \in Request
      BY <3>1 DEF Request
    <3>3. req' = [req EXCEPT ![r] = x]
      BY <1>1, <1>2
    <3> QED
      BY <3>2, <3>3, AssignLocals DEF IInv
  <2> QED
    BY <1>1, <1>2, <2>1, FailPreserves DEF Ends
<1>3. CASE Exists(o)
  <2>1. outage[o] \in Outage
    BY <1>3 DEF Exists, IInv, TypeOK
  <2>2. /\ req' \in [Requests -> Request]
        /\ \A q \in Requests \ {r} : req'[q] = req[q]
        /\ req'[r].kind = "recompute" /\ req'[r].outage = o
        /\ req'[r].severity \in Severities /\ req'[r].latest = req[r].latest
    <3> DEFINE x == [req[r] EXCEPT !.kind = "recompute", !.outage = o,
                                   !.severity = outage[o].severity]
    <3>1. req[r] \in Request
      BY DEF IInv, TypeOK
    <3>2. /\ x \in Request /\ x.kind = "recompute" /\ x.outage = o
          /\ x.severity \in Severities /\ x.latest = req[r].latest
      BY <2>1, <3>1 DEF Request, Outage
    <3>3. req' = [req EXCEPT ![r] = x]
      BY <1>1, <1>3
    <3> QED
      BY <3>2, <3>3, AssignLocals DEF IInv
  <2>3. CASE Fail(r, "400") \/ Fail(r, "500")
    BY <2>2, <2>3, FailPreserves DEF Ends
  <2>4. CASE /\ ~Contended(RecomputeLock(o))
             /\ Acquire(r, RecomputeLock(o))
             /\ Goto(r, "recompute")
             /\ UNCHANGED <<tables, edits>>
    <3>1. RecomputeLock(o) \in Locks /\ Free(r, RecomputeLock(o))
      BY <2>4, LockNames DEF Contended, Free
    <3>2. /\ lock' \in [Locks -> Requests \cup {None}]
          /\ \A q \in Requests \ {r}, l \in Locks : lock[l] = q => lock'[l] = q
      BY <2>4, <3>1, AcquireKeeps DEF IInv
    <3>3. pc' = [pc EXCEPT ![r] = "recompute"] /\ pc'[r] = "recompute" /\ pc[r] = "start"
      BY <2>4 DEF Goto, RecomputeBegin, IInv, TypeOK
    <3>4. TypeOK'
      BY <2>2, <2>4, <3>2, <3>3 DEF IInv, TypeOK, tables, Steps
    <3>5. NamesFresh(r)'
      BY <2>4, <3>3 DEF IInv, RequestOK, NamesFresh, tables, BeforeStore, Unpaid
    <3>6. LocalsSet(r)'
      BY <2>2, <3>3 DEF IInv, RequestOK, LocalsSet, Computing
    <3>7. RequestOK(r)'
      BY <3>3, <3>5, <3>6 DEF RequestOK, LatestLocked, ResultStored, ResolveAlone, RowKept,
                               Computing, Stored, Unpaid
    <3>8. \A q \in Requests \ {r} : pc'[q] = pc[q] /\ req'[q] = req[q]
      BY <2>2, <3>3 DEF IInv, TypeOK
    <3> QED
      BY <2>4, <3>2, <3>4, <3>7, <3>8, LocalStep
  <2> QED
    BY <1>1, <1>3, <2>3, <2>4
<1> QED
  BY <1>2, <1>3

\* A recompute reads the outage under the row lock it keeps.
LEMMA RecomputeRowPreserves ==
    ASSUME IInv, NEW r \in Requests, RecomputeRow(r)
    PROVE  IInv'
<1> DEFINE o == req[r].outage
<1>0. /\ pc[r] = "recompute" /\ o \in Outages /\ req[r].severity \in Severities
      /\ req[r].kind = "recompute" /\ req[r].latest = None
  BY DEF RecomputeRow, IInv, RequestOK, LocalsSet, Running, Steps
<1>1. CASE Fail(r, "503") /\ req' = req
  BY <1>1, FailPreserves DEF Ends, IInv, TypeOK
<1>2. CASE /\ Exists(o) /\ Free(r, RowLock(o)) /\ outage[o].mttr_minutes # None
           /\ req' = [req EXCEPT ![r] = [@ EXCEPT !.mttr = outage[o].mttr_minutes,
                                                  !.resolved_at = outage[o].resolved_at]]
           /\ GetOrmLocked(r, o) /\ Goto(r, "find") /\ UNCHANGED <<tables, edits>>
  <2>1. o \in DOMAIN outage /\ outage[o] \in Outage
    BY <1>2 DEF Exists, IInv, TypeOK
  <2>2. /\ req' \in [Requests -> Request]
        /\ \A q \in Requests \ {r} : req'[q] = req[q]
        /\ req'[r].kind = "recompute" /\ req'[r].outage = o
        /\ req'[r].severity \in Severities /\ req'[r].latest = None
        /\ req'[r].mttr = outage[o].mttr_minutes /\ req'[r].mttr \in Mttrs
        /\ req'[r].resolved_at = outage[o].resolved_at
    <3> DEFINE x == [req[r] EXCEPT !.mttr = outage[o].mttr_minutes,
                                   !.resolved_at = outage[o].resolved_at]
    <3>1. req[r] \in Request
      BY DEF IInv, TypeOK
    <3>2. /\ x \in Request /\ x.kind = "recompute" /\ x.outage = o
          /\ x.severity \in Severities /\ x.latest = None
          /\ x.mttr = outage[o].mttr_minutes /\ x.mttr \in Mttrs
          /\ x.resolved_at = outage[o].resolved_at
      BY <1>0, <1>2, <2>1, <3>1 DEF Request, Outage
    <3>3. req' = [req EXCEPT ![r] = x]
      BY <1>2
    <3> QED
      BY <3>2, <3>3, AssignLocals DEF IInv
  <2>3. /\ lock' \in [Locks -> Requests \cup {None}]
        /\ lock'[RowLock(o)] = r
        /\ \A q \in Requests \ {r}, l \in Locks : lock[l] = q => lock'[l] = q
    BY <1>0, <1>2, LockNames, AcquireKeeps DEF IInv, GetOrmLocked
  <2>4. pc' = [pc EXCEPT ![r] = "find"] /\ pc'[r] = "find"
    BY <1>2 DEF Goto, IInv, TypeOK
  <2>5. TypeOK'
    BY <1>2, <2>2, <2>3, <2>4 DEF IInv, TypeOK, tables, Steps
  <2>6. NamesFresh(r)'
    BY <1>0, <1>2, <2>4 DEF IInv, RequestOK, NamesFresh, tables, BeforeStore, Unpaid
  <2>7. LocalsSet(r)'
    BY <1>0, <2>2, <2>4 DEF LocalsSet, Computing
  <2>8. RowKept(r)'
    BY <1>2, <2>1, <2>2, <2>3 DEF RowKept, Exists, tables
  <2>9. RequestOK(r)'
    BY <2>4, <2>6, <2>7, <2>8 DEF RequestOK, LatestLocked, ResultStored, ResolveAlone,
                                   Stored, Unpaid
  <2>10. \A q \in Requests \ {r} : pc'[q] = pc[q] /\ req'[q] = req[q]
    BY <2>2, <2>4 DEF IInv, TypeOK
  <2> QED
    BY <1>2, <2>3, <2>5, <2>9, <2>10, LocalStep
<1> QED
  BY <1>1, <1>2 DEF RecomputeRow

-----------------------------------------------------------------------------
(* create_if_changed                                                       *)

\* Finding a row by its hash, or none, tells the request only which it was.
LEMMA FindByComputeHashPreserves ==
    ASSUME IInv, NEW r \in Requests, FindByComputeHash(r)
    PROVE  IInv'
<1> DEFINE o == req[r].outage
<1>0. /\ pc[r] = "find" /\ o \in Outages /\ req[r].severity \in Severities
      /\ req[r].mttr \in Mttrs /\ req[r].latest = None /\ req[r] \in Request
      /\ UNCHANGED <<tables, lock, edits>>
  BY DEF FindByComputeHash, IInv, TypeOK, RequestOK, LocalsSet, Running, Steps, Computing
<1>1. CASE Goto(r, "latest") /\ req' = req
  <2>1. pc' = [pc EXCEPT ![r] = "latest"] /\ pc'[r] = "latest"
    BY <1>1 DEF Goto, IInv, TypeOK
  <2>2. TypeOK'
    BY <1>0, <1>1, <2>1 DEF IInv, TypeOK, tables, Steps
  <2>3. NamesFresh(r)'
    BY <1>0, <1>1, <2>1 DEF IInv, RequestOK, NamesFresh, tables, BeforeStore, Unpaid
  <2>4. LocalsSet(r)'
    BY <1>0, <1>1, <2>1 DEF LocalsSet, Computing
  <2>5. RowKept(r)'
    BY <1>0, <1>1, <2>1 DEF IInv, RequestOK, RowKept, Exists, tables, Computing
  <2>6. RequestOK(r)'
    BY <2>1, <2>3, <2>4, <2>5 DEF RequestOK, LatestLocked, ResultStored, ResolveAlone,
                                   Stored, Unpaid
  <2> QED
    BY <1>0, <1>1, <2>1, <2>2, <2>6, LocalStep DEF IInv, TypeOK
<1>2. ASSUME NEW s \in SameHash(o, req[r].resolved_at),
             req' = [req EXCEPT ![r] = [@ EXCEPT !.row = s]], Goto(r, AfterStore(r))
      PROVE  IInv'
  <2>0. s \in Rows(o) /\ s \in Requests
    BY DEF SameHash, Rows, IInv, TypeOK
  <2>1. /\ req' \in [Requests -> Request]
        /\ \A q \in Requests \ {r} : req'[q] = req[q]
        /\ req'[r].row = s /\ req'[r].outage = o /\ req'[r].latest = None
        /\ req'[r].kind = req[r].kind
    <3> DEFINE x == [req[r] EXCEPT !.row = s]
    <3>1. /\ x \in Request /\ x.row = s /\ x.outage = o /\ x.latest = None
          /\ x.kind = req[r].kind
      BY <1>0, <2>0 DEF Request
    <3>2. req' = [req EXCEPT ![r] = x]
      BY <1>2
    <3> QED
      BY <3>1, <3>2, AssignLocals DEF IInv
  <2>2. /\ pc'[r] \in {"computed_event", "sla_status"}
        /\ \A q \in Requests \ {r} : pc'[q] = pc[q]
        /\ pc' \in [Requests -> Steps \cup Ends \cup {"start"}]
    BY <1>2 DEF Goto, AfterStore, IInv, TypeOK, Steps
  <2>3. TypeOK'
    BY <1>0, <2>1, <2>2 DEF IInv, TypeOK, tables
  <2>4. NamesFresh(r)'
    BY <1>0, <2>2 DEF IInv, RequestOK, NamesFresh, tables, BeforeStore, Unpaid
  <2>5. LocalsSet(r)'
    BY <1>0, <2>1, <2>2 DEF LocalsSet, Computing
  <2>6. ResultStored(r)'
    BY <1>0, <2>0, <2>1, <2>2 DEF ResultStored, Rows, tables
  <2>7. RequestOK(r)'
    BY <2>2, <2>4, <2>5, <2>6 DEF RequestOK, LatestLocked, ResolveAlone, RowKept, Computing
  <2> QED
    BY <1>0, <2>1, <2>2, <2>3, <2>7, LocalStep
<1> QED
  BY <1>1, <1>2 DEF FindByComputeHash

\* What r is promised once it is past the read of the latest row.
LEMMA AtInsert ==
    ASSUME IInv, NEW r \in Requests, pc[r] \in {"latest", "wait_latest"},
           UNCHANGED <<tables, edits>>,
           NEW next \in {"wait_latest", "insert"}, Goto(r, next),
           NEW s \in Requests \cup {None}, NEW x \in Request,
           req' = [req EXCEPT ![r] = x], x.latest = s,
           x.outage = req[r].outage, x.kind = req[r].kind, x.severity = req[r].severity,
           x.mttr = req[r].mttr, x.resolved_at = req[r].resolved_at,
           lock' \in [Locks -> Requests \cup {None}],
           \A q \in Requests, l \in Locks : lock[l] = q => lock'[l] = q,
           next = "wait_latest" => s \in Rows(req[r].outage),
           next = "insert" /\ s # None => /\ s \in LatestRows(req[r].outage)
                                          /\ lock'[LatestLock(s)] = r
    PROVE  IInv'
<1> DEFINE o == req[r].outage
<1>0. /\ o \in Outages /\ req[r].severity \in Severities
      /\ req[r].mttr \in Mttrs
  BY DEF IInv, RequestOK, LocalsSet, Running, Steps, Computing
<1>1. /\ req' \in [Requests -> Request]
      /\ \A q \in Requests \ {r} : req'[q] = req[q]
      /\ req'[r] = x
  BY AssignLocals DEF IInv
<1>2. pc' = [pc EXCEPT ![r] = next] /\ pc'[r] = next
  BY DEF Goto, IInv, TypeOK
<1>3. TypeOK'
  BY <1>1, <1>2 DEF IInv, TypeOK, tables, Steps
<1>4. NamesFresh(r)'
  BY <1>2 DEF IInv, RequestOK, NamesFresh, tables, BeforeStore, Unpaid
<1>5. LocalsSet(r)'
  BY <1>0, <1>1, <1>2 DEF LocalsSet, Computing
<1>6. RowKept(r)'
  <2>1. RowKept(r) /\ RowLock(o) \in Locks /\ pc[r] \in Computing
    BY <1>0, LockNames DEF IInv, RequestOK, Computing
  <2>2. outage' = outage
    BY DEF tables
  <2> QED
    BY <1>1, <2>1, <2>2 DEF RowKept, Exists
<1>7. LatestLocked(r)'
  BY <1>1, <1>2 DEF LatestLocked, Rows, LatestRows, tables
<1>8. RequestOK(r)'
  BY <1>2, <1>4, <1>5, <1>6, <1>7 DEF RequestOK, ResultStored, ResolveAlone, Stored, Unpaid
<1> QED
  BY <1>1, <1>2, <1>3, <1>8, LocalStep DEF IInv, TypeOK

\* The read of the latest row finds none, locks it, or has to wait for it.
LEMMA LockLatestPreserves ==
    ASSUME IInv, NEW r \in Requests, LockLatest(r)
    PROVE  IInv'
<1> DEFINE o == req[r].outage
<1>0. /\ pc[r] = "latest" /\ req[r].latest = None /\ UNCHANGED <<tables, edits>>
      /\ lock \in [Locks -> Requests \cup {None}] /\ req[r] \in Request
      /\ req \in [Requests -> Request]
  BY DEF LockLatest, IInv, TypeOK, RequestOK, LocalsSet
<1>1. CASE Goto(r, "insert") /\ UNCHANGED <<lock, req>>
  <2>1. req' = [req EXCEPT ![r] = req[r]]
    BY <1>0, <1>1
  <2>2. \A q \in Requests, l \in Locks : lock[l] = q => lock'[l] = q
    BY <1>1
  <2> QED
    BY <1>0, <1>1, <2>1, <2>2, AtInsert
<1>2. ASSUME NEW s \in LatestRows(o), req' = [req EXCEPT ![r] = [@ EXCEPT !.latest = s]],
             \/ /\ Free(r, LatestLock(s))
                /\ Acquire(r, LatestLock(s))
                /\ Goto(r, "insert")
             \/ Goto(r, "wait_latest") /\ UNCHANGED lock
      PROVE  IInv'
  <2>1. s \in Requests /\ s \in Rows(o) /\ LatestLock(s) \in Locks
    BY LockNames DEF LatestRows, Rows, IInv, TypeOK
  <2> DEFINE x == [req[r] EXCEPT !.latest = s]
  <2>2. /\ x \in Request /\ x.latest = s /\ x.outage = o /\ x.kind = req[r].kind
        /\ x.severity = req[r].severity /\ x.mttr = req[r].mttr
        /\ x.resolved_at = req[r].resolved_at
    BY <1>0, <2>1 DEF Request
  <2>3. req' = [req EXCEPT ![r] = x]
    BY <1>2
  <2> HIDE DEF x
  <2>4. CASE Free(r, LatestLock(s)) /\ Acquire(r, LatestLock(s)) /\ Goto(r, "insert")
    <3>1. /\ lock' \in [Locks -> Requests \cup {None}] /\ lock'[LatestLock(s)] = r
          /\ \A q \in Requests, l \in Locks : lock[l] = q => lock'[l] = q
      BY <2>1, <2>4, AcquireKeeps DEF IInv
    <3> QED
      BY <1>0, <1>2, <2>1, <2>2, <2>3, <2>4, <3>1, AtInsert
  <2>5. CASE Goto(r, "wait_latest") /\ UNCHANGED lock
    <3>1. \A q \in Requests, l \in Locks : lock[l] = q => lock'[l] = q
      BY <2>5
    <3> QED
      BY <1>0, <2>1, <2>2, <2>3, <2>5, <3>1, AtInsert
  <2> QED
    BY <1>2, <2>4, <2>5
<1> QED
  BY <1>1, <1>2 DEF LockLatest

\* After the wait the row is locked if it still is the latest, else skipped.
LEMMA LatestUnlockedPreserves ==
    ASSUME IInv, NEW r \in Requests, LatestUnlocked(r)
    PROVE  IInv'
<1> DEFINE s == req[r].latest
<1>0. /\ pc[r] = "wait_latest" /\ UNCHANGED <<tables, edits>> /\ Goto(r, "insert")
      /\ Free(r, LatestLock(s)) /\ s \in Rows(req[r].outage) /\ s \in Requests
      /\ lock \in [Locks -> Requests \cup {None}] /\ LatestLock(s) \in Locks
      /\ req \in [Requests -> Request] /\ req[r] \in Request
  BY LockNames DEF LatestUnlocked, IInv, TypeOK, RequestOK, LatestLocked, Rows
<1>1. CASE sla[s].is_latest /\ Acquire(r, LatestLock(s)) /\ UNCHANGED req
  <2>1. req' = [req EXCEPT ![r] = req[r]]
    BY <1>0, <1>1
  <2>2. s \in LatestRows(req[r].outage)
    BY <1>0, <1>1 DEF LatestRows
  <2>3. /\ lock' \in [Locks -> Requests \cup {None}] /\ lock'[LatestLock(s)] = r
        /\ \A q \in Requests, l \in Locks : lock[l] = q => lock'[l] = q
    BY <1>0, <1>1, AcquireKeeps DEF IInv
  <2> QED
    BY <1>0, <2>1, <2>2, <2>3, AtInsert
<1>2. CASE req' = [req EXCEPT ![r] = [@ EXCEPT !.latest = None]] /\ UNCHANGED lock
  <2> DEFINE x == [req[r] EXCEPT !.latest = None]
  <2>1. /\ x \in Request /\ x.latest = None /\ x.outage = req[r].outage
        /\ x.kind = req[r].kind /\ x.severity = req[r].severity /\ x.mttr = req[r].mttr
        /\ x.resolved_at = req[r].resolved_at
    BY <1>0 DEF Request
  <2>2. req' = [req EXCEPT ![r] = x]
    BY <1>2
  <2>3. \A q \in Requests, l \in Locks : lock[l] = q => lock'[l] = q
    BY <1>2
  <2> HIDE DEF x
  <2> QED
    BY <1>0, <1>2, <2>1, <2>2, <2>3, AtInsert
<1> QED
  BY <1>1, <1>2 DEF LatestUnlocked

\* The insert: the new row is the outage's only latest one, every other row
\* keeps its outage, hash and result, and rows of other outages are untouched.
LEMMA InsertedRows ==
    ASSUME IInv, NEW r \in Requests, pc[r] = "insert", InsertAllowed(r),
           sla' = WithNewLatest(r)
    PROVE  LET o == req[r].outage
           IN  /\ o \in Outages /\ Exists(o) /\ r \notin DOMAIN sla
               /\ DOMAIN sla' = DOMAIN sla \cup {r}
               /\ sla'[r] \in SlaRow /\ sla'[r].is_latest /\ sla'[r].outage = o
               /\ sla'[r].compute_hash = req[r].resolved_at
               /\ \A s \in DOMAIN sla :
                     /\ sla'[s] \in SlaRow
                     /\ sla'[s].outage = sla[s].outage
                     /\ sla'[s].compute_hash = sla[s].compute_hash
                     /\ sla'[s].result = sla[s].result
                     /\ sla[s].outage # o => sla'[s] = sla[s]
                     /\ sla[s].outage = o => ~sla'[s].is_latest
<1> DEFINE o == req[r].outage
<1>1. /\ o \in Outages /\ Exists(o) /\ r \notin DOMAIN sla
      /\ req[r].severity \in Severities /\ req[r].mttr \in Mttrs
      /\ req[r].resolved_at \in ResolvedAt
  BY DEF IInv, TypeOK, Request, RequestOK, LocalsSet, NamesFresh, BeforeStore, Running, Steps,
         Computing, InsertAllowed
<1>2. SettledResult(req[r].severity, req[r].mttr) \in SLAResult
  BY <1>1, TranslationLossless, CalculateType, SettlementAssumption
<1>3. DOMAIN sla' = DOMAIN sla \cup {r}
  BY DEF WithNewLatest
<1>4. sla'[r] = [outage |-> o, compute_hash |-> req[r].resolved_at, is_latest |-> TRUE,
                 result |-> SettledResult(req[r].severity, req[r].mttr)]
  BY DEF WithNewLatest
<1>5. ASSUME NEW s \in DOMAIN sla
      PROVE  /\ sla'[s] \in SlaRow
             /\ sla'[s].outage = sla[s].outage
             /\ sla'[s].compute_hash = sla[s].compute_hash
             /\ sla'[s].result = sla[s].result
             /\ sla[s].outage # o => sla'[s] = sla[s]
             /\ sla[s].outage = o => ~sla'[s].is_latest
  <2>1. sla[s] \in SlaRow /\ s # r
    BY <1>1 DEF IInv, TypeOK
  <2>2. sla'[s] = IF sla[s].outage = o /\ req[r].latest # None
                  THEN [sla[s] EXCEPT !.is_latest = FALSE] ELSE sla[s]
    BY <1>5, <2>1 DEF WithNewLatest
  <2>3. CASE sla[s].outage = o /\ req[r].latest # None
    BY <2>1, <2>2, <2>3 DEF SlaRow
  <2>4. CASE sla[s].outage = o /\ req[r].latest = None
    <3>1. LatestRows(o) = {}
      BY <2>4 DEF InsertAllowed
    <3>2. ~sla[s].is_latest
      BY <2>4, <3>1 DEF LatestRows, Rows
    <3> QED
      BY <2>1, <2>2, <2>4, <3>2
  <2>5. CASE sla[s].outage # o
    BY <2>1, <2>2, <2>5
  <2> QED
    BY <2>3, <2>4, <2>5
<1> QED
  BY <1>1, <1>2, <1>3, <1>4, <1>5 DEF SlaRow

\* The tables' invariants after the insert.
LEMMA InsertTables ==
    ASSUME IInv, NEW r \in Requests, pc[r] = "insert", InsertAllowed(r),
           sla' = WithNewLatest(r), UNCHANGED <<outage, payment, notified>>
    PROVE  TablesOK'
<1> DEFINE o == req[r].outage
<1>0. /\ o \in Outages /\ Exists(o) /\ r \notin DOMAIN sla
      /\ DOMAIN sla' = DOMAIN sla \cup {r}
      /\ sla'[r] \in SlaRow /\ sla'[r].is_latest /\ sla'[r].outage = o
      /\ sla'[r].compute_hash = req[r].resolved_at
  BY InsertedRows
<1>1. \A s \in DOMAIN sla : /\ sla'[s].outage = sla[s].outage
                            /\ sla'[s].compute_hash = sla[s].compute_hash
                            /\ sla'[s].result = sla[s].result
                            /\ sla[s].outage # o => sla'[s] = sla[s]
                            /\ sla[s].outage = o => ~sla'[s].is_latest
  BY InsertedRows
<1>2. SettledOutageKept'
  BY <1>0, <1>1 DEF IInv, TablesOK, SettledOutageKept, Exists
<1>3. ExactlyOneLatest'
  <2> SUFFICES ASSUME NEW i \in Outages, Rows(i)' # {}
               PROVE  \E s \in Rows(i)' : LatestRows(i)' = {s}
    BY DEF ExactlyOneLatest
  <2>1. CASE i = o
    <3>1. r \in Rows(i)' /\ LatestRows(i)' = {r}
      BY <1>0, <1>1, <2>1 DEF Rows, LatestRows
    <3> QED
      BY <3>1
  <2>2. CASE i # o
    <3>1. Rows(i)' = Rows(i) /\ LatestRows(i)' = LatestRows(i)
      BY <1>0, <1>1, <2>2 DEF Rows, LatestRows
    <3> QED
      BY <3>1 DEF IInv, TablesOK, ExactlyOneLatest
  <2> QED
    BY <2>1, <2>2
<1>4. ComputeHashUnique'
  <2>1. \A s \in DOMAIN sla : sla[s].outage = o /\ req[r].resolved_at # None
                                => sla[s].compute_hash # req[r].resolved_at
    BY DEF InsertAllowed, SameHash, Rows
  <2> QED
    BY <1>0, <1>1, <2>1 DEF IInv, TablesOK, ComputeHashUnique
<1>5. PaidOncePerResult'
  <2>1. ASSUME NEW s \in DOMAIN sla
        PROVE  /\ PaymentsOf(s)' = PaymentsOf(s)
               /\ PaymentFor(sla[s].outage, s)' = PaymentFor(sla[s].outage, s)
    BY <1>1 DEF PaymentsOf, PaymentFor
  <2> QED
    BY <1>0, <2>1 DEF IInv, TablesOK, PaidOncePerResult
<1>6. NotifiedAfterPayment'
  BY <1>0, <1>1 DEF IInv, TablesOK, NotifiedAfterPayment, PaymentsOf
<1>7. OpenHasNoMttr'
  BY DEF IInv, TablesOK, OpenHasNoMttr
<1> QED
  BY <1>2, <1>3, <1>4, <1>5, <1>6, <1>7 DEF TablesOK

\* A request that has the latest row of its outage locked is not overtaken by
\* another one's insert; the promises to every other request stand as well.
LEMMA InsertOthers ==
    ASSUME IInv, NEW r \in Requests, pc[r] = "insert", InsertAllowed(r),
           sla' = WithNewLatest(r), UNCHANGED <<outage, payment, notified>>, Release(r),
           NEW q \in Requests, q # r, pc'[q] = pc[q], req'[q] = req[q]
    PROVE  RequestOK(q)'
<1> DEFINE o == req[r].outage
<1>0. /\ o \in Outages /\ r \notin DOMAIN sla /\ DOMAIN sla' = DOMAIN sla \cup {r}
      /\ \A s \in DOMAIN sla : /\ sla'[s].outage = sla[s].outage
                               /\ sla[s].outage # o => sla'[s] = sla[s]
  BY InsertedRows
<1>1. RequestOK(q) /\ \A l \in Locks : lock[l] = q => lock'[l] = q
  BY ReleaseKeeps DEF IInv
<1>2. NamesFresh(q)' /\ LocalsSet(q)'
  BY <1>0, <1>1 DEF RequestOK, NamesFresh, LocalsSet, Running
<1>3. LatestLocked(q)'
  <2>1. ASSUME pc[q] = "insert", req[q].latest # None
        PROVE  /\ req[q].latest \in LatestRows(req[q].outage)'
               /\ lock'[LatestLock(req[q].latest)] = q
    <3> DEFINE t == req[q].latest
    <3>1. t \in LatestRows(req[q].outage) /\ lock[LatestLock(t)] = q
      BY <1>1, <2>1 DEF RequestOK, LatestLocked
    <3>2. t \in Requests /\ LatestLock(t) \in Locks /\ req[q].outage \in Outages
      BY <1>1, <2>1, <3>1, LockNames
         DEF LatestRows, Rows, IInv, TypeOK, RequestOK, LocalsSet, Running, Steps
    <3>3. req[q].outage # o
      <4> SUFFICES ASSUME req[q].outage = o PROVE FALSE
        OBVIOUS
      <4>1. req[r].latest # None
        BY <3>1 DEF InsertAllowed
      <4>2. req[r].latest \in LatestRows(o) /\ lock[LatestLock(req[r].latest)] = r
        BY <4>1 DEF IInv, RequestOK, LatestLocked
      <4>3. req[r].latest = t
        BY <1>0, <3>1, <4>2 DEF IInv, TablesOK, ExactlyOneLatest, LatestRows
      <4> QED
        BY <3>1, <4>2, <4>3
    <3>4. t \in LatestRows(req[q].outage)'
      BY <1>0, <3>1, <3>3 DEF LatestRows, Rows
    <3> QED
      BY <1>1, <3>1, <3>2, <3>4
  <2>2. ASSUME pc[q] = "wait_latest" PROVE req[q].latest \in Rows(req[q].outage)'
    BY <1>0, <1>1, <2>2 DEF RequestOK, LatestLocked, Rows
  <2> QED
    BY <2>1, <2>2 DEF LatestLocked
<1>4. ResultStored(q)'
  BY <1>0, <1>1 DEF RequestOK, ResultStored, Rows, PaymentsOf
<1>5. ResolveAlone(q)'
  BY <1>1, LockNames DEF RequestOK, ResolveAlone, LocalsSet, Running, Steps, Exists
<1>6. RowKept(q)'
  BY <1>1, LockNames DEF RequestOK, RowKept, LocalsSet, Running, Steps, Computing, Exists
<1> QED
  BY <1>2, <1>3, <1>4, <1>5, <1>6 DEF RequestOK

\* SLARepository.create preserves the invariant.
LEMMA InsertResultPreserves ==
    ASSUME IInv, NEW r \in Requests, InsertResult(r)
    PROVE  IInv'
<1> DEFINE o == req[r].outage
<1>1. CASE Fail(r, "503") /\ req' = req
  BY <1>1, FailPreserves DEF Ends, IInv, TypeOK
<1>2. CASE /\ InsertAllowed(r) /\ sla' = WithNewLatest(r)
           /\ req' = [req EXCEPT ![r] = [@ EXCEPT !.row = r]]
           /\ Release(r) /\ Goto(r, AfterStore(r))
           /\ UNCHANGED <<outage, payment, notified, edits>>
  <2>0. pc[r] = "insert" /\ req[r] \in Request
    BY DEF InsertResult, IInv, TypeOK
  <2>1. /\ o \in Outages /\ DOMAIN sla' = DOMAIN sla \cup {r}
        /\ sla'[r] \in SlaRow /\ sla'[r].outage = o
        /\ \A s \in DOMAIN sla : sla'[s] \in SlaRow
    BY <1>2, <2>0, InsertedRows
  <2>2. /\ req' \in [Requests -> Request]
        /\ \A q \in Requests \ {r} : req'[q] = req[q]
        /\ req'[r].row = r /\ req'[r].outage = o
    <3> DEFINE x == [req[r] EXCEPT !.row = r]
    <3>1. x \in Request /\ x.row = r /\ x.outage = o
      BY <2>0 DEF Request
    <3>2. req' = [req EXCEPT ![r] = x]
      BY <1>2
    <3> HIDE DEF x
    <3> QED
      BY <3>1, <3>2, AssignLocals DEF IInv
  <2>3. /\ pc'[r] \in {"computed_event", "sla_status"}
        /\ \A q \in Requests \ {r} : pc'[q] = pc[q]
        /\ pc' \in [Requests -> Steps \cup Ends \cup {"start"}]
    BY <1>2 DEF Goto, AfterStore, IInv, TypeOK, Steps
  <2>4. TypeOK'
    <3>1. /\ DOMAIN sla' \subseteq Requests
          /\ \A s \in DOMAIN sla' : sla'[s] \in SlaRow
      BY <2>1 DEF IInv, TypeOK
    <3>2. lock' \in [Locks -> Requests \cup {None}]
      BY <1>2, ReleaseKeeps DEF IInv
    <3>3. outage' = outage /\ payment' = payment /\ notified' = notified /\ edits' = edits
      BY <1>2
    <3> QED
      BY <2>2, <2>3, <3>1, <3>2, <3>3 DEF IInv, TypeOK
  <2>5. TablesOK'
    BY <1>2, <2>0, InsertTables
  <2>6. RequestOK(r)'
    <3>1. NamesFresh(r)'
      BY <1>2, <2>0, <2>3 DEF IInv, RequestOK, NamesFresh, BeforeStore, Unpaid
    <3>2. LocalsSet(r)'
      BY <2>1, <2>2, <2>3 DEF LocalsSet, Computing
    <3>3. ResultStored(r)'
      BY <2>1, <2>2, <2>3 DEF ResultStored, Rows
    <3> QED
      BY <2>3, <3>1, <3>2, <3>3 DEF RequestOK, LatestLocked, ResolveAlone, RowKept, Computing
  <2>7. ASSUME NEW q \in Requests, q # r PROVE RequestOK(q)'
    BY <1>2, <2>0, <2>2, <2>3, <2>7, InsertOthers
  <2> QED
    BY <2>4, <2>5, <2>6, <2>7 DEF IInv
<1> QED
  BY <1>1, <1>2 DEF InsertResult

-----------------------------------------------------------------------------
(* The steps after the store                                               *)

\* A request past the store has a result whose outage exists.
LEMMA StoredFacts ==
    ASSUME IInv, NEW r \in Requests, pc[r] \in Stored
    PROVE  /\ req[r].outage \in DOMAIN outage /\ req[r].outage \in Outages
           /\ outage[req[r].outage] \in Outage
           /\ req[r].row \in Rows(req[r].outage) /\ req[r].row \in DOMAIN sla
           /\ sla[req[r].row] \in SlaRow
  BY DEF IInv, TypeOK, TablesOK, SettledOutageKept, RequestOK, ResultStored, Rows

\* A request that goes from one step past the store to the next keeps its
\* promises, as long as a payment exists when it gets to Notify.
LEMMA StoredNext ==
    ASSUME IInv, NEW r \in Requests, pc[r] \in Stored, NEW next \in Stored \cup {"200"},
           pc'[r] = next, req'[r] = req[r], sla' = sla,
           next \in Unpaid => pc[r] \in Unpaid /\ payment' = payment,
           next = "notify" => PaymentsOf(req[r].row)' # {}
    PROVE  RequestOK(r)'
<1>1. CASE next = "200"
  BY <1>1, EndedOK DEF Ends
<1>2. CASE next \in Stored
  <2>1. NamesFresh(r)'
    BY <1>2 DEF IInv, RequestOK, NamesFresh, BeforeStore, Unpaid, Stored
  <2>2. LocalsSet(r)'
    BY <1>2, StoredFacts DEF LocalsSet, Stored, Unpaid, Computing
  <2>3. ResultStored(r)'
    BY <1>2, StoredFacts DEF ResultStored, Rows, PaymentsOf
  <2> QED
    BY <1>2, <2>1, <2>2, <2>3
       DEF RequestOK, LatestLocked, ResolveAlone, RowKept, Stored, Unpaid, Computing
<1> QED
  BY <1>1, <1>2

\* The three steps past the store that annotate the outage and commit.
LEMMA AnnotateStored ==
    ASSUME IInv, NEW r \in Requests, pc[r] \in Stored, NEW next \in Stored \cup {"200"},
           next # "notify", next \in Unpaid => pc[r] \in Unpaid,
           Free(r, RowLock(req[r].outage)), Release(r), Goto(r, next),
           UNCHANGED <<sla, payment, notified, req, edits>>,
           NEW row \in Outage, outage' = [outage EXCEPT ![req[r].outage] = row],
           row.status = outage[req[r].outage].status,
           row.mttr_minutes = outage[req[r].outage].mttr_minutes,
           row.resolved_at = outage[req[r].outage].resolved_at
    PROVE  IInv'
<1>1. req[r].outage \in DOMAIN outage
  BY StoredFacts
<1>2. pc'[r] = next
  BY DEF Goto, IInv, TypeOK
<1>3. RequestOK(r)'
  BY <1>2, StoredNext
<1>4. next \in Steps \cup Ends
  BY DEF Stored, Unpaid, Steps, Ends
<1> QED
  BY <1>1, <1>3, <1>4, AnnotateStep DEF IInv, TypeOK

\* The sla_computed event of a resolve.
LEMMA ComputedEventPreserves ==
    ASSUME IInv, NEW r \in Requests, ComputedEvent(r)
    PROVE  IInv'
<1> DEFINE o == req[r].outage
           row == [outage[o] EXCEPT !.events = @ \cup {"sla_computed"}]
<1>1. pc[r] = "computed_event" /\ pc[r] \in Stored
  BY DEF ComputedEvent, Stored, Unpaid
<1>2. /\ row \in Outage /\ row.status = outage[o].status
      /\ row.mttr_minutes = outage[o].mttr_minutes /\ row.resolved_at = outage[o].resolved_at
  BY <1>1, StoredFacts DEF Outage, EventTypes
<1>3. /\ Free(r, RowLock(o)) /\ Release(r) /\ Goto(r, "sla_status")
      /\ UNCHANGED <<sla, payment, notified, req, edits>>
      /\ outage' = [outage EXCEPT ![o] = row]
  BY DEF ComputedEvent
<1> HIDE DEF row
<1> QED
  BY <1>1, <1>2, <1>3, AnnotateStored DEF Stored, Unpaid

\* The denormalized sla_status.
LEMMA WriteSlaStatusPreserves ==
    ASSUME IInv, NEW r \in Requests, WriteSlaStatus(r)
    PROVE  IInv'
<1> DEFINE o == req[r].outage
           row == [outage[o] EXCEPT !.sla_status = StatusOf(sla[req[r].row].result)]
<1>1. pc[r] = "sla_status" /\ pc[r] \in Stored
  BY DEF WriteSlaStatus, Stored, Unpaid
<1>2. StatusOf(sla[req[r].row].result) \in SlaStatus
  BY <1>1, StoredFacts DEF StatusOf, SlaStatus, SlaRow, SLAResult
<1>3. /\ row \in Outage /\ row.status = outage[o].status
      /\ row.mttr_minutes = outage[o].mttr_minutes /\ row.resolved_at = outage[o].resolved_at
  BY <1>1, <1>2, StoredFacts DEF Outage
<1>4. /\ Free(r, RowLock(o)) /\ Release(r) /\ Goto(r, "find_payment")
      /\ UNCHANGED <<sla, payment, notified, req, edits>>
      /\ outage' = [outage EXCEPT ![o] = row]
  BY DEF WriteSlaStatus
<1> HIDE DEF row
<1> QED
  BY <1>1, <1>3, <1>4, AnnotateStored DEF Stored, Unpaid

\* The sla_recomputed event of a recompute.
LEMMA RecomputedEventPreserves ==
    ASSUME IInv, NEW r \in Requests, RecomputedEvent(r)
    PROVE  IInv'
<1> DEFINE o == req[r].outage
           row == [outage[o] EXCEPT !.events = @ \cup {"sla_recomputed"}]
<1>1. pc[r] = "recomputed_event" /\ pc[r] \in Stored
  BY DEF RecomputedEvent, Stored
<1>2. /\ row \in Outage /\ row.status = outage[o].status
      /\ row.mttr_minutes = outage[o].mttr_minutes /\ row.resolved_at = outage[o].resolved_at
  BY <1>1, StoredFacts DEF Outage, EventTypes
<1>3. /\ Free(r, RowLock(o)) /\ Release(r) /\ Goto(r, "200")
      /\ UNCHANGED <<sla, payment, notified, req, edits>>
      /\ outage' = [outage EXCEPT ![o] = row]
  BY DEF RecomputedEvent
<1> HIDE DEF row
<1> QED
  BY <1>1, <1>2, <1>3, AnnotateStored DEF Unpaid

\* The lookup of the result's payment.
LEMMA FindPaymentPreserves ==
    ASSUME IInv, NEW r \in Requests, FindPayment(r)
    PROVE  IInv'
<1>1. /\ pc[r] = "find_payment" /\ pc[r] \in Stored /\ pc[r] \in Unpaid
      /\ UNCHANGED <<tables, lock, req, edits>>
  BY DEF FindPayment, Stored, Unpaid
<1>2. PICK next \in {"insert_payment", "notify"} :
         /\ Goto(r, next)
         /\ next = "notify" => PaymentsOf(req[r].row) # {}
  BY DEF FindPayment
<1>3. pc' = [pc EXCEPT ![r] = next] /\ pc'[r] = next
  BY <1>2 DEF Goto, IInv, TypeOK
<1>4. TypeOK'
  BY <1>1, <1>3 DEF IInv, TypeOK, tables, Steps
<1>5. RequestOK(r)'
  BY <1>1, <1>2, <1>3, StoredNext DEF tables, PaymentsOf, Stored, Unpaid
<1> QED
  BY <1>1, <1>3, <1>4, <1>5, LocalStep DEF IInv, TypeOK

\* The payment: the result had none, so it is its only one.
LEMMA InsertPaymentPreserves ==
    ASSUME IInv, NEW r \in Requests, InsertPayment(r)
    PROVE  IInv'
<1> DEFINE o == req[r].outage
           s == req[r].row
<1>0. pc[r] = "insert_payment" /\ pc[r] \in Stored /\ req' = req
  BY DEF InsertPayment, Stored, Unpaid
<1>1. CASE Fail(r, "503")
  BY <1>0, <1>1, FailPreserves DEF Ends, IInv, TypeOK
<1>2. CASE /\ PaymentAllowed(r)
           /\ payment' = [p \in DOMAIN payment \cup {r} |->
                            IF p = r THEN PaymentFor(o, s) ELSE payment[p]]
           /\ Release(r) /\ Goto(r, "notify") /\ UNCHANGED <<outage, sla, notified, edits>>
  <2>1. /\ s \in DOMAIN sla /\ sla[s] \in SlaRow /\ sla[s].outage = o /\ o \in Outages
        /\ r \notin DOMAIN payment /\ PaymentsOf(s) = {}
    BY <1>0, <1>2, StoredFacts DEF Rows, IInv, RequestOK, NamesFresh, Unpaid, PaymentAllowed
  <2>2. PaymentFor(o, s) \in Payment /\ PaymentFor(o, s).sla_result_id = s
    <3>1. Abs(sla[s].result.amount) \in Nat
      BY <2>1 DEF Abs, SlaRow, SLAResult
    <3>2. s \in Requests
      BY <2>1 DEF IInv, TypeOK
    <3> QED
      BY <2>1, <3>1, <3>2 DEF PaymentFor, Payment, SlaRow, SLAResult
  <2>3. /\ DOMAIN payment' = DOMAIN payment \cup {r} /\ payment'[r] = PaymentFor(o, s)
        /\ \A p \in DOMAIN payment : payment'[p] = payment[p]
    BY <1>2, <2>1
  <2>4. pc' = [pc EXCEPT ![r] = "notify"] /\ pc'[r] = "notify"
    BY <1>2 DEF Goto, IInv, TypeOK
  <2>5. TypeOK'
    BY <1>0, <1>2, <2>2, <2>3, <2>4, ReleaseKeeps DEF IInv, TypeOK, Steps
  <2>6. PaymentsOf(s)' = {r} /\ \A t \in DOMAIN sla \ {s} : PaymentsOf(t)' = PaymentsOf(t)
    BY <1>0, <2>1, <2>2, <2>3 DEF PaymentsOf
  <2>7. TablesOK'
    <3>1. PaidOncePerResult'
      <4>1. payment'[r] = PaymentFor(sla[s].outage, s)' /\ payment'[r].sla_result_id = s
        BY <1>0, <1>2, <2>1, <2>2, <2>3 DEF PaymentFor
      <4>2. ASSUME NEW p \in DOMAIN payment
            PROVE  LET t == payment[p].sla_result_id
                   IN  /\ t \in DOMAIN sla /\ t # s /\ PaymentsOf(t)' = {p}
                       /\ payment[p] = PaymentFor(sla[t].outage, t)
        BY <2>1, <2>6 DEF IInv, TablesOK, PaidOncePerResult, PaymentsOf
      <4> QED
        BY <1>0, <1>2, <2>1, <2>3, <2>6, <4>1, <4>2 DEF PaidOncePerResult, PaymentFor
    <3>2. NotifiedAfterPayment'
      BY <1>2, <2>3 DEF IInv, TablesOK, NotifiedAfterPayment, PaymentsOf
    <3> QED
      BY <1>2, <3>1, <3>2 DEF IInv, TablesOK, SettledOutageKept, ExactlyOneLatest,
                              ComputeHashUnique, OpenHasNoMttr, Rows, LatestRows
  <2>8. RequestOK(r)'
    BY <1>0, <1>2, <2>4, <2>6, StoredNext DEF Stored, Unpaid
  <2>9. ASSUME NEW q \in Requests, q # r PROVE RequestOK(q)'
    <3>1. pc'[q] = pc[q] /\ req'[q] = req[q] /\ \A l \in Locks : lock[l] = q => lock'[l] = q
      BY <1>0, <1>2, <2>4, <2>9, ReleaseKeeps DEF IInv, TypeOK
    <3>2. RequestOK(q)
      BY DEF IInv
    <3>3. NamesFresh(q)' /\ LocalsSet(q)'
      BY <1>2, <2>3, <2>9, <3>1, <3>2 DEF RequestOK, NamesFresh, LocalsSet, Running
    <3>4. LatestLocked(q)'
      BY <1>2, <3>1, <3>2, LockNames DEF IInv, TypeOK, RequestOK, LatestLocked, Rows, LatestRows
    <3>5. ResultStored(q)'
      BY <1>2, <2>3, <3>1, <3>2 DEF RequestOK, ResultStored, Rows, PaymentsOf
    <3>6. ResolveAlone(q)'
      BY <1>2, <3>1, <3>2, LockNames DEF RequestOK, ResolveAlone, LocalsSet, Running, Steps, Exists
    <3>7. RowKept(q)'
      BY <1>2, <3>1, <3>2, LockNames DEF RequestOK, RowKept, LocalsSet, Running, Steps, Computing,
                                         Exists
    <3> QED
      BY <3>3, <3>4, <3>5, <3>6, <3>7 DEF RequestOK
  <2> QED
    BY <2>5, <2>7, <2>8, <2>9 DEF IInv
<1> QED
  BY <1>1, <1>2 DEF InsertPayment

\* The webhooks of a violation: the request that gets here has its payment.
LEMMA NotifyPreserves ==
    ASSUME IInv, NEW r \in Requests, Notify(r)
    PROVE  IInv'
<1> DEFINE s == req[r].row
<1>1. /\ pc[r] = "notify" /\ pc[r] \in Stored
      /\ UNCHANGED <<outage, sla, payment, lock, req, edits>>
      /\ notified' = IF sla[s].result.status = "violated"
                     THEN notified \cup {<<r, s>>} ELSE notified
  BY DEF Notify, Stored
<1>2. PICK next \in {"200", "recomputed_event"} : Goto(r, next)
  BY DEF Notify
<1>3. pc' = [pc EXCEPT ![r] = next] /\ pc'[r] = next
  BY <1>2 DEF Goto, IInv, TypeOK
<1>4. s \in DOMAIN sla /\ s \in Requests /\ PaymentsOf(s) # {}
  BY <1>1, StoredFacts DEF IInv, TypeOK, RequestOK, ResultStored
<1>5. TypeOK'
  BY <1>1, <1>3, <1>4 DEF IInv, TypeOK, Steps, Ends
<1>6. TablesOK'
  <2>1. NotifiedAfterPayment'
    BY <1>1, <1>4 DEF IInv, TablesOK, NotifiedAfterPayment, PaymentsOf
  <2> QED
    BY <1>1, <2>1 DEF IInv, TablesOK, SettledOutageKept, ExactlyOneLatest, ComputeHashUnique,
                      PaidOncePerResult, PaymentsOf, PaymentFor, OpenHasNoMttr, Rows, LatestRows
<1>7. RequestOK(r)'
  BY <1>1, <1>2, <1>3, StoredNext DEF Stored, Unpaid
<1>8. ASSUME NEW q \in Requests, q # r PROVE RequestOK(q)'
  <2>1. pc'[q] = pc[q] /\ req'[q] = req[q] /\ \A l \in Locks : lock[l] = q => lock'[l] = q
    BY <1>1, <1>3, <1>8 DEF IInv, TypeOK
  <2> QED
    BY <1>1, <2>1, OtherFrame DEF IInv
<1> QED
  BY <1>5, <1>6, <1>7, <1>8 DEF IInv

-----------------------------------------------------------------------------
(* The invariant of the specification                                      *)

\* The empty tables and the requests not yet begun satisfy the invariant.
LEMMA InitIInv == Init => IInv
<1> SUFFICES ASSUME Init PROVE IInv
  OBVIOUS
<1>1. /\ DOMAIN outage = {} /\ DOMAIN sla = {} /\ DOMAIN payment = {} /\ notified = {}
      /\ \A r \in Requests : pc[r] = "start" /\ req[r] = Unused
  BY DEF Init
<1>2. Unused \in Request /\ Unused.latest = None
  BY DEF Unused, Request, ResolvedAt
<1>3. TypeOK
  BY <1>1, <1>2, SettlementAssumption DEF TypeOK, Init
<1>4. TablesOK
  BY <1>1 DEF TablesOK, SettledOutageKept, ExactlyOneLatest, ComputeHashUnique,
              PaidOncePerResult, NotifiedAfterPayment, OpenHasNoMttr, Rows
<1>5. ASSUME NEW r \in Requests PROVE RequestOK(r)
  BY <1>1, <1>2 DEF RequestOK, NamesFresh, LocalsSet, LatestLocked, ResultStored, ResolveAlone,
                    RowKept, Running, Steps, BeforeStore, Computing, Unpaid, Stored
<1> QED
  BY <1>3, <1>4, <1>5 DEF IInv

\* A crash or a deadlock abort is a failure like any other.
LEMMA AbortPreserves ==
    ASSUME IInv, NEW r \in Requests, Crash(r) \/ BreakDeadlock(r)
    PROVE  IInv'
<1>1. req' = req /\ (Fail(r, "crashed") \/ Fail(r, "503"))
  BY DEF Crash, BreakDeadlock
<1> QED
  BY <1>1, FailPreserves DEF Ends, IInv, TypeOK

\* Every step of every request and every edit preserves the invariant.
LEMMA NextIInv == IInv /\ [Next]_vars => IInv'
<1> SUFFICES ASSUME IInv, [Next]_vars PROVE IInv'
  OBVIOUS
<1>1. ASSUME NEW o \in Outages, CreateOutage(o) \/ UpdateOutage(o) \/ DeleteOutage(o)
      PROVE  IInv'
  BY <1>1, CreateOutagePreserves, UpdateOutagePreserves, DeleteOutagePreserves
<1>2. ASSUME NEW r \in Requests, ResolveBegin(r) \/ RecomputeBegin(r) \/ Crash(r)
      PROVE  IInv'
  BY <1>2, ResolveBeginPreserves, RecomputeBeginPreserves, AbortPreserves
<1>3. ASSUME NEW r \in Requests, Step(r)
      PROVE  IInv'
  <2>1. CASE ResolveOutage(r)
    BY <2>1, ResolveOutagePreserves
  <2>2. CASE ResolvedEvent(r)
    BY <2>2, ResolvedEventPreserves
  <2>3. CASE RecomputeRow(r)
    BY <2>3, RecomputeRowPreserves
  <2>4. CASE FindByComputeHash(r)
    BY <2>4, FindByComputeHashPreserves
  <2>5. CASE LockLatest(r)
    BY <2>5, LockLatestPreserves
  <2>6. CASE LatestUnlocked(r)
    BY <2>6, LatestUnlockedPreserves
  <2>7. CASE InsertResult(r)
    BY <2>7, InsertResultPreserves
  <2>8. CASE ComputedEvent(r)
    BY <2>8, ComputedEventPreserves
  <2>9. CASE WriteSlaStatus(r)
    BY <2>9, WriteSlaStatusPreserves
  <2>10. CASE FindPayment(r)
    BY <2>10, FindPaymentPreserves
  <2>11. CASE InsertPayment(r)
    BY <2>11, InsertPaymentPreserves
  <2>12. CASE Notify(r)
    BY <2>12, NotifyPreserves
  <2>13. CASE RecomputedEvent(r)
    BY <2>13, RecomputedEventPreserves
  <2>14. CASE BreakDeadlock(r)
    BY <2>14, AbortPreserves
  <2> QED
    BY <1>3, <2>1, <2>2, <2>3, <2>4, <2>5, <2>6, <2>7, <2>8, <2>9, <2>10, <2>11, <2>12,
       <2>13, <2>14 DEF Step
<1>4. CASE UNCHANGED vars
  <2>1. UNCHANGED <<outage, sla, payment, notified, lock, pc, req, edits>>
    BY <1>4 DEF vars
  <2>2. TypeOK' /\ TablesOK'
    BY <2>1, TablesFrame DEF IInv, TypeOK, tables
  <2>3. ASSUME NEW q \in Requests PROVE RequestOK(q)'
    BY <2>1, OtherFrame DEF IInv
  <2> QED
    BY <2>2, <2>3 DEF IInv
<1> QED
  BY <1>1, <1>2, <1>3, <1>4 DEF Next

\* IInv holds in every reachable state.
THEOREM Invariance == Spec => []IInv
  BY InitIInv, NextIInv, PTL DEF Spec

-----------------------------------------------------------------------------
(* The properties                                                          *)

\* Tables, columns and the handlers' variables keep their types.
THEOREM TypeCorrect == Spec => []TypeOK
<1>1. IInv => TypeOK
  BY DEF IInv
<1> QED
  BY <1>1, Invariance, PTL

\* create_if_changed: a settled outage has exactly one latest SLA result.
THEOREM OneLatestResult == Spec => []ExactlyOneLatest
<1>1. IInv => ExactlyOneLatest
  BY DEF IInv, TablesOK
<1> QED
  BY <1>1, Invariance, PTL

\* create_for_sla_result: an SLA result is paid at most once, and what is paid
\* is what the result says.
THEOREM NeverPaidTwice == Spec => []PaidOncePerResult
<1>1. IInv => PaidOncePerResult
  BY DEF IInv, TablesOK
<1> QED
  BY <1>1, Invariance, PTL

\* Migration 0011: an outage is paid at most once in each direction.  Only
\* InsertPayment adds a payment, and the constraint refuses a second one.
THEOREM NeverPaidTwicePerDirection == Spec => []PaidOncePerDirection
<1>1. Init => PaidOncePerDirection
  BY DEF Init, PaidOncePerDirection
<1>2. ASSUME PaidOncePerDirection, [Next]_vars
      PROVE  PaidOncePerDirection'
  <2>1. CASE payment' = payment
    BY <1>2, <2>1 DEF PaidOncePerDirection
  <2>2. ASSUME NEW r \in Requests, InsertPayment(r)
        PROVE  PaidOncePerDirection'
    <3>1. CASE payment' # payment
      <4> DEFINE new == PaymentFor(req[r].outage, req[r].row)
      <4>1. /\ PaymentAllowed(r) /\ DOMAIN payment' = DOMAIN payment \cup {r}
            /\ payment'[r] = new
            /\ \A p \in DOMAIN payment : p # r => payment'[p] = payment[p]
        BY <2>2, <3>1 DEF InsertPayment, Fail, tables
      <4>2. new.outage = req[r].outage /\ new.type = sla[req[r].row].result.payment_type
        BY DEF PaymentFor
      <4>3. \A p \in DOMAIN payment : new.outage = payment[p].outage => new.type # payment[p].type
        BY <4>1, <4>2 DEF PaymentAllowed
      <4> HIDE DEF new
      <4> QED
        BY <1>2, <4>1, <4>3 DEF PaidOncePerDirection
    <3> QED
      BY <2>1, <3>1
  <2>3. ASSUME NEW o \in Outages, CreateOutage(o) \/ UpdateOutage(o) \/ DeleteOutage(o)
        PROVE  payment' = payment
    BY <2>3 DEF CreateOutage, UpdateOutage, DeleteOutage
  <2>4. ASSUME NEW r \in Requests,
               \/ ResolveBegin(r) \/ RecomputeBegin(r) \/ Crash(r) \/ ResolveOutage(r)
               \/ ResolvedEvent(r) \/ RecomputeRow(r) \/ FindByComputeHash(r)
               \/ LockLatest(r) \/ LatestUnlocked(r)
        PROVE  payment' = payment
    BY <2>4 DEF ResolveBegin, RecomputeBegin, Crash, ResolveOutage, ResolvedEvent,
                RecomputeRow, FindByComputeHash, LockLatest, LatestUnlocked, Fail, tables
  <2>5. ASSUME NEW r \in Requests,
               \/ InsertResult(r) \/ ComputedEvent(r) \/ WriteSlaStatus(r) \/ FindPayment(r)
               \/ Notify(r) \/ RecomputedEvent(r) \/ BreakDeadlock(r)
        PROVE  payment' = payment
    BY <2>5 DEF InsertResult, ComputedEvent, WriteSlaStatus, FindPayment, Notify,
                RecomputedEvent, BreakDeadlock, Fail, tables
  <2>6. CASE UNCHANGED vars
    BY <2>1, <2>6 DEF vars
  <2> QED
    BY <1>2, <2>1, <2>2, <2>3, <2>4, <2>5, <2>6 DEF Next, Step
<1> QED
  BY <1>1, <1>2, PTL DEF Spec

\* find_by_compute_hash and its unique constraint: one result per hash.
THEOREM OneResultPerHash == Spec => []ComputeHashUnique
<1>1. IInv => ComputeHashUnique
  BY DEF IInv, TablesOK
<1> QED
  BY <1>1, Invariance, PTL

\* has_financial_history: a settled outage stays.
THEOREM SettledNeverDeleted == Spec => []SettledOutageKept
<1>1. IInv => SettledOutageKept
  BY DEF IInv, TablesOK
<1> QED
  BY <1>1, Invariance, PTL

\* get_orm_locked: a recompute works on values that are still the outage's.
THEOREM RecomputeNeverStale == Spec => []RecomputeInputsFresh
<1>1. IInv => RecomputeInputsFresh
  BY DEF IInv, RequestOK, RowKept, Exists, RecomputeInputsFresh, Computing
<1> QED
  BY <1>1, Invariance, PTL

\* Both handlers: no violation is announced before its payment is recorded.
THEOREM PaidBeforeNotified == Spec => []NotifiedAfterPayment
<1>1. IInv => NotifiedAfterPayment
  BY DEF IInv, TablesOK
<1> QED
  BY <1>1, Invariance, PTL

\* OutageRepository.resolve: the first recorded MTTR stands.  Only ResolveOutage
\* writes the column, and a resolve that got past its read has kept every other
\* resolve out since (ResolveAlone).
THEOREM MttrNeverOverwritten == Spec => MttrWrittenOnce
<1> DEFINE Kept == \A o \in DOMAIN outage \cap DOMAIN outage' :
                      outage[o].mttr_minutes # None
                          => outage'[o].mttr_minutes = outage[o].mttr_minutes
<1>1. ASSUME IInv, Next PROVE Kept
  <2>0. \A o \in DOMAIN outage : outage[o] \in Outage
    BY <1>1 DEF IInv, TypeOK
  <2>1. ASSUME NEW o \in Outages, CreateOutage(o) \/ UpdateOutage(o) \/ DeleteOutage(o)
        PROVE  Kept
    <3>1. CASE CreateOutage(o)
      BY <3>1 DEF CreateOutage, Exists
    <3>2. CASE UpdateOutage(o)
      <4>1. PICK status \in {"open", "resolved"}, severity \in Severities,
                 resolved_at \in ResolvedAt :
               outage' = [outage EXCEPT ![o].status = status,
                                        ![o].severity = severity,
                                        ![o].resolved_at = resolved_at,
                                        ![o].events = @ \cup {"updated"}]
        BY <3>2 DEF UpdateOutage
      <4> QED
        BY <2>0, <4>1 DEF Outage
    <3>3. CASE DeleteOutage(o)
      BY <3>3 DEF DeleteOutage
    <3> QED
      BY <2>1, <3>1, <3>2, <3>3
  <2>2. ASSUME NEW r \in Requests, ResolveBegin(r) \/ RecomputeBegin(r) \/ Crash(r)
        PROVE  Kept
    <3>1. outage' = outage
      BY <2>2 DEF ResolveBegin, RecomputeBegin, Crash, Fail, tables
    <3> QED
      BY <3>1
  <2>3. ASSUME NEW r \in Requests, ResolveOutage(r)
        PROVE  Kept
    <3>1. Exists(req[r].outage) => outage[req[r].outage].mttr_minutes = None
      BY <1>1, <2>3 DEF IInv, RequestOK, ResolveAlone, ResolveOutage
    <3>2. CASE outage' = outage
      BY <3>2
    <3>3. CASE Exists(req[r].outage) /\ outage' # outage
      <4>1. \A o \in DOMAIN outage \ {req[r].outage} : outage'[o] = outage[o]
        BY <2>3, <3>3 DEF ResolveOutage, Fail, tables
      <4> QED
        BY <3>1, <3>3, <4>1
    <3> QED
      BY <2>3, <3>2, <3>3 DEF ResolveOutage, Fail, tables
  <2>4. ASSUME NEW r \in Requests,
               \/ ResolvedEvent(r) \/ ComputedEvent(r) \/ WriteSlaStatus(r)
               \/ RecomputedEvent(r)
        PROVE  Kept
    <3>1. CASE ResolvedEvent(r)
      BY <2>0, <3>1 DEF ResolvedEvent, Fail, tables, Outage
    <3>2. CASE ComputedEvent(r)
      BY <2>0, <3>2 DEF ComputedEvent, Outage
    <3>3. CASE WriteSlaStatus(r)
      BY <2>0, <3>3 DEF WriteSlaStatus, Outage
    <3>4. CASE RecomputedEvent(r)
      BY <2>0, <3>4 DEF RecomputedEvent, Outage
    <3> QED
      BY <2>4, <3>1, <3>2, <3>3, <3>4
  <2>5. ASSUME NEW r \in Requests,
               \/ RecomputeRow(r) \/ FindByComputeHash(r) \/ LockLatest(r)
               \/ LatestUnlocked(r) \/ InsertResult(r) \/ FindPayment(r)
               \/ InsertPayment(r) \/ Notify(r) \/ BreakDeadlock(r)
        PROVE  Kept
    <3>1. outage' = outage
      BY <2>5 DEF RecomputeRow, FindByComputeHash, LockLatest, LatestUnlocked, InsertResult,
                  FindPayment, InsertPayment, Notify, BreakDeadlock, Fail, tables
    <3> QED
      BY <3>1
  <2> QED
    BY <1>1, <2>1, <2>2, <2>3, <2>4, <2>5 DEF Next, Step
<1>2. IInv /\ [Next]_vars => [Kept]_vars
  BY <1>1
<1> QED
  BY <1>2, Invariance, PTL DEF Spec, MttrWrittenOnce

\* SLARepository.create: results are history.  Only InsertResult writes to the
\* table, and a row it changes belongs to the outage of the row it inserts.
THEOREM ResultsAreHistory == Spec => ResultsOnlySuperseded
<1> DEFINE Superseded ==
             \A s \in DOMAIN sla :
                /\ s \in DOMAIN sla'
                /\ sla'[s] # sla[s] =>
                      /\ sla'[s] = [sla[s] EXCEPT !.is_latest = FALSE]
                      /\ \E t \in DOMAIN sla' \ DOMAIN sla :
                            sla'[t].outage = sla[s].outage /\ sla'[t].is_latest
<1>1. ASSUME IInv, Next PROVE Superseded
  <2>1. CASE sla' = sla
    BY <2>1
  <2>2. ASSUME NEW r \in Requests, pc[r] = "insert", InsertAllowed(r), sla' = WithNewLatest(r)
        PROVE  Superseded
    <3>1. /\ r \notin DOMAIN sla /\ DOMAIN sla' = DOMAIN sla \cup {r}
          /\ sla'[r].is_latest /\ sla'[r].outage = req[r].outage
          /\ \A s \in DOMAIN sla : sla[s].outage # req[r].outage => sla'[s] = sla[s]
      BY <1>1, <2>2, InsertedRows
    <3>2. \A s \in DOMAIN sla : sla'[s] = sla[s] \/ sla'[s] = [sla[s] EXCEPT !.is_latest = FALSE]
      BY <2>2, <3>1 DEF WithNewLatest
    <3> QED
      BY <3>1, <3>2
  <2>3. ASSUME NEW r \in Requests, InsertResult(r)
        PROVE  Superseded
    BY <2>1, <2>2, <2>3 DEF InsertResult, Fail, tables
  <2>4. ASSUME NEW o \in Outages, CreateOutage(o) \/ UpdateOutage(o) \/ DeleteOutage(o)
        PROVE  Superseded
    BY <2>1, <2>4 DEF CreateOutage, UpdateOutage, DeleteOutage
  <2>5. ASSUME NEW r \in Requests,
               \/ ResolveBegin(r) \/ RecomputeBegin(r) \/ Crash(r) \/ ResolveOutage(r)
               \/ ResolvedEvent(r) \/ RecomputeRow(r) \/ FindByComputeHash(r)
               \/ LockLatest(r) \/ LatestUnlocked(r)
        PROVE  Superseded
    <3>1. sla' = sla
      BY <2>5 DEF ResolveBegin, RecomputeBegin, Crash, ResolveOutage, ResolvedEvent,
                  RecomputeRow, FindByComputeHash, LockLatest, LatestUnlocked, Fail, tables
    <3> QED
      BY <2>1, <3>1
  <2>6. ASSUME NEW r \in Requests,
               \/ ComputedEvent(r) \/ WriteSlaStatus(r) \/ FindPayment(r) \/ InsertPayment(r)
               \/ Notify(r) \/ RecomputedEvent(r) \/ BreakDeadlock(r)
        PROVE  Superseded
    <3>1. sla' = sla
      BY <2>6 DEF ComputedEvent, WriteSlaStatus, FindPayment, InsertPayment, Notify,
                  RecomputedEvent, BreakDeadlock, Fail, tables
    <3> QED
      BY <2>1, <3>1
  <2> QED
    BY <1>1, <2>3, <2>4, <2>5, <2>6 DEF Next, Step
<1>2. IInv /\ [Next]_vars => [Superseded]_vars
  BY <1>1
<1> QED
  BY <1>2, Invariance, PTL DEF Spec, ResultsOnlySuperseded

=============================================================================
