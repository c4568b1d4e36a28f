-------------------------- MODULE WebhookDelivery --------------------------
(***************************************************************************)
(* Delivery of webhooks: the records in webhook_deliveries, the Celery     *)
(* tasks that send them, the periodic sweep that re-sends the failed ones, *)
(* and the retry and replay endpoints, composed with the circuit breaker.  *)
(*                                                                         *)
(* A worker is a thread that runs one of these at a time.  Its steps are   *)
(* the commits and the HTTP request: what happens between two of them      *)
(* (loading the record, validating the URL, asking the breaker; reporting  *)
(* to the breaker, writing the outcome) is one step.                       *)
(*                                                                         *)
(* next_retry_at is kept as an order: a delivery is in `scheduled' while   *)
(* its time lies ahead, in `due' (oldest first) once it has passed, and in *)
(* neither when the column is NULL.  All deliveries go to one host.  The   *)
(* status column is the ORM's (no migration adds its last two values).     *)
(* Not modelled: the webhook registry and the fan-out to subscribers, the  *)
(* retention cleanup (nothing calls it), eager mode (refused in            *)
(* production), and the payload with its signature.                        *)
(***************************************************************************)
EXTENDS CircuitBreaker, SeqFilter

CONSTANTS
    Deliveries,        \* ids of delivery records
    TaskWorkers,       \* run dispatch_webhook_delivery
    Sweepers,          \* run retry_pending_webhook_deliveries
    ApiThreads,        \* run the endpoints and trigger the webhooks
    Replayers,         \* the API threads that replay dead letters
    MaxRetries,        \* the webhook's max_retries
    RetryDelays,       \* number of delays in WEBHOOK_RETRY_BASE_DELAYS
    BatchSize,         \* WEBHOOK_RETRY_BATCH_SIZE
    MaxCrashes,        \* bound: process crashes
    TaskRetries        \* max_retries of the Celery task

ASSUME DeliveryAssumption ==
    /\ Callers = TaskWorkers \cup Sweepers \cup ApiThreads
    /\ TaskWorkers \cap Sweepers = {}
    /\ TaskWorkers \cap ApiThreads = {} /\ Sweepers \cap ApiThreads = {}
    /\ Replayers \subseteq ApiThreads
    /\ MaxRetries \in Nat /\ RetryDelays \in Nat \ {0}
    /\ BatchSize \in Nat \ {0} /\ MaxCrashes \in Nat /\ TaskRetries \in Nat

VARIABLES
    status,      \* delivery -> status, "none" while there is no record
    attempts,    \* delivery -> attempt_count
    scheduled,   \* deliveries whose next_retry_at lies ahead
    due,         \* deliveries whose next_retry_at has passed, oldest first
    queue,       \* Celery messages <<delivery, retries so far>>
    step,        \* worker -> what it does next
    todo,        \* worker -> the deliveries it has to dispatch, in order
    loaded,      \* worker -> attempt_count of the delivery it sends
    retries,     \* task worker -> self.request.retries
    crashes      \* process crashes so far

rows == <<status, attempts, scheduled, due>>
locals == <<step, todo, loaded, retries>>
vars == <<status, attempts, scheduled, due, queue, step, todo, loaded, retries,
          crashes, breaker, redis_open, sending>>

-----------------------------------------------------------------------------

DeliveryStatus ==
    {"pending", "sending", "success", "retrying", "dead_letter", "breaker_open"}

\* A worker is idle, has put a record in the database and not yet enqueued it,
\* has decided to replay, is about to claim, has claimed, or awaits an answer.
WorkerStep == {"idle", "enqueue", "replay", "claim", "attempt", "post"}

\* max_retries or 3, and no more than there are delays.
RetryBudget ==
    LET max_retries == IF MaxRetries = 0 THEN 3 ELSE MaxRetries
    IN  IF max_retries < RetryDelays THEN max_retries ELSE RetryDelays

Init ==
    /\ status = [d \in Deliveries |-> "none"]
    /\ attempts = [d \in Deliveries |-> 0]
    /\ scheduled = {}
    /\ due = <<>>
    /\ queue = {}
    /\ step = [w \in Callers |-> "idle"]
    /\ todo = [w \in Callers |-> <<>>]
    /\ loaded = [w \in Callers |-> 0]
    /\ retries = [w \in Callers |-> 0]
    /\ crashes = 0
    /\ BreakerInit

Idle(w) == step[w] = "idle"

\* The worker turns to the deliveries ds.
Begin(w, next, ds) ==
    /\ step' = [step EXCEPT ![w] = next]
    /\ todo' = [todo EXCEPT ![w] = ds]
    /\ UNCHANGED <<loaded, retries>>

\* Back to nothing, at the end of the operation or because it raised.
Stop(w) ==
    /\ step' = [step EXCEPT ![w] = "idle"]
    /\ todo' = [todo EXCEPT ![w] = <<>>]
    /\ loaded' = [loaded EXCEPT ![w] = 0]
    /\ retries' = [retries EXCEPT ![w] = 0]

\* dispatch_delivery returns: on to the next delivery of the sweep, if any.
Return(w) ==
    \/ /\ Len(todo[w]) = 1
       /\ Stop(w)
    \/ /\ Len(todo[w]) > 1
       /\ Begin(w, "claim", Tail(todo[w]))

\* next_retry_at := NULL
Unschedule(d) ==
    /\ scheduled' = scheduled \ {d}
    /\ due' = Without(due, {d})

\* next_retry_at := now + delay
Schedule(d) ==
    /\ scheduled' = scheduled \cup {d}
    /\ due' = Without(due, {d})

-----------------------------------------------------------------------------
(* trigger_sla_violation_webhooks: the record is committed, then the task  *)
(* is sent.  If the broker cannot be reached the record stays as it is.    *)

Trigger(w, d) ==
    /\ Idle(w) /\ w \in ApiThreads
    /\ status[d] = "none"
    /\ status' = [status EXCEPT ![d] = "pending"]
    /\ Begin(w, "enqueue", <<d>>)
    /\ UNCHANGED <<attempts, scheduled, due, queue, crashes, breakerVars>>

Enqueue(w) ==
    /\ step[w] = "enqueue"
    /\ queue' \in {queue, queue \cup {<<Head(todo[w]), 0>>}}
    /\ Stop(w)
    /\ UNCHANGED <<rows, crashes, breakerVars>>

-----------------------------------------------------------------------------
(* The operations that end up in dispatch_delivery                         *)

TakeTask(w) ==
    /\ Idle(w) /\ w \in TaskWorkers
    /\ \E m \in queue :
          /\ queue' = queue \ {m}
          /\ step' = [step EXCEPT ![w] = "claim"]
          /\ todo' = [todo EXCEPT ![w] = <<m[1]>>]
          /\ retries' = [retries EXCEPT ![w] = m[2]]
    /\ UNCHANGED <<rows, loaded, crashes, breakerVars>>

\* An index off by one: the last due delivery is left over.
DueButLast ==
    LET waiting == Filter(due, {d \in Deliveries : status[d] \in {"retrying", "breaker_open"}})
    IN  SubSeq(waiting, 1, IF Len(waiting) - 1 < BatchSize THEN Len(waiting) - 1 ELSE BatchSize)

\* The query of retry_pending_deliveries.
DueDeliveries ==
    LET waiting == Filter(due, {d \in Deliveries : status[d] \in {"retrying", "breaker_open"}})
    IN  SubSeq(waiting, 1, IF Len(waiting) < BatchSize THEN Len(waiting) ELSE BatchSize)

Sweep(w) ==
    /\ Idle(w) /\ w \in Sweepers
    /\ DueDeliveries # <<>>
    /\ Begin(w, "claim", DueDeliveries)
    /\ UNCHANGED <<rows, queue, crashes, breakerVars>>

\* POST .../retry
RetryDelivery(w, d) ==
    /\ Idle(w) /\ w \in ApiThreads
    /\ status[d] \notin {"none", "success", "sending"}
    /\ Begin(w, "claim", <<d>>)
    /\ UNCHANGED <<rows, queue, crashes, breakerVars>>

\* Replays whatever it is given.
ReplayUnchecked(w, d) ==
    /\ Idle(w) /\ w \in Replayers
    /\ status[d] # "none"
    /\ Begin(w, "replay", <<d>>)
    /\ UNCHANGED <<rows, queue, crashes, breakerVars>>

\* What can be replayed.  POST .../replay-by-context selects from these and
\* replays its selection one by one, each as below: after the commit of one
\* replay the row of the next is read anew.
DeadLetters == {d \in Deliveries : status[d] = "dead_letter"}

\* POST .../replay: the status is read here and written in the next step,
\* whatever it is by then.
ReplayBegin(w, d) ==
    /\ Idle(w) /\ w \in Replayers
    /\ d \in DeadLetters
    /\ Begin(w, "replay", <<d>>)
    /\ UNCHANGED <<rows, queue, crashes, breakerVars>>

Replay(w) ==
    LET d == Head(todo[w])
    IN  /\ step[w] = "replay"
        /\ status' = [status EXCEPT ![d] = "pending"]
        /\ attempts' = [attempts EXCEPT ![d] = 0]
        /\ Unschedule(d)
        /\ Begin(w, "claim", <<d>>)
        /\ UNCHANGED <<queue, crashes, breakerVars>>

-----------------------------------------------------------------------------
(* dispatch_delivery                                                       *)

\* Claims whatever is not finished.
ClaimableUnsent == DeliveryStatus \ {"success", "dead_letter"}

Claimable == {"pending", "retrying"}

\* One UPDATE whose WHERE clause tests the status; a delivery that is not
\* claimable is skipped.
Claim(w) ==
    LET d == Head(todo[w])
    IN  /\ step[w] = "claim"
        /\ \/ /\ status[d] \in Claimable
              /\ status' = [status EXCEPT ![d] = "sending"]
              /\ attempts' = [attempts EXCEPT ![d] = @ + 1]
              /\ Begin(w, "attempt", todo[w])
           \/ /\ status[d] \notin Claimable
              /\ Return(w)
              /\ UNCHANGED <<status, attempts>>
        /\ UNCHANGED <<scheduled, due, queue, crashes, breakerVars>>

\* The URL does not pass validation, or no longer resolves to an approved
\* address: the exception leaves the delivery as it is.  It ends a sweep, and
\* a task is retried by Celery.
ValidationFails(w) ==
    /\ Stop(w)
    /\ queue' = IF w \in TaskWorkers /\ retries[w] < TaskRetries
                THEN queue \cup {<<Head(todo[w]), retries[w] + 1>>} ELSE queue
    /\ UNCHANGED <<rows, crashes, breakerVars>>

\* The breaker refuses.
Deferred(w) ==
    /\ Refuse(w)
    /\ status' = [status EXCEPT ![Head(todo[w])] = "breaker_open"]
    /\ Return(w)
    /\ UNCHANGED <<attempts, scheduled, due, queue, crashes>>

Post(w) ==
    /\ Allow(w)
    /\ loaded' = [loaded EXCEPT ![w] = attempts[Head(todo[w])]]
    /\ step' = [step EXCEPT ![w] = "post"]
    /\ UNCHANGED <<rows, queue, todo, retries, crashes>>

\* The record is read again after the claim: one that another worker finished
\* meanwhile is left alone.
Attempt(w) ==
    /\ step[w] = "attempt"
    /\ IF status[Head(todo[w])] \in {"success", "dead_letter"}
       THEN /\ Return(w)
            /\ UNCHANGED <<rows, queue, crashes, breakerVars>>
       ELSE ValidationFails(w) \/ Deferred(w) \/ Post(w)

Delivered(w) ==
    LET d == Head(todo[w])
    IN  /\ step[w] = "post"
        /\ OnSuccess(w)
        /\ status' = [status EXCEPT ![d] = "success"]
        /\ Unschedule(d)
        /\ Return(w)
        /\ UNCHANGED <<attempts, queue, crashes>>

\* The first attempt is not counted against the budget of retries.
RetryLeftOneMore(w) == loaded[w] - 1 <= RetryBudget

RetryLeft(w) == loaded[w] - 1 < RetryBudget

\* Any answer but a success, a timeout, or no connection.
Failed(w) ==
    LET d == Head(todo[w])
    IN  /\ step[w] = "post"
        /\ OnFailure(w)
        /\ \/ /\ RetryLeft(w)
              /\ status' = [status EXCEPT ![d] = "retrying"]
              /\ Schedule(d)
           \/ /\ ~RetryLeft(w)
              /\ status' = [status EXCEPT ![d] = "dead_letter"]
              /\ Unschedule(d)
        /\ Return(w)
        /\ UNCHANGED <<attempts, queue, crashes>>

-----------------------------------------------------------------------------
(* The environment                                                         *)

RetryTimeComes(d) ==
    /\ d \in scheduled
    /\ scheduled' = scheduled \ {d}
    /\ due' = Append(due, d)
    /\ UNCHANGED <<status, attempts, queue, locals, crashes, breakerVars>>

MarkerTimesOut ==
    /\ MarkerExpires
    /\ UNCHANGED <<rows, queue, locals, crashes>>

\* A process dies.  A message it had not acknowledged (task_acks_late) may be
\* delivered again.
Crash(p) ==
    LET mine == {w \in Callers : ProcessOf[w] = p}
        unacked == {<<Head(todo[w]), retries[w]>> : w \in
                      {w \in mine \cap TaskWorkers : step[w] # "idle"}}
    IN  /\ crashes < MaxCrashes
        /\ \E w \in mine : step[w] # "idle"
        /\ crashes' = crashes + 1
        /\ queue' \in {queue, queue \cup unacked}
        /\ step' = [w \in Callers |-> IF w \in mine THEN "idle" ELSE step[w]]
        /\ todo' = [w \in Callers |-> IF w \in mine THEN <<>> ELSE todo[w]]
        /\ loaded' = [w \in Callers |-> IF w \in mine THEN 0 ELSE loaded[w]]
        /\ retries' = [w \in Callers |-> IF w \in mine THEN 0 ELSE retries[w]]
        /\ Restart(p)
        /\ UNCHANGED rows

-----------------------------------------------------------------------------

\* A step of an operation that has begun.
Work(w) ==
    \/ Enqueue(w) \/ Replay(w) \/ Claim(w) \/ Attempt(w) \/ Delivered(w) \/ Failed(w)

Next ==
    \/ \E w \in Callers : Work(w) \/ TakeTask(w) \/ Sweep(w)
    \/ \E w \in Callers, d \in Deliveries :
          Trigger(w, d) \/ RetryDelivery(w, d) \/ ReplayBegin(w, d)
    \/ \E d \in Deliveries : RetryTimeComes(d)
    \/ \E p \in Processes : Crash(p)
    \/ MarkerTimesOut

Spec == Init /\ [][Next]_vars

\* Workers finish what they began (a request times out after ten seconds), take
\* the queued tasks, beat starts a sweep every minute, and time passes.
\* Crashes are finitely many; no client has to trigger, retry or replay.
Fairness ==
    /\ \A w \in Callers : WF_vars(Work(w)) /\ WF_vars(TakeTask(w)) /\ WF_vars(Sweep(w))
    /\ \A d \in Deliveries : WF_vars(RetryTimeComes(d))

FairSpec == Spec /\ Fairness

-----------------------------------------------------------------------------
(* Properties                                                              *)

\* Every column and local variable holds what it can hold; a worker has a list
\* of deliveries exactly while it is busy, and a request under way exactly
\* while it awaits the answer.
TypeOK ==
    /\ status \in [Deliveries -> DeliveryStatus \cup {"none"}]
    /\ attempts \in [Deliveries -> Nat]
    /\ scheduled \subseteq Deliveries
    /\ due \in Seq(Deliveries)
    /\ queue \subseteq Deliveries \X (0 .. TaskRetries)
    /\ step \in [Callers -> WorkerStep]
    /\ todo \in [Callers -> Seq(Deliveries)]
    /\ \A w \in Callers : (step[w] = "idle") = (todo[w] = <<>>)
    /\ loaded \in [Callers -> Nat]
    /\ retries \in [Callers -> 0 .. TaskRetries]
    /\ crashes \in 0 .. MaxCrashes
    /\ BreakerTypeOK
    /\ sending = {w \in Callers : step[w] = "post"}

\* The worker that claimed a delivery and has not written its outcome yet.
Holds(w, d) == step[w] \in {"attempt", "post"} /\ Head(todo[w]) = d

\* At most one worker sends a delivery at a time, whichever of tasks, sweeps and
\* endpoints picked it up and however their claims raced: the claim is one
\* conditional UPDATE, and only the worker that holds it writes the outcome.
\* (With at most one replay at a time; see Replayers.)
OneSender ==
    \A d \in Deliveries :
        /\ \A w, v \in Callers : Holds(w, d) /\ Holds(v, d) => w = v
        /\ \A w \in Callers : Holds(w, d) => status[d] = "sending"

\* A delivery is attempted at most once more than it may be retried, in each
\* life that a replay gives it: crashes, redelivered tasks and overlapping
\* sweeps never add an attempt to the budget.
AttemptsBounded == \A d \in Deliveries : attempts[d] <= RetryBudget + 1

\* The integration guide's count, "3 total attempts, then dead-letter": a
\* delivery that waits for another attempt has failed fewer times than the
\* budget (3 by default).
AttemptsAsDocumented == \A d \in Deliveries : status[d] = "retrying" => attempts[d] < RetryBudget

\* A delivered webhook stays delivered: nothing sends it again or marks it
\* failed after the receiver's 2xx was recorded.
DeliveredIsFinal ==
    [][\A d \in Deliveries : status[d] = "success" => status'[d] = "success"]_vars

\* What retry_pending_deliveries promises: due deliveries a sweep has no room for
\* are picked up by a later one, so every scheduled retry is made.
EveryRetryIsMade ==
    \A d \in Deliveries : status[d] = "retrying" ~> status[d] # "retrying"

=============================================================================
