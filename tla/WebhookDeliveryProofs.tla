----------------------- MODULE WebhookDeliveryProofs -----------------------
(***************************************************************************)
(* Theorems about WebhookDelivery, for every number of deliveries, workers *)
(* and processes, every retry budget, batch size and number of crashes.    *)
(*                                                                         *)
(* The deliveries run the circuit breaker as its own specification allows, *)
(* so what is proved of the breaker holds here.  With at most one replay   *)
(* at a time, a delivery has one sender, a bounded number of attempts, and *)
(* stays delivered.                                                        *)
(*                                                                         *)
(* These proofs do not depend on what the lists of the workers contain; a  *)
(* worker whose list does not start with a delivery changes no delivery.   *)
(* That a busy worker's list does start with one is shown with the types.  *)
(***************************************************************************)
EXTENDS WebhookDelivery, SeqFilterProofs

-----------------------------------------------------------------------------
(* The circuit breaker is never wedged, for every number of callers,       *)
(* processes and failures.                                                 *)

\* A closed breaker has no probe to wait for, so it may open on seeing the marker.
ClosedNotProbing ==
    \A p \in Processes : breaker[p].state = "closed" => ~breaker[p].probe_sent

BreakerInv == BreakerTypeOK /\ NeverWedged /\ ClosedNotProbing

\* What each of the breaker's updates makes of one breaker.
LEMMA Updates ==
    ASSUME NEW b \in Breaker, NEW kept \in 0 .. b.failures
    PROVE  /\ NewBreaker \in Breaker /\ NewBreaker.state = "closed" /\ ~NewBreaker.probe_sent
           /\ Probing(b) \in Breaker /\ Probing(b).state = "half_open" /\ Probing(b).probe_sent
           /\ Reopened(b) \in Breaker /\ Reopened(b).state = "open" /\ ~Reopened(b).probe_sent
           /\ Recorded(b, kept) \in Breaker
           /\ \/ Recorded(b, kept).state = "open" /\ ~Recorded(b, kept).probe_sent
              \/ Recorded(b, kept).state = b.state /\ Recorded(b, kept).probe_sent = b.probe_sent
<1> USE BreakerAssumption DEF Breaker, BreakerState
<1>1. NewBreaker \in Breaker /\ NewBreaker.state = "closed" /\ ~NewBreaker.probe_sent
  BY DEF NewBreaker
<1>2. Probing(b) \in Breaker /\ Probing(b).state = "half_open" /\ Probing(b).probe_sent
  BY DEF Probing
<1>3. Reopened(b) \in Breaker /\ Reopened(b).state = "open" /\ ~Reopened(b).probe_sent
  BY DEF Reopened
<1>4. Recorded(b, kept) \in Breaker
  BY DEF Recorded
<1>5. \/ Recorded(b, kept).state = "open" /\ ~Recorded(b, kept).probe_sent
      \/ Recorded(b, kept).state = b.state /\ Recorded(b, kept).probe_sent = b.probe_sent
  BY DEF Recorded
<1> QED
  BY <1>1, <1>2, <1>3, <1>4, <1>5

\* A call that replaces the breaker of its process p by b and lets no request
\* of another process end keeps the invariant if b is not wedged.
LEMMA OneBreakerStep ==
    ASSUME BreakerInv,
           NEW p \in Processes, NEW b \in Breaker,
           breaker' = [breaker EXCEPT ![p] = b],
           redis_open' \in BOOLEAN,
           sending' \subseteq Callers,
           \A c \in sending : ProcessOf[c] # p => c \in sending',
           b.state = "half_open" => b.probe_sent /\ \E c \in sending' : ProcessOf[c] = p,
           b.state \in {"open", "closed"} => ~b.probe_sent
    PROVE  BreakerInv'
<1>1. BreakerTypeOK'
  BY DEF BreakerInv, BreakerTypeOK
<1>2. breaker'[p] = b /\ \A q \in Processes : q # p => breaker'[q] = breaker[q]
  BY DEF BreakerInv, BreakerTypeOK
<1>3. ASSUME NEW q \in Processes
      PROVE  /\ breaker'[q].state = "half_open" =>
                   breaker'[q].probe_sent /\ \E c \in sending' : ProcessOf[c] = q
             /\ breaker'[q].state \in {"open", "closed"} => ~breaker'[q].probe_sent
  <2>1. CASE q = p
    BY <1>2, <2>1
  <2>2. CASE q # p
    <3>1. /\ breaker[q].state = "half_open" =>
                 breaker[q].probe_sent /\ \E c \in sending : ProcessOf[c] = q
          /\ breaker[q].state \in {"open", "closed"} => ~breaker[q].probe_sent
      BY DEF BreakerInv, NeverWedged, ClosedNotProbing
    <3> QED
      BY <1>2, <2>2, <3>1
  <2> QED
    BY <2>1, <2>2
<1> QED
  BY <1>1, <1>3 DEF BreakerInv, NeverWedged, ClosedNotProbing

\* A process starts with a closed breaker and nothing under way.
LEMMA BreakerInitInv == BreakerInit => BreakerInv
<1> SUFFICES ASSUME BreakerInit PROVE BreakerInv
  OBVIOUS
<1>1. NewBreaker \in Breaker /\ NewBreaker.state = "closed" /\ ~NewBreaker.probe_sent
  BY BreakerAssumption DEF NewBreaker, Breaker, BreakerState
<1>2. BreakerTypeOK
  BY <1>1 DEF BreakerInit, BreakerTypeOK
<1>3. \A p \in Processes : breaker[p].state = "closed" /\ ~breaker[p].probe_sent
  BY <1>1 DEF BreakerInit
<1> QED
  BY <1>2, <1>3 DEF BreakerInv, NeverWedged, ClosedNotProbing

\* Every call of the breaker, a restart and the expiry of the marker keep the
\* breaker from being wedged.  The point is a half-open breaker: its probe, or
\* any other request of the process that reports back, takes it out of that
\* state, so the request that NeverWedged promises is never the one that left.
LEMMA BreakerStepInv == BreakerInv /\ [BreakerNext]_breakerVars => BreakerInv'
<1> SUFFICES ASSUME BreakerInv, [BreakerNext]_breakerVars
             PROVE  BreakerInv'
  OBVIOUS
<1>t. /\ \A q \in Processes : breaker[q] \in Breaker
      /\ redis_open \in BOOLEAN /\ sending \subseteq Callers
      /\ \A c \in Callers : ProcessOf[c] \in Processes
  BY BreakerAssumption DEF BreakerInv, BreakerTypeOK
<1>k. \A q \in Processes : breaker[q].failures \in Nat /\ 0 \in 0 .. breaker[q].failures
  BY <1>t, BreakerAssumption DEF Breaker
<1>u. \A q \in Processes :
         /\ [breaker[q] EXCEPT !.state = "open"] \in Breaker
         /\ [breaker[q] EXCEPT !.state = "open"].state = "open"
         /\ [breaker[q] EXCEPT !.state = "open"].probe_sent = breaker[q].probe_sent
         /\ [breaker[q] EXCEPT !.state = "half_open"] \in Breaker
         /\ [breaker[q] EXCEPT !.state = "half_open"].state = "half_open"
         /\ [breaker[q] EXCEPT !.state = "half_open"].probe_sent = breaker[q].probe_sent
  BY <1>t DEF Breaker, BreakerState
<1>1. CASE UNCHANGED breakerVars
  BY <1>1 DEF breakerVars, BreakerInv, BreakerTypeOK, NeverWedged, ClosedNotProbing
<1>2. ASSUME NEW c \in Callers, Allow(c)
      PROVE  BreakerInv'
  <2> DEFINE p == ProcessOf[c]
  <2>1. p \in Processes /\ c \in sending' /\ sending' \subseteq Callers
         /\ redis_open' \in BOOLEAN /\ \A d \in sending : d \in sending'
    BY <1>t, <1>2 DEF Allow
  <2>2. CASE UNCHANGED breaker
    BY <2>1, <2>2 DEF BreakerInv, BreakerTypeOK, NeverWedged, ClosedNotProbing
  <2>3. CASE breaker' = [breaker EXCEPT ![p] = Probing(breaker[p])]
    <3>1. Probing(breaker[p]) \in Breaker /\ Probing(breaker[p]).state = "half_open"
            /\ Probing(breaker[p]).probe_sent
      BY <1>t, <1>k, <2>1, Updates
    <3> QED
      BY <2>1, <2>3, <3>1, OneBreakerStep
  <2> QED
    BY <1>2, <2>2, <2>3 DEF Allow
<1>3. ASSUME NEW c \in Callers, Refuse(c)
      PROVE  BreakerInv'
  <2> DEFINE p == ProcessOf[c]
  <2>1. p \in Processes /\ sending' = sending /\ redis_open' = redis_open
    BY <1>t, <1>3 DEF Refuse
  <2>2. CASE UNCHANGED breaker
    BY <2>1, <2>2 DEF BreakerInv, BreakerTypeOK, NeverWedged, ClosedNotProbing
  <2>3. CASE breaker[p].state = "closed" /\ breaker' = [breaker EXCEPT ![p].state = "open"]
    <3>1. ~breaker[p].probe_sent
      BY <2>1, <2>3 DEF BreakerInv, ClosedNotProbing
    <3> QED
      BY <1>t, <1>u, <2>1, <2>3, <3>1, OneBreakerStep
  <2>4. CASE /\ breaker[p].state \in {"open", "half_open"} /\ breaker[p].probe_sent
             /\ breaker' = [breaker EXCEPT ![p].state = "half_open"]
    <3>1. breaker[p].state = "half_open"
      BY <2>1, <2>4 DEF BreakerInv, NeverWedged
    <3>2. \E d \in sending' : ProcessOf[d] = p
      BY <2>1, <3>1 DEF BreakerInv, NeverWedged
    <3> QED
      BY <1>t, <1>u, <2>1, <2>4, <3>2, OneBreakerStep
  <2> QED
    BY <1>3, <2>2, <2>3, <2>4 DEF Refuse
<1>4. ASSUME NEW c \in Callers, OnSuccess(c)
      PROVE  BreakerInv'
  <2>1. NewBreaker \in Breaker /\ NewBreaker.state = "closed" /\ ~NewBreaker.probe_sent
    BY <1>t, <1>k, Updates
  <2>2. /\ ProcessOf[c] \in Processes
        /\ breaker' = [breaker EXCEPT ![ProcessOf[c]] = NewBreaker]
        /\ redis_open' \in BOOLEAN /\ sending' = sending \ {c}
    BY <1>t, <1>4 DEF OnSuccess
  <2> QED
    BY <1>t, <2>1, <2>2, OneBreakerStep
<1>5. ASSUME NEW c \in Callers, OnFailure(c)
      PROVE  BreakerInv'
  <2> DEFINE p == ProcessOf[c]
  <2>1. p \in Processes /\ sending' = sending \ {c} /\ redis_open' \in BOOLEAN
    BY <1>t, <1>5 DEF OnFailure
  <2>2. CASE breaker' = [breaker EXCEPT ![p] = Reopened(breaker[p])]
    <3>1. Reopened(breaker[p]) \in Breaker /\ Reopened(breaker[p]).state = "open"
            /\ ~Reopened(breaker[p]).probe_sent
      BY <1>t, <1>k, <2>1, Updates
    <3> QED
      BY <1>t, <2>1, <2>2, <3>1, OneBreakerStep
  <2>3. ASSUME breaker[p].state # "half_open", NEW kept \in 0 .. breaker[p].failures,
               breaker' = [breaker EXCEPT ![p] = Recorded(breaker[p], kept)]
        PROVE  BreakerInv'
    <3>1. /\ Recorded(breaker[p], kept) \in Breaker
          /\ \/ /\ Recorded(breaker[p], kept).state = "open"
                /\ ~Recorded(breaker[p], kept).probe_sent
             \/ /\ Recorded(breaker[p], kept).state = breaker[p].state
                /\ Recorded(breaker[p], kept).probe_sent = breaker[p].probe_sent
      BY <1>t, <2>1, Updates
    <3>2. breaker[p].state \in {"open", "closed"} => ~breaker[p].probe_sent
      BY <2>1 DEF BreakerInv, NeverWedged, ClosedNotProbing
    <3> QED
      BY <1>t, <2>1, <2>3, <3>1, <3>2, OneBreakerStep
  <2> QED
    BY <1>5, <2>2, <2>3 DEF OnFailure
<1>6. ASSUME NEW p \in Processes, Restart(p)
      PROVE  BreakerInv'
  <2>1. NewBreaker \in Breaker /\ NewBreaker.state = "closed" /\ ~NewBreaker.probe_sent
    BY <1>t, <1>k, Updates
  <2>2. /\ breaker' = [breaker EXCEPT ![p] = NewBreaker]
        /\ sending' = {c \in sending : ProcessOf[c] # p} /\ redis_open' = redis_open
    BY <1>6 DEF Restart
  <2> QED
    BY <1>t, <2>1, <2>2, OneBreakerStep
<1>7. CASE MarkerExpires
  BY <1>7 DEF MarkerExpires, BreakerInv, BreakerTypeOK, NeverWedged, ClosedNotProbing
<1> QED
  BY <1>1, <1>2, <1>3, <1>4, <1>5, <1>6, <1>7 DEF BreakerNext

\* No sequence of calls, late answers, restarts and Redis failures leaves a
\* breaker that refuses every request for ever.
THEOREM BreakerNeverWedged == BreakerSpec => []NeverWedged
<1>1. BreakerInv => NeverWedged
  BY DEF BreakerInv
<1> QED
  BY <1>1, BreakerInitInv, BreakerStepInv, PTL DEF BreakerSpec

-----------------------------------------------------------------------------
(* The breaker's specification is implemented.                             *)

\* Every step of the deliveries is a step of the breaker or leaves it alone.
LEMMA BreakerStep == [Next]_vars => [BreakerNext]_breakerVars
<1> SUFFICES ASSUME [Next]_vars PROVE [BreakerNext]_breakerVars
  OBVIOUS
<1>1. CASE UNCHANGED vars
  BY <1>1 DEF vars, breakerVars
<1>2. ASSUME NEW w \in Callers,
             Enqueue(w) \/ Replay(w) \/ Claim(w) \/ TakeTask(w) \/ Sweep(w)
      PROVE  UNCHANGED breakerVars
  BY <1>2 DEF Enqueue, Replay, Claim, TakeTask, Sweep
<1>3. ASSUME NEW w \in Callers, Attempt(w) \/ Delivered(w) \/ Failed(w)
      PROVE  UNCHANGED breakerVars \/ BreakerNext
  BY <1>3 DEF Attempt, ValidationFails, Deferred, Post, Delivered, Failed, BreakerNext
<1>4. ASSUME NEW w \in Callers, NEW d \in Deliveries,
             Trigger(w, d) \/ RetryDelivery(w, d) \/ ReplayBegin(w, d)
      PROVE  UNCHANGED breakerVars
  BY <1>4 DEF Trigger, RetryDelivery, ReplayBegin, DeadLetters
<1>5. ASSUME NEW d \in Deliveries, RetryTimeComes(d)
      PROVE  UNCHANGED breakerVars
  BY <1>5 DEF RetryTimeComes
<1>6. ASSUME NEW p \in Processes, Crash(p)
      PROVE  BreakerNext
  BY <1>6 DEF Crash, BreakerNext
<1>7. CASE MarkerTimesOut
  BY <1>7 DEF MarkerTimesOut, BreakerNext
<1> QED
  BY <1>1, <1>2, <1>3, <1>4, <1>5, <1>6, <1>7 DEF Next, Work

\* _attempt_delivery uses the breaker as BreakerSpec describes: it asks before
\* a request and reports after it, once.
THEOREM DeliveriesDriveBreaker == Spec => BreakerSpec
<1>1. Init => BreakerInit
  BY DEF Init
<1> QED
  BY <1>1, BreakerStep, PTL DEF Spec, BreakerSpec

\* No interleaving of tasks, sweeps, endpoints and crashes wedges a breaker.
THEOREM DeliveryBreakerNeverWedged == Spec => []NeverWedged
  BY DeliveriesDriveBreaker, BreakerNeverWedged, PTL

-----------------------------------------------------------------------------
(* The breaker's requests are the workers' requests.                       *)

\* The breaker has let through, and not heard of, exactly the requests that
\* some worker awaits the answer of.
AwaitedRequests ==
    /\ step \in [Callers -> WorkerStep]
    /\ sending = {w \in Callers : step[w] = "post"}

\* A worker that does not await an answer goes on without asking for one.
LEMMA AwaitedKept ==
    ASSUME AwaitedRequests, NEW w \in Callers, step[w] # "post", UNCHANGED sending,
           NEW next \in WorkerStep, next # "post", step' = [step EXCEPT ![w] = next]
    PROVE  AwaitedRequests'
  BY DEF AwaitedRequests

LEMMA AwaitedStep == AwaitedRequests /\ [Next]_vars => AwaitedRequests'
<1> SUFFICES ASSUME AwaitedRequests, [Next]_vars PROVE AwaitedRequests'
  OBVIOUS
<1> DEFINE Moves(w) == step' = [step EXCEPT ![w] = "idle"] \/ step' = [step EXCEPT ![w] = "claim"]
<1>0. \A w \in Callers : Return(w) => Moves(w)
  BY DEF Return, Stop, Begin
<1>1. ASSUME NEW w \in Callers,
             Enqueue(w) \/ Replay(w) \/ Claim(w) \/ TakeTask(w) \/ Sweep(w)
      PROVE  AwaitedRequests'
  <2>1. step[w] # "post" /\ UNCHANGED sending
    BY <1>1 DEF Enqueue, Replay, Claim, TakeTask, Sweep, Idle, breakerVars
  <2>2. Moves(w) \/ step' = [step EXCEPT ![w] = "attempt"]
    BY <1>0, <1>1 DEF Enqueue, Replay, Claim, TakeTask, Sweep, Stop, Begin
  <2> QED
    BY <2>1, <2>2, AwaitedKept DEF WorkerStep
<1>2. ASSUME NEW w \in Callers, Attempt(w)
      PROVE  AwaitedRequests'
  <2>0. step[w] = "attempt"
    BY <1>2 DEF Attempt
  <2>1. CASE Post(w)
    BY <2>0, <2>1 DEF Post, Allow, AwaitedRequests, WorkerStep
  <2>2. CASE ~ Post(w)
    <3>1. UNCHANGED sending /\ Moves(w)
      BY <1>0, <1>2, <2>2 DEF Attempt, ValidationFails, Deferred, Refuse, Stop, breakerVars
    <3> QED
      BY <2>0, <3>1, AwaitedKept DEF WorkerStep
  <2> QED
    BY <2>1, <2>2
<1>3. ASSUME NEW w \in Callers, Delivered(w) \/ Failed(w)
      PROVE  AwaitedRequests'
  <2>1. sending' = sending \ {w} /\ Moves(w)
    BY <1>0, <1>3 DEF Delivered, Failed, OnSuccess, OnFailure
  <2> QED
    BY <2>1 DEF AwaitedRequests, WorkerStep
<1>4. ASSUME NEW w \in Callers, NEW d \in Deliveries,
             Trigger(w, d) \/ RetryDelivery(w, d) \/ ReplayBegin(w, d)
      PROVE  AwaitedRequests'
  <2>1. step[w] # "post" /\ UNCHANGED sending
    BY <1>4 DEF Trigger, RetryDelivery, ReplayBegin, Idle, breakerVars
  <2>2. PICK next \in {"enqueue", "claim", "replay"} : step' = [step EXCEPT ![w] = next]
    BY <1>4 DEF Trigger, RetryDelivery, ReplayBegin, Begin
  <2> QED
    BY <2>1, <2>2, AwaitedKept DEF WorkerStep
<1>5. CASE \/ UNCHANGED vars
           \/ \E d \in Deliveries : RetryTimeComes(d)
           \/ MarkerTimesOut
  <2>1. UNCHANGED <<step, sending>>
    BY <1>5 DEF vars, RetryTimeComes, MarkerTimesOut, MarkerExpires, locals, breakerVars
  <2> QED
    BY <2>1 DEF AwaitedRequests
<1>6. ASSUME NEW p \in Processes, Crash(p)
      PROVE  AwaitedRequests'
  <2>1. /\ step' = [w \in Callers |-> IF ProcessOf[w] = p THEN "idle" ELSE step[w]]
        /\ sending' = {c \in sending : ProcessOf[c] # p}
    BY <1>6 DEF Crash, Restart
  <2> QED
    BY <2>1 DEF AwaitedRequests, WorkerStep
<1> QED
  BY <1>1, <1>2, <1>3, <1>4, <1>5, <1>6 DEF Next, Work

\* A half-open breaker refuses everyone while its probe is out: in every state
\* some worker of its process awaits the answer to a request, and will report
\* it, whatever crashed, timed out or finished meanwhile (allow_request,
\* on_success, on_failure as _attempt_delivery calls them).
THEOREM HalfOpenIsAwaited ==
    Spec => [](\A p \in Processes : breaker[p].state = "half_open" =>
                   \E w \in Callers : ProcessOf[w] = p /\ step[w] = "post")
<1>1. Init => AwaitedRequests
  BY DEF Init, AwaitedRequests, BreakerInit, WorkerStep
<1>2. AwaitedRequests /\ NeverWedged =>
        \A p \in Processes : breaker[p].state = "half_open" =>
            \E w \in Callers : ProcessOf[w] = p /\ step[w] = "post"
  BY DEF AwaitedRequests, NeverWedged
<1> QED
  BY <1>1, <1>2, AwaitedStep, DeliveryBreakerNeverWedged, PTL DEF Spec

-----------------------------------------------------------------------------
(* The inductive invariant of the deliveries                               *)

\* Replays do not overlap.
OneReplayer == \A a, b \in Replayers : a = b

\* The columns and the workers' variables, as far as the proof needs them.
RowTypes ==
    /\ status \in [Deliveries -> DeliveryStatus \cup {"none"}]
    /\ attempts \in [Deliveries -> Nat]
    /\ step \in [Callers -> WorkerStep]
    /\ DOMAIN todo = Callers /\ DOMAIN loaded = Callers

\* A replay that has read a dead letter still finds one when it writes.
ReplayOfDeadLetter ==
    \A w \in Callers : step[w] = "replay" =>
        /\ w \in Replayers
        /\ Head(todo[w]) \in Deliveries => status[Head(todo[w])] = "dead_letter"

\* The attempts a delivery has had, by its status.
AttemptsByStatus ==
    \A d \in Deliveries :
        /\ status[d] \in {"none", "pending"} => attempts[d] = 0
        /\ status[d] = "retrying" => attempts[d] <= RetryBudget
        /\ attempts[d] <= RetryBudget + 1

\* The sender decides on the attempt count that the record still has.
LoadedFresh ==
    \A w \in Callers, d \in Deliveries :
        step[w] = "post" /\ Head(todo[w]) = d => loaded[w] = attempts[d]

DInv == RowTypes /\ OneSender /\ ReplayOfDeadLetter /\ AttemptsByStatus /\ LoadedFresh

-----------------------------------------------------------------------------
(* What a worker's step does to the workers                                *)

LocalTypes ==
    /\ step \in [Callers -> WorkerStep]
    /\ DOMAIN todo = Callers /\ DOMAIN loaded = Callers

\* No worker but w moves.
Others(w) ==
    \A v \in Callers \ {w} :
        step'[v] = step[v] /\ todo'[v] = todo[v] /\ loaded'[v] = loaded[v]

\* An operation that ends, or raises.
LEMMA StopMoves ==
    ASSUME RowTypes, NEW w \in Callers, Stop(w)
    PROVE  Others(w) /\ LocalTypes' /\ step'[w] = "idle"
  BY DEF RowTypes, LocalTypes, Others, Stop, WorkerStep

\* A worker that turns to a list of deliveries.
LEMMA BeginMoves ==
    ASSUME RowTypes, NEW w \in Callers, NEW next \in WorkerStep, NEW ds, Begin(w, next, ds)
    PROVE  Others(w) /\ LocalTypes' /\ step'[w] = next /\ todo'[w] = ds
  BY DEF RowTypes, LocalTypes, Others, Begin

\* dispatch_delivery has returned: nothing is held.
LEMMA ReturnMoves ==
    ASSUME RowTypes, NEW w \in Callers, Return(w)
    PROVE  Others(w) /\ LocalTypes' /\ step'[w] \in {"idle", "claim"}
<1>1. CASE Stop(w)
  BY <1>1, StopMoves
<1>2. CASE Begin(w, "claim", Tail(todo[w]))
  BY <1>2, BeginMoves DEF WorkerStep
<1> QED
  BY <1>1, <1>2 DEF Return

\* A step of a worker that writes no record and holds none after it.
LEMMA QuietStep ==
    ASSUME DInv, NEW w \in Callers, Others(w), LocalTypes',
           step'[w] \in {"idle", "enqueue", "claim"},
           status' = status, attempts' = attempts
    PROVE  DInv'
<1>1. RowTypes'
  BY DEF DInv, RowTypes, LocalTypes
<1>2. \A v \in Callers : step'[v] \in {"attempt", "post", "replay"} =>
         v # w /\ step'[v] = step[v] /\ todo'[v] = todo[v] /\ loaded'[v] = loaded[v]
  BY DEF Others
<1>3. OneSender'
  BY <1>2 DEF DInv, OneSender, Holds
<1>4. ReplayOfDeadLetter'
  BY <1>2 DEF DInv, ReplayOfDeadLetter
<1>5. AttemptsByStatus'
  BY DEF DInv, AttemptsByStatus
<1>6. LoadedFresh'
  BY <1>2 DEF DInv, LoadedFresh
<1> QED
  BY <1>1, <1>3, <1>4, <1>5, <1>6 DEF DInv

\* The holder of a delivery writes its outcome and lets go of it.
LEMMA OutcomeStep ==
    ASSUME DInv, NEW w \in Callers, Others(w), LocalTypes',
           step[w] \in {"attempt", "post"}, step'[w] \in {"idle", "claim"},
           NEW x \in {"success", "breaker_open", "dead_letter", "retrying"},
           status' = [status EXCEPT ![Head(todo[w])] = x], attempts' = attempts,
           x = "retrying" /\ Head(todo[w]) \in Deliveries =>
               attempts[Head(todo[w])] <= RetryBudget
    PROVE  DInv'
<1>1. RowTypes'
  BY DEF DInv, RowTypes, LocalTypes, DeliveryStatus
<1>2. \A v \in Callers : step'[v] \in {"attempt", "post", "replay"} =>
         v # w /\ step'[v] = step[v] /\ todo'[v] = todo[v] /\ loaded'[v] = loaded[v]
  BY DEF Others
<1>3. \A d \in Deliveries : status'[d] = IF d = Head(todo[w]) THEN x ELSE status[d]
  BY DEF DInv, RowTypes
<1>4. \A d \in Deliveries : d = Head(todo[w]) =>
         status[d] = "sending" /\ \A v \in Callers : Holds(v, d) => v = w
  BY DEF DInv, OneSender, Holds
<1>5. OneSender'
  BY <1>2, <1>3, <1>4 DEF DInv, OneSender, Holds
<1>6. ReplayOfDeadLetter'
  BY <1>2, <1>3, <1>4 DEF DInv, ReplayOfDeadLetter
<1>7. AttemptsByStatus'
  BY <1>3 DEF DInv, AttemptsByStatus
<1>8. LoadedFresh'
  BY <1>2 DEF DInv, LoadedFresh
<1> QED
  BY <1>1, <1>5, <1>6, <1>7, <1>8 DEF DInv

-----------------------------------------------------------------------------
(* The actions                                                             *)

\* The retry budget is a number.
LEMMA BudgetType == RetryBudget \in Nat
  BY DeliveryAssumption DEF RetryBudget

\* A new record has had no attempt and nobody holds it.
LEMMA TriggerInv ==
    ASSUME DInv, NEW w \in Callers, NEW d \in Deliveries, Trigger(w, d)
    PROVE  DInv'
<1>1. Others(w) /\ LocalTypes' /\ step'[w] = "enqueue"
  BY BeginMoves DEF Trigger, DInv, WorkerStep
<1>2. /\ status[d] = "none" /\ attempts' = attempts
      /\ \A e \in Deliveries : status'[e] = IF e = d THEN "pending" ELSE status[e]
  BY DEF Trigger, DInv, RowTypes
<1>3. RowTypes'
  BY <1>1 DEF Trigger, DInv, RowTypes, LocalTypes, DeliveryStatus
<1>4. \A v \in Callers : step'[v] \in {"attempt", "post", "replay"} =>
         step'[v] = step[v] /\ todo'[v] = todo[v] /\ loaded'[v] = loaded[v]
  BY <1>1 DEF Others
<1>5. OneSender'
  BY <1>2, <1>4 DEF DInv, OneSender, Holds
<1>6. ReplayOfDeadLetter'
  BY <1>2, <1>4 DEF DInv, ReplayOfDeadLetter
<1>7. AttemptsByStatus'
  BY <1>2 DEF DInv, AttemptsByStatus
<1>8. LoadedFresh'
  BY <1>2, <1>4 DEF DInv, LoadedFresh
<1> QED
  BY <1>3, <1>5, <1>6, <1>7, <1>8 DEF DInv

\* The endpoint has read a dead letter.
LEMMA ReplayBeginInv ==
    ASSUME DInv, NEW w \in Callers, NEW d \in Deliveries, ReplayBegin(w, d)
    PROVE  DInv'
<1>1. Others(w) /\ LocalTypes' /\ step'[w] = "replay" /\ todo'[w] = <<d>>
  BY BeginMoves DEF ReplayBegin, DeadLetters, DInv, WorkerStep
<1>2. status[d] = "dead_letter" /\ w \in Replayers /\ status' = status /\ attempts' = attempts
  BY DEF ReplayBegin, DeadLetters, rows
<1>3. RowTypes'
  BY <1>1, <1>2 DEF DInv, RowTypes, LocalTypes
<1>4. \A v \in Callers : v # w =>
         step'[v] = step[v] /\ todo'[v] = todo[v] /\ loaded'[v] = loaded[v]
  BY <1>1 DEF Others
<1>5. OneSender'
  BY <1>1, <1>2, <1>4 DEF DInv, OneSender, Holds
<1>6. ReplayOfDeadLetter'
  <2>1. Head(todo'[w]) = d
    BY <1>1
  <2> QED
    BY <1>1, <1>2, <1>4, <2>1 DEF DInv, ReplayOfDeadLetter
<1>7. AttemptsByStatus'
  BY <1>2 DEF DInv, AttemptsByStatus
<1>8. LoadedFresh'
  BY <1>1, <1>2, <1>4 DEF DInv, LoadedFresh
<1> QED
  BY <1>3, <1>5, <1>6, <1>7, <1>8 DEF DInv

\* The replay resets the dead letter it read; no second replay has read it too.
LEMMA ReplayInv ==
    ASSUME DInv, OneReplayer, NEW w \in Callers, Replay(w)
    PROVE  DInv'
<1> DEFINE d == Head(todo[w])
<1>1. Others(w) /\ LocalTypes' /\ step'[w] = "claim"
  BY BeginMoves DEF Replay, DInv, WorkerStep
<1>2. /\ \A e \in Deliveries : status'[e] = IF e = d THEN "pending" ELSE status[e]
      /\ \A e \in Deliveries : attempts'[e] = IF e = d THEN 0 ELSE attempts[e]
  BY DEF Replay, DInv, RowTypes
<1>3. w \in Replayers /\ (d \in Deliveries => status[d] = "dead_letter")
  BY DEF Replay, DInv, ReplayOfDeadLetter
<1>4. RowTypes'
  BY <1>1 DEF Replay, DInv, RowTypes, LocalTypes, DeliveryStatus
<1>5. \A v \in Callers : step'[v] \in {"attempt", "post", "replay"} =>
         v # w /\ step'[v] = step[v] /\ todo'[v] = todo[v] /\ loaded'[v] = loaded[v]
  BY <1>1 DEF Others
<1>6. OneSender'
  BY <1>2, <1>3, <1>5 DEF DInv, OneSender, Holds
<1>7. ReplayOfDeadLetter'
  BY <1>3, <1>5 DEF DInv, ReplayOfDeadLetter, OneReplayer
<1>8. AttemptsByStatus'
  BY <1>2, BudgetType DEF DInv, AttemptsByStatus
<1>9. LoadedFresh'
  <2>1. ASSUME NEW v \in Callers, step'[v] = "post", d \in Deliveries PROVE Head(todo[v]) # d
    BY <1>3, <1>5, <2>1 DEF DInv, OneSender, Holds
  <2> QED
    BY <1>2, <1>5, <2>1 DEF DInv, LoadedFresh
<1> QED
  BY <1>4, <1>6, <1>7, <1>8, <1>9 DEF DInv

\* The conditional UPDATE: a claimable delivery is held by nobody.
LEMMA ClaimInv ==
    ASSUME DInv, NEW w \in Callers, Claim(w)
    PROVE  DInv'
<1> DEFINE d == Head(todo[w])
<1>1. CASE status[d] \notin Claimable
  <2>1. Return(w) /\ status' = status /\ attempts' = attempts
    BY <1>1 DEF Claim
  <2> QED
    BY <2>1, ReturnMoves, QuietStep DEF DInv
<1>2. CASE status[d] \in Claimable
  <2>1. Others(w) /\ LocalTypes' /\ step'[w] = "attempt" /\ todo'[w] = todo[w]
    BY <1>2, BeginMoves DEF Claim, DInv, WorkerStep
  <2>2. /\ \A e \in Deliveries : status'[e] = IF e = d THEN "sending" ELSE status[e]
        /\ \A e \in Deliveries : attempts'[e] = IF e = d THEN attempts[e] + 1 ELSE attempts[e]
    BY <1>2 DEF Claim, DInv, RowTypes
  <2>3. d \in Deliveries => status[d] \in {"pending", "retrying"}
    BY <1>2 DEF Claimable
  <2>4. RowTypes'
    <3>1. status' \in [Deliveries -> DeliveryStatus \cup {"none"}]
      BY <1>2 DEF Claim, DInv, RowTypes, DeliveryStatus
    <3>2. attempts' \in [Deliveries -> Nat]
      BY <1>2 DEF Claim, DInv, RowTypes
    <3> QED
      BY <2>1, <3>1, <3>2 DEF RowTypes, LocalTypes
  <2>5. \A v \in Callers : v # w =>
           step'[v] = step[v] /\ todo'[v] = todo[v] /\ loaded'[v] = loaded[v]
    BY <2>1 DEF Others
  <2>6. \A v \in Callers, e \in Deliveries : Holds(v, e) => e # d
    BY <2>3 DEF DInv, OneSender
  <2>7. OneSender'
    BY <2>1, <2>2, <2>5, <2>6 DEF DInv, OneSender, Holds
  <2>8. ReplayOfDeadLetter'
    BY <2>1, <2>2, <2>3, <2>5 DEF DInv, ReplayOfDeadLetter
  <2>9. AttemptsByStatus'
    BY <2>2, <2>3, BudgetType DEF DInv, RowTypes, AttemptsByStatus
  <2>10. LoadedFresh'
    BY <2>1, <2>2, <2>5, <2>6 DEF DInv, LoadedFresh, Holds
  <2> QED
    BY <2>4, <2>7, <2>8, <2>9, <2>10 DEF DInv
<1> QED
  BY <1>1, <1>2

\* After the claim: the record is left alone, deferred, or its count is kept
\* for the decision that follows the request.
LEMMA AttemptInv ==
    ASSUME DInv, NEW w \in Callers, Attempt(w)
    PROVE  DInv'
<1>0. step[w] = "attempt" /\ RowTypes
  BY DEF Attempt, DInv
<1>1. CASE Return(w) /\ status' = status /\ attempts' = attempts
  BY <1>0, <1>1, ReturnMoves, QuietStep
<1>2. CASE ValidationFails(w)
  <2>1. Stop(w) /\ status' = status /\ attempts' = attempts
    BY <1>2 DEF ValidationFails, rows
  <2> QED
    BY <1>0, <2>1, StopMoves, QuietStep
<1>3. CASE Deferred(w)
  <2>1. /\ Return(w) /\ attempts' = attempts
        /\ status' = [status EXCEPT ![Head(todo[w])] = "breaker_open"]
    BY <1>3 DEF Deferred
  <2>2. Others(w) /\ LocalTypes' /\ step'[w] \in {"idle", "claim"}
    BY <1>0, <2>1, ReturnMoves
  <2> QED
    BY <1>0, <2>1, <2>2, OutcomeStep
<1>4. CASE Post(w)
  <2>1. /\ status' = status /\ attempts' = attempts /\ todo' = todo
        /\ step' = [step EXCEPT ![w] = "post"]
        /\ loaded' = [loaded EXCEPT ![w] = attempts[Head(todo[w])]]
    BY <1>4 DEF Post, rows
  <2>2. /\ RowTypes' /\ step'[w] = "post" /\ loaded'[w] = attempts[Head(todo[w])]
        /\ \A v \in Callers : v # w => step'[v] = step[v] /\ loaded'[v] = loaded[v]
    BY <1>0, <2>1 DEF RowTypes, WorkerStep
  <2>3. OneSender'
    BY <1>0, <2>1, <2>2 DEF DInv, OneSender, Holds
  <2>4. ReplayOfDeadLetter'
    BY <2>1, <2>2 DEF DInv, ReplayOfDeadLetter
  <2>5. AttemptsByStatus' /\ LoadedFresh'
    BY <2>1, <2>2 DEF DInv, AttemptsByStatus, LoadedFresh
  <2> QED
    BY <2>2, <2>3, <2>4, <2>5 DEF DInv
<1> QED
  BY <1>1, <1>2, <1>3, <1>4 DEF Attempt, rows

\* The answer: the outcome is the holder's to write.
LEMMA AnswerInv ==
    ASSUME DInv, NEW w \in Callers, Delivered(w) \/ Failed(w)
    PROVE  DInv'
<1>1. /\ step[w] = "post" /\ Return(w) /\ attempts' = attempts
      /\ \/ status' = [status EXCEPT ![Head(todo[w])] = "success"]
         \/ status' = [status EXCEPT ![Head(todo[w])] = "dead_letter"]
         \/ RetryLeft(w) /\ status' = [status EXCEPT ![Head(todo[w])] = "retrying"]
  BY DEF Delivered, Failed
<1>2. Others(w) /\ LocalTypes' /\ step'[w] \in {"idle", "claim"}
  BY <1>1, ReturnMoves DEF DInv
<1>3. RetryLeft(w) /\ Head(todo[w]) \in Deliveries => attempts[Head(todo[w])] <= RetryBudget
  <2>1. Head(todo[w]) \in Deliveries =>
           loaded[w] = attempts[Head(todo[w])] /\ attempts[Head(todo[w])] \in Nat
    BY <1>1 DEF DInv, LoadedFresh, RowTypes
  <2> QED
    BY <2>1, BudgetType DEF RetryLeft
<1> QED
  BY <1>1, <1>2, <1>3, OutcomeStep

\* A crash lets go of everything the process held, and writes nothing.
LEMMA CrashInv ==
    ASSUME DInv, NEW p \in Processes, Crash(p)
    PROVE  DInv'
<1>1. /\ status' = status /\ attempts' = attempts
      /\ step' = [w \in Callers |-> IF ProcessOf[w] = p THEN "idle" ELSE step[w]]
      /\ todo' = [w \in Callers |-> IF ProcessOf[w] = p THEN <<>> ELSE todo[w]]
      /\ loaded' = [w \in Callers |-> IF ProcessOf[w] = p THEN 0 ELSE loaded[w]]
  BY DEF Crash, rows
<1>2. RowTypes'
  BY <1>1 DEF DInv, RowTypes, WorkerStep
<1>3. \A w \in Callers : step'[w] \in {"attempt", "post", "replay"} =>
         step'[w] = step[w] /\ todo'[w] = todo[w] /\ loaded'[w] = loaded[w]
  BY <1>1
<1>4. OneSender'
  BY <1>1, <1>3 DEF DInv, OneSender, Holds
<1>5. ReplayOfDeadLetter'
  BY <1>1, <1>3 DEF DInv, ReplayOfDeadLetter
<1>6. AttemptsByStatus' /\ LoadedFresh'
  BY <1>1, <1>3 DEF DInv, AttemptsByStatus, LoadedFresh
<1> QED
  BY <1>2, <1>4, <1>5, <1>6 DEF DInv

\* The steps that only start an operation, or end one without a write.
LEMMA QuietInv ==
    ASSUME DInv, NEW w \in Callers,
           Enqueue(w) \/ TakeTask(w) \/ Sweep(w) \/ \E d \in Deliveries : RetryDelivery(w, d)
    PROVE  DInv'
<1>0. RowTypes
  BY DEF DInv
<1>1. CASE Enqueue(w)
  <2>1. Stop(w) /\ status' = status /\ attempts' = attempts
    BY <1>1 DEF Enqueue, rows
  <2> QED
    BY <1>0, <2>1, StopMoves, QuietStep
<1>2. CASE TakeTask(w)
  <2>1. /\ status' = status /\ attempts' = attempts /\ loaded' = loaded
        /\ \E ds : todo' = [todo EXCEPT ![w] = ds]
        /\ step' = [step EXCEPT ![w] = "claim"]
    BY <1>2 DEF TakeTask, rows
  <2>2. Others(w) /\ LocalTypes' /\ step'[w] = "claim"
    BY <1>0, <2>1 DEF RowTypes, LocalTypes, Others, WorkerStep
  <2> QED
    BY <2>1, <2>2, QuietStep
<1>3. CASE Sweep(w)
  <2>1. Begin(w, "claim", DueDeliveries) /\ status' = status /\ attempts' = attempts
    BY <1>3 DEF Sweep, rows
  <2>2. Others(w) /\ LocalTypes' /\ step'[w] = "claim"
    BY <1>0, <2>1, BeginMoves DEF WorkerStep
  <2> QED
    BY <2>1, <2>2, QuietStep
<1>4. ASSUME NEW d \in Deliveries, RetryDelivery(w, d)
      PROVE  DInv'
  <2>1. Begin(w, "claim", <<d>>) /\ status' = status /\ attempts' = attempts
    BY <1>4 DEF RetryDelivery, rows
  <2>2. Others(w) /\ LocalTypes' /\ step'[w] = "claim"
    BY <1>0, <2>1, BeginMoves DEF WorkerStep
  <2> QED
    BY <2>1, <2>2, QuietStep
<1> QED
  BY <1>1, <1>2, <1>3, <1>4

-----------------------------------------------------------------------------

\* Before the first delivery.
LEMMA InitDInv == Init => DInv
<1> SUFFICES ASSUME Init PROVE DInv
  OBVIOUS
<1>1. RowTypes
  BY DEF Init, RowTypes, DeliveryStatus, WorkerStep
<1>2. OneSender /\ ReplayOfDeadLetter /\ LoadedFresh
  BY DEF Init, OneSender, Holds, ReplayOfDeadLetter, LoadedFresh
<1>3. AttemptsByStatus
  BY BudgetType DEF Init, AttemptsByStatus
<1> QED
  BY <1>1, <1>2, <1>3 DEF DInv

\* Every step, one lemma per action.
LEMMA NextDInv == OneReplayer /\ DInv /\ [Next]_vars => DInv'
<1> SUFFICES ASSUME OneReplayer, DInv, [Next]_vars PROVE DInv'
  OBVIOUS
<1>1. CASE \/ UNCHANGED vars
           \/ \E d \in Deliveries : RetryTimeComes(d)
           \/ MarkerTimesOut
  <2>1. UNCHANGED <<status, attempts, step, todo, loaded>>
    BY <1>1 DEF vars, RetryTimeComes, MarkerTimesOut, locals, rows
  <2> QED
    BY <2>1 DEF DInv, RowTypes, OneSender, Holds, ReplayOfDeadLetter, AttemptsByStatus,
                LoadedFresh
<1>2. ASSUME NEW w \in Callers, Work(w) \/ TakeTask(w) \/ Sweep(w)
      PROVE  DInv'
  BY <1>2, QuietInv, ReplayInv, ClaimInv, AttemptInv, AnswerInv DEF Work
<1>3. ASSUME NEW w \in Callers, NEW d \in Deliveries,
             Trigger(w, d) \/ RetryDelivery(w, d) \/ ReplayBegin(w, d)
      PROVE  DInv'
  BY <1>3, TriggerInv, QuietInv, ReplayBeginInv
<1>4. ASSUME NEW p \in Processes, Crash(p)
      PROVE  DInv'
  BY <1>4, CrashInv
<1> QED
  BY <1>1, <1>2, <1>3, <1>4 DEF Next

\* DInv holds in every reachable state.
THEOREM DeliveryInvariance ==
    ASSUME OneReplayer
    PROVE  Spec => []DInv
<1>1. DInv /\ [Next]_vars => DInv'
  BY NextDInv
<1> QED
  BY <1>1, InitDInv, PTL DEF Spec

-----------------------------------------------------------------------------
(* The properties                                                          *)

\* dispatch_delivery: at most one worker sends a delivery at a time.
THEOREM AtMostOneSender ==
    ASSUME OneReplayer
    PROVE  Spec => []OneSender
<1>1. DInv => OneSender
  BY DEF DInv
<1> QED
  BY <1>1, DeliveryInvariance, PTL

\* dispatch_delivery: no more attempts than the budget of retries allows.
THEOREM BoundedAttempts ==
    ASSUME OneReplayer
    PROVE  Spec => []AttemptsBounded
<1>1. DInv => AttemptsBounded
  BY DEF DInv, AttemptsByStatus, AttemptsBounded
<1> QED
  BY <1>1, DeliveryInvariance, PTL

\* A recorded success is never overwritten: the only writers are the claim,
\* which skips it, the holder of a delivery, whose status is "sending", and the
\* replay, which has read a dead letter that is still one.
THEOREM DeliveredStaysDelivered ==
    ASSUME OneReplayer
    PROVE  Spec => DeliveredIsFinal
<1> DEFINE Final == \A d \in Deliveries : status[d] = "success" => status'[d] = "success"
<1>1. ASSUME DInv, Next PROVE Final
  <2>0. status \in [Deliveries -> DeliveryStatus \cup {"none"}]
    BY <1>1 DEF DInv, RowTypes
  <2>1. ASSUME NEW w \in Callers,
               Enqueue(w) \/ TakeTask(w) \/ Sweep(w) \/ \E d \in Deliveries :
                   RetryDelivery(w, d) \/ ReplayBegin(w, d)
        PROVE  Final
    <3>1. status' = status
      BY <2>1 DEF Enqueue, TakeTask, Sweep, RetryDelivery, ReplayBegin, DeadLetters, rows
    <3> QED
      BY <3>1
  <2>2. ASSUME NEW w \in Callers, NEW d \in Deliveries, Trigger(w, d)
        PROVE  Final
    BY <2>0, <2>2 DEF Trigger
  <2>3. ASSUME NEW w \in Callers, Replay(w)
        PROVE  Final
    BY <1>1, <2>0, <2>3 DEF Replay, DInv, ReplayOfDeadLetter
  <2>4. ASSUME NEW w \in Callers, Claim(w)
        PROVE  Final
    BY <2>0, <2>4 DEF Claim, Claimable
  <2>5. ASSUME NEW w \in Callers, Attempt(w) \/ Delivered(w) \/ Failed(w)
        PROVE  Final
    <3>1. \A d \in Deliveries : d = Head(todo[w]) => status[d] = "sending"
      BY <1>1, <2>5 DEF DInv, OneSender, Holds, Attempt, Delivered, Failed
    <3>2. \/ status' = status
          \/ \E x : status' = [status EXCEPT ![Head(todo[w])] = x]
      BY <2>5 DEF Attempt, ValidationFails, Deferred, Post, Delivered, Failed, rows
    <3> QED
      BY <2>0, <3>1, <3>2
  <2>6. CASE \/ \E d \in Deliveries : RetryTimeComes(d)
             \/ \E p \in Processes : Crash(p)
             \/ MarkerTimesOut
    <3>1. status' = status
      BY <2>6 DEF RetryTimeComes, Crash, MarkerTimesOut, rows
    <3> QED
      BY <3>1
  <2> QED
    BY <1>1, <2>1, <2>2, <2>3, <2>4, <2>5, <2>6 DEF Next, Work
<1>2. DInv /\ [Next]_vars => [Final]_vars
  BY <1>1
<1> QED
  BY <1>2, DeliveryInvariance, PTL DEF Spec, DeliveredIsFinal

-----------------------------------------------------------------------------
(* The types, of the lists too                                             *)

\* The tables and the broker.
TableTypes ==
    /\ status \in [Deliveries -> DeliveryStatus \cup {"none"}]
    /\ attempts \in [Deliveries -> Nat]
    /\ scheduled \subseteq Deliveries
    /\ due \in Seq(Deliveries)
    /\ queue \subseteq Deliveries \X (0 .. TaskRetries)

\* The workers.
WorkTypes ==
    /\ step \in [Callers -> WorkerStep]
    /\ todo \in [Callers -> Seq(Deliveries)]
    /\ \A w \in Callers : (step[w] = "idle") = (todo[w] = <<>>)
    /\ loaded \in [Callers -> Nat]
    /\ retries \in [Callers -> 0 .. TaskRetries]

DeliveryTypes == TableTypes /\ WorkTypes /\ crashes \in 0 .. MaxCrashes

\* A busy worker is at a delivery.
LEMMA HeadTypes ==
    ASSUME WorkTypes, NEW w \in Callers, step[w] # "idle"
    PROVE  Head(todo[w]) \in Deliveries /\ todo[w] \in Seq(Deliveries) /\ todo[w] # <<>>
  BY DEF WorkTypes

LEMMA StopTypes ==
    ASSUME WorkTypes, NEW w \in Callers, Stop(w)
    PROVE  WorkTypes'
  BY DeliveryAssumption DEF WorkTypes, Stop, WorkerStep

LEMMA BeginTypes ==
    ASSUME WorkTypes, NEW w \in Callers, NEW next \in WorkerStep \ {"idle"},
           NEW ds \in Seq(Deliveries), ds # <<>>, Begin(w, next, ds)
    PROVE  WorkTypes'
  BY DEF WorkTypes, Begin

LEMMA ReturnTypes ==
    ASSUME WorkTypes, NEW w \in Callers, step[w] # "idle", Return(w)
    PROVE  WorkTypes'
<1>1. CASE Stop(w)
  BY <1>1, StopTypes
<1>2. CASE Len(todo[w]) > 1 /\ Begin(w, "claim", Tail(todo[w]))
  <2> DEFINE t == todo[w]
  <2>0. t \in Seq(Deliveries) /\ Len(t) > 1
    BY <1>2 DEF WorkTypes
  <2> HIDE DEF t
  <2>1. Tail(t) \in Seq(Deliveries) /\ Tail(t) # <<>>
    <3> DEFINE u == Tail(t)
    <3>0. u \in Seq(Deliveries) /\ Len(u) = Len(t) - 1
      BY <2>0
    <3>1. u \in Seq(Deliveries) /\ Len(u) # 0
      <4> HIDE DEF u
      <4>1. Len(t) \in Nat
        BY <2>0
      <4> QED
        BY <2>0, <3>0, <4>1
    <3>2. u # <<>>
      <4> HIDE DEF u
      <4> QED
        BY <3>1
    <3> QED
      BY <3>1, <3>2
  <2> QED
    BY <1>2, <2>1, BeginTypes DEF WorkerStep, t
<1> QED
  BY <1>1, <1>2 DEF Return

\* next_retry_at is written.
LEMMA DueTypes ==
    ASSUME TableTypes, NEW d \in Deliveries, Unschedule(d) \/ Schedule(d)
    PROVE  scheduled' \subseteq Deliveries /\ due' \in Seq(Deliveries)
<1>1. Without(due, {d}) \in Seq(Deliveries)
  BY WithoutKeeps DEF TableTypes
<1> QED
  BY <1>1 DEF TableTypes, Unschedule, Schedule

\* A sweep takes deliveries.
LEMMA SweepTypes ==
    ASSUME TableTypes
    PROVE  DueDeliveries \in Seq(Deliveries)
<1> DEFINE S == {d \in Deliveries : status[d] \in {"retrying", "breaker_open"}}
           waiting == Filter(due, S)
           n == IF Len(waiting) < BatchSize THEN Len(waiting) ELSE BatchSize
<1>1. due \in Seq(Deliveries)
  BY DEF TableTypes
<1>2. waiting \in Seq(Deliveries)
  BY <1>1, FilterKeeps
<1>3. DueDeliveries = SubSeq(waiting, 1, n)
  BY DEF DueDeliveries
<1> HIDE DEF waiting
<1>4. n \in Nat /\ n <= Len(waiting)
  BY <1>2, DeliveryAssumption
<1> QED
  BY <1>2, <1>3, <1>4

LEMMA DeliveryTypesStep == DeliveryTypes /\ [Next]_vars => DeliveryTypes'
<1> SUFFICES ASSUME DeliveryTypes, [Next]_vars PROVE DeliveryTypes'
  OBVIOUS
<1> USE DEF DeliveryTypes
<1>1. CASE UNCHANGED vars
  BY <1>1 DEF vars, TableTypes, WorkTypes
<1>2. ASSUME NEW w \in Callers, Enqueue(w)
      PROVE  DeliveryTypes'
  <2>1. Head(todo[w]) \in Deliveries
    BY <1>2, HeadTypes DEF Enqueue
  <2>2. WorkTypes' /\ UNCHANGED <<rows, crashes>>
    BY <1>2, StopTypes DEF Enqueue
  <2>3. queue' \subseteq Deliveries \X (0 .. TaskRetries)
    BY <1>2, <2>1, DeliveryAssumption DEF Enqueue, TableTypes
  <2> QED
    BY <2>2, <2>3 DEF TableTypes, rows
<1>3. ASSUME NEW w \in Callers, Replay(w)
      PROVE  DeliveryTypes'
  <2> DEFINE d == Head(todo[w])
  <2>1. step[w] = "replay" /\ d \in Deliveries
    BY <1>3, HeadTypes DEF Replay
  <2>2. Begin(w, "claim", <<d>>)
    BY <1>3 DEF Replay
  <2> HIDE DEF d
  <2>3. WorkTypes'
    <3>1. <<d>> \in Seq(Deliveries) /\ <<d>> # <<>>
      BY <2>1
    <3> QED
      BY <2>2, <3>1, BeginTypes DEF WorkerStep
  <2>4. scheduled' \subseteq Deliveries /\ due' \in Seq(Deliveries)
    BY <1>3, <2>1, DueTypes DEF Replay, d
  <2>5. /\ status' = [status EXCEPT ![d] = "pending"] /\ attempts' = [attempts EXCEPT ![d] = 0]
        /\ UNCHANGED <<queue, crashes>>
    BY <1>3 DEF Replay, d
  <2> QED
    BY <2>1, <2>3, <2>4, <2>5 DEF TableTypes, DeliveryStatus
<1>4. ASSUME NEW w \in Callers, Claim(w)
      PROVE  DeliveryTypes'
  <2>1. step[w] = "claim" /\ Head(todo[w]) \in Deliveries /\ todo[w] \in Seq(Deliveries) /\ todo[w] # <<>>
    BY <1>4, HeadTypes DEF Claim
  <2>2. Return(w) \/ Begin(w, "attempt", todo[w])
    BY <1>4 DEF Claim
  <2>3. WorkTypes'
    BY <2>1, <2>2, BeginTypes, ReturnTypes DEF WorkerStep
  <2>4. UNCHANGED <<scheduled, due, queue, crashes>>
    BY <1>4 DEF Claim
  <2>5. status' \in [Deliveries -> DeliveryStatus \cup {"none"}] /\ attempts' \in [Deliveries -> Nat]
    <3> DEFINE d == Head(todo[w])
    <3>1. \/ /\ status' = [status EXCEPT ![d] = "sending"]
             /\ attempts' = [attempts EXCEPT ![d] = @ + 1]
          \/ UNCHANGED <<status, attempts>>
      BY <1>4 DEF Claim
    <3>2. d \in Deliveries
      BY <2>1
    <3> HIDE DEF d
    <3>3. attempts' \in [Deliveries -> Nat]
      BY <3>1, <3>2 DEF TableTypes
    <3>4. status' \in [Deliveries -> DeliveryStatus \cup {"none"}]
      BY <3>1, <3>2 DEF TableTypes, DeliveryStatus
    <3> QED
      BY <3>3, <3>4
  <2> QED
    BY <2>3, <2>4, <2>5 DEF TableTypes
<1>5. ASSUME NEW w \in Callers, Attempt(w)
      PROVE  DeliveryTypes'
  <2>1. step[w] = "attempt" /\ Head(todo[w]) \in Deliveries
    BY <1>5, HeadTypes DEF Attempt
  <2>2. CASE Return(w) /\ UNCHANGED <<rows, queue, crashes, breakerVars>>
    <3>1. WorkTypes'
      BY <2>1, <2>2, ReturnTypes
    <3> QED
      BY <2>2, <3>1 DEF TableTypes, rows
  <2>3. CASE ValidationFails(w)
    <3>1. WorkTypes' /\ UNCHANGED <<rows, crashes>>
      BY <2>3, StopTypes DEF ValidationFails
    <3>2. retries[w] \in 0 .. TaskRetries /\ (retries[w] < TaskRetries => retries[w] + 1 \in 0 .. TaskRetries)
      BY DeliveryAssumption DEF WorkTypes
    <3>3. queue' \subseteq Deliveries \X (0 .. TaskRetries)
      BY <2>1, <2>3, <3>2 DEF ValidationFails, TableTypes
    <3> QED
      BY <3>1, <3>3 DEF TableTypes, rows
  <2>4. CASE Deferred(w)
    <3>1. WorkTypes'
      BY <2>1, <2>4, ReturnTypes DEF Deferred
    <3>2. status' \in [Deliveries -> DeliveryStatus \cup {"none"}]
      BY <2>1, <2>4 DEF Deferred, TableTypes, DeliveryStatus
    <3>3. UNCHANGED <<attempts, scheduled, due, queue, crashes>>
      BY <2>4 DEF Deferred
    <3> QED
      BY <3>1, <3>2, <3>3 DEF TableTypes
  <2>5. CASE Post(w)
    <3>1. attempts[Head(todo[w])] \in Nat
      BY <2>1 DEF TableTypes
    <3>2. /\ loaded' = [loaded EXCEPT ![w] = attempts[Head(todo[w])]]
          /\ step' = [step EXCEPT ![w] = "post"]
          /\ UNCHANGED <<rows, queue, todo, retries, crashes>>
      BY <2>5 DEF Post
    <3>3. WorkTypes'
      BY <2>1, <3>1, <3>2 DEF WorkTypes, WorkerStep
    <3> QED
      BY <3>2, <3>3 DEF TableTypes, rows
  <2> QED
    BY <1>5, <2>2, <2>3, <2>4, <2>5 DEF Attempt
<1>6. ASSUME NEW w \in Callers, Delivered(w) \/ Failed(w)
      PROVE  DeliveryTypes'
  <2> DEFINE d == Head(todo[w])
  <2>1. step[w] = "post" /\ d \in Deliveries
    BY <1>6, HeadTypes DEF Delivered, Failed
  <2>2. Return(w) /\ (Unschedule(d) \/ Schedule(d)) /\ UNCHANGED <<attempts, queue, crashes>>
    BY <1>6 DEF Delivered, Failed
  <2>3. \E x \in {"success", "retrying", "dead_letter"} : status' = [status EXCEPT ![d] = x]
    BY <1>6 DEF Delivered, Failed
  <2> HIDE DEF d
  <2>4. WorkTypes'
    BY <2>1, <2>2, ReturnTypes
  <2>5. scheduled' \subseteq Deliveries /\ due' \in Seq(Deliveries)
    BY <2>1, <2>2, DueTypes
  <2> QED
    BY <2>2, <2>3, <2>4, <2>5 DEF TableTypes, DeliveryStatus
<1>7. ASSUME NEW w \in Callers, TakeTask(w)
      PROVE  DeliveryTypes'
  <2>1. PICK m \in queue : /\ queue' = queue \ {m}
                           /\ step' = [step EXCEPT ![w] = "claim"]
                           /\ todo' = [todo EXCEPT ![w] = <<m[1]>>]
                           /\ retries' = [retries EXCEPT ![w] = m[2]]
    BY <1>7 DEF TakeTask
  <2>2. m[1] \in Deliveries /\ m[2] \in 0 .. TaskRetries
    BY <2>1 DEF TableTypes
  <2>3. UNCHANGED <<rows, loaded, crashes>>
    BY <1>7 DEF TakeTask
  <2>4. <<m[1]>> \in Seq(Deliveries) /\ <<m[1]>> # <<>>
    BY <2>2
  <2>5. WorkTypes'
    BY <2>1, <2>2, <2>3, <2>4 DEF WorkTypes, WorkerStep
  <2> QED
    BY <2>1, <2>3, <2>5 DEF TableTypes, rows
<1>8. ASSUME NEW w \in Callers, Sweep(w)
      PROVE  DeliveryTypes'
  <2>1. WorkTypes'
    BY <1>8, SweepTypes, BeginTypes DEF Sweep, WorkerStep
  <2> QED
    BY <1>8, <2>1 DEF Sweep, TableTypes, rows
<1>9. ASSUME NEW w \in Callers, NEW d \in Deliveries,
             Trigger(w, d) \/ RetryDelivery(w, d) \/ ReplayBegin(w, d)
      PROVE  DeliveryTypes'
  <2>1. \E next \in WorkerStep \ {"idle"} : Begin(w, next, <<d>>)
    BY <1>9 DEF Trigger, RetryDelivery, ReplayBegin, WorkerStep
  <2>2. <<d>> \in Seq(Deliveries) /\ <<d>> # <<>>
    OBVIOUS
  <2>3. WorkTypes'
    BY <2>1, <2>2, BeginTypes
  <2>4. UNCHANGED <<attempts, scheduled, due, queue, crashes>>
    BY <1>9 DEF Trigger, RetryDelivery, ReplayBegin, rows
  <2>5. status' \in [Deliveries -> DeliveryStatus \cup {"none"}]
    BY <1>9 DEF Trigger, RetryDelivery, ReplayBegin, rows, TableTypes, DeliveryStatus
  <2> QED
    BY <2>3, <2>4, <2>5 DEF TableTypes
<1>10. ASSUME NEW d \in Deliveries, RetryTimeComes(d)
       PROVE  DeliveryTypes'
  BY <1>10 DEF RetryTimeComes, TableTypes, WorkTypes, locals
<1>11. CASE MarkerTimesOut
  BY <1>11 DEF MarkerTimesOut, TableTypes, WorkTypes, rows, locals
<1>12. ASSUME NEW p \in Processes, Crash(p)
       PROVE  DeliveryTypes'
  <2> DEFINE mine == {w \in Callers : ProcessOf[w] = p}
             unacked == {<<Head(todo[w]), retries[w]>> : w \in
                           {w \in mine \cap TaskWorkers : step[w] # "idle"}}
  <2>1. /\ crashes < MaxCrashes /\ crashes' = crashes + 1
        /\ queue' \in {queue, queue \cup unacked}
        /\ UNCHANGED rows
    BY <1>12 DEF Crash
  <2>2. unacked \subseteq Deliveries \X (0 .. TaskRetries)
    <3>1. ASSUME NEW w \in Callers, step[w] # "idle"
          PROVE  Head(todo[w]) \in Deliveries /\ retries[w] \in 0 .. TaskRetries
      BY <3>1, HeadTypes DEF WorkTypes
    <3> QED
      BY <3>1
  <2>3. queue' \subseteq Deliveries \X (0 .. TaskRetries)
    BY <2>1, <2>2 DEF TableTypes
  <2>4. TableTypes' /\ crashes' \in 0 .. MaxCrashes
    BY <2>1, <2>3, DeliveryAssumption DEF TableTypes, rows
  <2>5. WorkTypes'
    <3>1. /\ step' = [w \in Callers |-> IF w \in mine THEN "idle" ELSE step[w]]
          /\ todo' = [w \in Callers |-> IF w \in mine THEN <<>> ELSE todo[w]]
          /\ loaded' = [w \in Callers |-> IF w \in mine THEN 0 ELSE loaded[w]]
          /\ retries' = [w \in Callers |-> IF w \in mine THEN 0 ELSE retries[w]]
      BY <1>12 DEF Crash
    <3> HIDE DEF mine
    <3>2. /\ step' \in [Callers -> WorkerStep] /\ todo' \in [Callers -> Seq(Deliveries)]
          /\ loaded' \in [Callers -> Nat] /\ retries' \in [Callers -> 0 .. TaskRetries]
      BY <3>1, DeliveryAssumption DEF WorkTypes, WorkerStep
    <3>3. \A w \in Callers : (step'[w] = "idle") = (todo'[w] = <<>>)
      BY <3>1 DEF WorkTypes
    <3> QED
      BY <3>2, <3>3 DEF WorkTypes
  <2> QED
    BY <2>4, <2>5
<1> QED
  BY <1>1, <1>2, <1>3, <1>4, <1>5, <1>6, <1>7, <1>8, <1>9, <1>10, <1>11, <1>12 DEF Next, Work

\* Every column and every worker's variable holds what it can hold: a worker
\* has a list of deliveries exactly while it is busy, whatever sweeps, tasks
\* and crashes do, and a message of the broker never exceeds the retries of
\* its task (dispatch_webhook_delivery, retry_pending_deliveries).
THEOREM DeliveryTypesHold == Spec => []TypeOK
<1>1. Init => DeliveryTypes
  BY DeliveryAssumption DEF Init, DeliveryTypes, TableTypes, WorkTypes, DeliveryStatus, WorkerStep
<1>2. Init => AwaitedRequests
  BY DEF Init, AwaitedRequests, BreakerInit, WorkerStep
<1>3. BreakerSpec => []BreakerTypeOK
  <2>1. BreakerInv => BreakerTypeOK
    BY DEF BreakerInv
  <2> QED
    BY <2>1, BreakerInitInv, BreakerStepInv, PTL DEF BreakerSpec
<1>4. DeliveryTypes /\ AwaitedRequests /\ BreakerTypeOK => TypeOK
  BY DEF DeliveryTypes, TableTypes, WorkTypes, AwaitedRequests, TypeOK
<1> QED
  BY <1>1, <1>2, <1>3, <1>4, DeliveryTypesStep, AwaitedStep, DeliveriesDriveBreaker, PTL DEF Spec

=============================================================================
