--------------------------- MODULE CircuitBreaker ---------------------------
(***************************************************************************)
(* The webhook circuit breaker of one target host.  Every process keeps a  *)
(* breaker of its own in memory; a marker in Redis tells the others that   *)
(* one of them opened.  Hosts do not interact, so one is modelled.         *)
(*                                                                         *)
(* A call holds the breaker's mutex for its whole body and is one step.    *)
(* Clocks are choices: whether the reset interval has elapsed, and how     *)
(* many of the recorded failures are still inside the window.  A count     *)
(* above the threshold acts like the threshold, since any part of it may   *)
(* have left the window by the next failure.  Redis is external: a call    *)
(* to it may fail, and the caller then carries on.                         *)
(***************************************************************************)
EXTENDS Naturals

CONSTANTS
    Callers,         \* threads that deliver webhooks
    Processes,       \* API and Celery worker processes
    ProcessOf,       \* caller -> its process
    FailThreshold    \* WEBHOOK_BREAKER_FAIL_THRESHOLD

ASSUME BreakerAssumption ==
    /\ ProcessOf \in [Callers -> Processes]
    /\ FailThreshold \in Nat \ {0}

VARIABLES
    breaker,      \* process -> state, failures in the window, probe_sent
    redis_open,   \* the marker webhook_breaker:open:<host>
    sending       \* callers whose request was allowed and is under way

breakerVars == <<breaker, redis_open, sending>>

BreakerState == {"closed", "half_open", "open"}

\* A closed breaker has not reached the threshold.
Breaker ==
    {b \in [state : BreakerState, failures : 0 .. FailThreshold, probe_sent : BOOLEAN] :
        b.state = "closed" => b.failures < FailThreshold}

NewBreaker == [state |-> "closed", failures |-> 0, probe_sent |-> FALSE]

BreakerInit ==
    /\ breaker = [p \in Processes |-> NewBreaker]
    /\ redis_open = FALSE
    /\ sending = {}

-----------------------------------------------------------------------------
(* allow_request                                                           *)

\* A breaker that lets its one probe through.
Probing(b) == [b EXCEPT !.state = "half_open", !.probe_sent = TRUE]

\* Allowed: the breaker is closed and Redis has no marker, or cannot be asked;
\* or the reset interval has elapsed and no probe is under way.
Allow(c) ==
    LET p == ProcessOf[c]
    IN  /\ c \notin sending
        /\ \/ /\ breaker[p].state = "closed"
              /\ UNCHANGED breaker
           \/ /\ breaker[p].state \in {"open", "half_open"}
              /\ ~breaker[p].probe_sent
              /\ breaker' = [breaker EXCEPT ![p] = Probing(@)]
        /\ sending' = sending \cup {c}
        /\ UNCHANGED redis_open

\* Refused.  A closed breaker that finds the marker opens itself; its own reset
\* interval starts now, so it refuses.
Refuse(c) ==
    LET p == ProcessOf[c]
    IN  /\ c \notin sending
        /\ \/ /\ breaker[p].state = "closed"
              /\ redis_open
              /\ breaker' = [breaker EXCEPT ![p].state = "open"]
           \/ /\ breaker[p].state = "open"
              /\ UNCHANGED breaker
           \/ /\ breaker[p].state \in {"open", "half_open"}
              /\ breaker[p].probe_sent
              /\ breaker' = [breaker EXCEPT ![p].state = "half_open"]
        /\ UNCHANGED <<redis_open, sending>>

-----------------------------------------------------------------------------
(* on_success and on_failure, also when the breaker moved on since the     *)
(* request was allowed                                                     *)

OnSuccess(c) ==
    /\ c \in sending
    /\ breaker' = [breaker EXCEPT ![ProcessOf[c]] = NewBreaker]
    /\ redis_open' \in {FALSE, redis_open}
    /\ sending' = sending \ {c}

\* probe_sent is not cleared when the breaker opens again.
ReopenedProbeKept(b) == [b EXCEPT !.state = "open"]

\* The failed probe is not recorded among the failures.
Reopened(b) == [b EXCEPT !.state = "open", !.probe_sent = FALSE]

\* Opens one failure late.
RecordedLate(b, kept) ==
    IF kept + 1 > FailThreshold
    THEN [state |-> "open", failures |-> FailThreshold, probe_sent |-> FALSE]
    ELSE [b EXCEPT !.failures = kept + 1]

\* One failure more than the number still inside the window.
Recorded(b, kept) ==
    IF kept + 1 >= FailThreshold
    THEN [state |-> "open", failures |-> FailThreshold, probe_sent |-> FALSE]
    ELSE [b EXCEPT !.failures = kept + 1]

OnFailure(c) ==
    LET p == ProcessOf[c]
    IN  /\ c \in sending
        /\ \/ /\ breaker[p].state = "half_open"
              /\ breaker' = [breaker EXCEPT ![p] = Reopened(@)]
              /\ UNCHANGED redis_open
           \/ /\ breaker[p].state # "half_open"
              /\ \E kept \in 0 .. breaker[p].failures :
                    /\ breaker' = [breaker EXCEPT ![p] = Recorded(@, kept)]
                    /\ redis_open' \in IF kept + 1 >= FailThreshold
                                       THEN {TRUE, redis_open} ELSE {redis_open}
        /\ sending' = sending \ {c}

-----------------------------------------------------------------------------
(* The marker's time to live runs out; a process dies with its breaker.    *)

MarkerExpires ==
    /\ redis_open
    /\ redis_open' = FALSE
    /\ UNCHANGED <<breaker, sending>>

Restart(p) ==
    /\ breaker' = [breaker EXCEPT ![p] = NewBreaker]
    /\ sending' = {c \in sending : ProcessOf[c] # p}
    /\ UNCHANGED redis_open

BreakerNext ==
    \/ \E c \in Callers : Allow(c) \/ Refuse(c) \/ OnSuccess(c) \/ OnFailure(c)
    \/ \E p \in Processes : Restart(p)
    \/ MarkerExpires

BreakerSpec == BreakerInit /\ [][BreakerNext]_breakerVars

-----------------------------------------------------------------------------
(* Properties                                                              *)

\* The breakers, the marker and the requests under way are what they can be.
BreakerTypeOK ==
    /\ breaker \in [Processes -> Breaker]
    /\ redis_open \in BOOLEAN
    /\ sending \subseteq Callers

\* The breaker is never wedged: a half-open breaker has a request under way in
\* its process that will report back and close or reopen it, and an open one
\* has forgotten its last probe, so that the next one can be sent after the
\* reset interval.  Answers that arrive late, after the breaker opened,
\* half-opened or closed again, do not disturb this.
NeverWedged ==
    \A p \in Processes :
        /\ breaker[p].state = "half_open" =>
              breaker[p].probe_sent /\ \E c \in sending : ProcessOf[c] = p
        /\ breaker[p].state = "open" => ~breaker[p].probe_sent

=============================================================================
