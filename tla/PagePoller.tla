----------------------------- MODULE PagePoller -----------------------------
(***************************************************************************)
(* BlockPoller of block_poller.py: one thread walks Horizon's ledgers page *)
(* by page, hands each ledger to the handler and keeps its cursor in       *)
(* memory.  A ledger's cursor is its height.                               *)
(***************************************************************************)
EXTENDS Naturals, Sequences

CONSTANTS
    MaxLedger,      \* bound on the ledgers the network closes
    PageSize,       \* batch_size
    FetchAttempts   \* max_attempts

ASSUME PagePollerAssumption ==
    MaxLedger \in Nat /\ PageSize \in Nat \ {0} /\ FetchAttempts \in Nat \ {0}

VARIABLES
    head,      \* ledgers closed by the network
    cursor,    \* _cursor, 0 for None
    page,      \* fetched ledgers not yet handled
    attempt,   \* fetch attempts of this cycle
    failures,  \* _consecutive_failures
    lastError, \* _last_error is set
    polled,    \* _last_success_at is set
    stopEvent, \* _stop_event
    loop,      \* where the thread of run() is
    handled    \* ledgers whose handler returned, since the program was deployed

pageVars == <<head, cursor, page, attempt, failures, lastError, polled, stopEvent, loop, handled>>

\* The failure count saturates: health() only compares it with max_attempts.
PagePollerTypeOK ==
    /\ head \in 0 .. MaxLedger /\ cursor \in 0 .. MaxLedger
    /\ page \in Seq(1 .. head) /\ Len(page) <= PageSize
    /\ attempt \in 0 .. FetchAttempts /\ failures \in 0 .. FetchAttempts
    /\ lastError \in BOOLEAN /\ polled \in BOOLEAN /\ stopEvent \in BOOLEAN
    /\ loop \in {"stopped", "check", "fetch", "handle", "wait"}
    /\ handled \subseteq 1 .. head

-----------------------------------------------------------------------------

CloseLedger ==
    /\ head < MaxLedger
    /\ head' = head + 1
    /\ UNCHANGED <<cursor, page, attempt, failures, lastError, polled, stopEvent, loop, handled>>

\* run
Run ==
    /\ loop = "stopped"
    /\ loop' = "check"
    /\ UNCHANGED <<head, cursor, page, attempt, failures, lastError, polled, stopEvent, handled>>

\* stop: the event is never cleared, a later run() ends at once.
StopPolling ==
    /\ stopEvent' = TRUE
    /\ UNCHANGED <<head, cursor, page, attempt, failures, lastError, polled, loop, handled>>

CheckStop ==
    /\ loop = "check"
    /\ loop' = IF stopEvent THEN "stopped" ELSE "fetch"
    /\ attempt' = 0
    /\ UNCHANGED <<head, cursor, page, failures, lastError, polled, stopEvent, handled>>

\* Up to PageSize ledgers after the cursor, in ascending order.
NextPage ==
    [i \in 1 .. (IF head - cursor < PageSize THEN head - cursor ELSE PageSize) |-> cursor + i]

\* fetch_blocks, when Horizon's answer is a page of ledgers.  An empty page
\* is a success: the cycle ends at once.
FetchBlocks ==
    /\ loop = "fetch"
    /\ page' = NextPage
    /\ loop' = "handle"
    /\ UNCHANGED <<head, cursor, attempt, failures, lastError, polled, stopEvent, handled>>

RecordFailure ==
    /\ failures' = IF failures < FetchAttempts THEN failures + 1 ELSE failures
    /\ lastError' = TRUE
    /\ loop' = "wait"

\* Tries once more after the last attempt.
RetryOnceMore ==
    /\ loop = "fetch" /\ attempt < FetchAttempts
    /\ attempt' = attempt + 1
    /\ UNCHANGED <<head, cursor, page, failures, lastError, polled, stopEvent, loop, handled>>

\* A network error, 408, 429 or 5xx before the last attempt: try again.
FetchRetry ==
    /\ loop = "fetch" /\ attempt + 1 < FetchAttempts
    /\ attempt' = attempt + 1
    /\ UNCHANGED <<head, cursor, page, failures, lastError, polled, stopEvent, loop, handled>>

\* Another 4xx or a malformed answer at any attempt, or the last attempt.
FetchFails ==
    /\ loop = "fetch"
    /\ attempt' = attempt + 1
    /\ RecordFailure
    /\ UNCHANGED <<head, cursor, page, polled, stopEvent, handled>>

\* Moves the cursor when the handler is called.
AdvanceFirst ==
    /\ loop = "handle" /\ page # <<>>
    /\ cursor' = Head(page)
    /\ \/ handled' = handled \cup {Head(page)} /\ page' = Tail(page)
          /\ UNCHANGED <<failures, lastError, loop>>
       \/ page' = <<>> /\ RecordFailure /\ UNCHANGED handled
    /\ UNCHANGED <<head, attempt, polled, stopEvent>>

\* The handler, and the cursor once it returned; an exception ends the cycle.
HandleBlock ==
    /\ loop = "handle" /\ page # <<>>
    /\ \/ /\ handled' = handled \cup {Head(page)}
          /\ cursor' = Head(page)
          /\ page' = Tail(page)
          /\ UNCHANGED <<failures, lastError, loop>>
       \/ page' = <<>> /\ RecordFailure /\ UNCHANGED <<cursor, handled>>
    /\ UNCHANGED <<head, attempt, polled, stopEvent>>

PollDone ==
    /\ loop = "handle" /\ page = <<>>
    /\ failures' = 0 /\ lastError' = FALSE /\ polled' = TRUE
    /\ loop' = "wait"
    /\ UNCHANGED <<head, cursor, page, attempt, stopEvent, handled>>

\* The poll interval passes.
PollInterval ==
    /\ loop = "wait"
    /\ loop' = "check"
    /\ UNCHANGED <<head, cursor, page, attempt, failures, lastError, polled, stopEvent, handled>>

\* The state of a new BlockPoller.  start_cursor is that of the deployment.
FreshPoller ==
    /\ cursor' = 0 /\ page' = <<>> /\ attempt' = 0 /\ failures' = 0
    /\ lastError' = FALSE /\ polled' = FALSE /\ stopEvent' = FALSE /\ loop' = "stopped"

\* The process dies, at any step, and starts again.
PollerRestart == FreshPoller /\ UNCHANGED <<head, handled>>

PagePollerInit ==
    /\ head = 0 /\ cursor = 0 /\ page = <<>> /\ attempt = 0 /\ failures = 0
    /\ lastError = FALSE /\ polled = FALSE /\ stopEvent = FALSE /\ loop = "stopped"
    /\ handled = {}

PagePollerNext ==
    \/ CloseLedger \/ Run \/ StopPolling \/ CheckStop \/ FetchBlocks \/ FetchRetry \/ FetchFails
    \/ HandleBlock \/ PollDone \/ PollInterval \/ PollerRestart

PagePollerSpec == PagePollerInit /\ [][PagePollerNext]_pageVars

-----------------------------------------------------------------------------

\* health
HealthStatus ==
    IF lastError THEN IF failures >= FetchAttempts THEN "unhealthy" ELSE "degraded"
    ELSE IF polled THEN "healthy" ELSE "starting"

\* The cursor has passed only ledgers whose handler returned, whatever
\* fetches and handlers failed and whenever the process died: nothing that
\* happened on chain is skipped (poll_once).
CursorPassesHandled == 1 .. cursor \subseteq handled

\* Without a cursor the poller "reads the latest ledger, processes it
\* immediately, and seeds the cursor there" (docs/BLOCK_POLLER.md), so a cold
\* start, the first and every one after a restart, fetches one ledger.  The
\* poller of block_poller.py asks for the first page of the whole chain.
ColdStartAtLatest == loop = "handle" /\ cursor = 0 => Len(page) <= 1

=============================================================================
