--------------------------- MODULE SequencePoller ---------------------------
(***************************************************************************)
(* BlockPoller of block_poller_hardening.py: blocks fetched by sequence    *)
(* number by a background thread and by threads that call poll_once, under *)
(* a lock, with a request budget per window.  The source is not trusted: a *)
(* payload that passes validation may carry any sequence number.           *)
(***************************************************************************)
EXTENDS Naturals, Sequences

CONSTANTS
    Pollers,        \* threads that call poll_once
    Background,     \* the daemon thread, one of them
    NoPoller,
    MaxSequence,    \* bound on the sequence numbers of payloads
    MaxProcessed,   \* bound on the blocks processed
    PollBudget,     \* max_requests of the limiter
    PollRetries     \* max_retries

ASSUME SequencePollerAssumption ==
    /\ Background \in Pollers /\ NoPoller \notin Pollers
    /\ MaxSequence \in Nat /\ MaxProcessed \in Nat /\ PollBudget \in Nat \ {0} /\ PollRetries \in Nat

VARIABLES
    nextSequence, \* _next_sequence
    pollLock,     \* holder of _poll_lock
    window,       \* requests in the limiter's window
    pollPc,
    fetching,     \* the sequence a thread asked for, the one it was given, its attempts
    processed,    \* the blocks process_block returned for, in order
    thread,       \* _thread: none, running or exited
    stopping      \* the thread's stop event

seqVars == <<nextSequence, pollLock, window, pollPc, fetching, processed, thread, stopping>>

PollSteps == {"idle", "wait", "limit", "fetch", "process", "advance"}
NoFetch == [asked |-> 0, sequence |-> 0, attempts |-> 0]

\* What sanitize_block_payload may return as a block's sequence.
SanitizedSequences == 0 .. MaxSequence

SequencePollerTypeOK ==
    /\ nextSequence \in 1 .. MaxSequence + 1
    /\ pollLock \in Pollers \cup {NoPoller}
    /\ window \in 0 .. PollBudget
    /\ pollPc \in [Pollers -> PollSteps]
    /\ fetching \in [Pollers -> [asked : 0 .. MaxSequence + 1, sequence : SanitizedSequences,
                                attempts : 0 .. PollRetries + 1]]
    /\ processed \in Seq([asked : 1 .. MaxSequence + 1, sequence : SanitizedSequences])
    /\ Len(processed) <= MaxProcessed
    /\ thread \in {"none", "running", "exited"} /\ stopping \in BOOLEAN

-----------------------------------------------------------------------------

PollGoto(c, step) == pollPc' = [pollPc EXCEPT ![c] = step]

\* The cycle ends, with a result or an exception, and the lock is released.
PollEnd(c) ==
    /\ PollGoto(c, "idle")
    /\ fetching' = [fetching EXCEPT ![c] = NoFetch]
    /\ pollLock' = IF pollLock = c THEN NoPoller ELSE pollLock

\* The background thread polls while it runs and is not told to stop.
MayPoll(c) == c = Background => thread = "running" /\ ~ stopping

\* run_forever looks at its stop event before it waits for the lock.
PollOnce(c) ==
    /\ pollPc[c] = "idle" /\ MayPoll(c)
    /\ PollGoto(c, "wait")
    /\ UNCHANGED <<nextSequence, pollLock, window, fetching, processed, thread, stopping>>

\* Polls without waiting for the lock.
PollUnlocked(c) ==
    /\ pollPc[c] = "wait"
    /\ pollLock' = c
    /\ PollGoto(c, "limit")
    /\ UNCHANGED <<nextSequence, window, fetching, processed, thread, stopping>>

TakePollLock(c) ==
    /\ pollPc[c] = "wait" /\ pollLock = NoPoller
    /\ pollLock' = c
    /\ PollGoto(c, "limit")
    /\ UNCHANGED <<nextSequence, window, fetching, processed, thread, stopping>>

\* One request of the budget per cycle: the retries of a cycle cost nothing.
TryAcquire(c) ==
    /\ pollPc[c] = "limit" /\ window < PollBudget
    /\ window' = window + 1
    /\ PollGoto(c, "fetch")
    /\ fetching' = [fetching EXCEPT ![c].asked = nextSequence]
    /\ UNCHANGED <<nextSequence, pollLock, processed, thread, stopping>>

RateLimited(c) ==
    /\ pollPc[c] = "limit" /\ window >= PollBudget
    /\ PollEnd(c)
    /\ UNCHANGED <<nextSequence, window, processed, thread, stopping>>

\* The oldest request leaves the window.
DiscardExpired ==
    /\ window > 0
    /\ window' = window - 1
    /\ UNCHANGED <<nextSequence, pollLock, pollPc, fetching, processed, thread, stopping>>

\* The payload passes validation.  Its sequence, whatever it is, is not
\* compared with the one asked for.
FetchBlock(c) ==
    /\ pollPc[c] = "fetch"
    /\ \E s \in SanitizedSequences :
         fetching' = [fetching EXCEPT ![c] = [asked |-> @.asked, sequence |-> s, attempts |-> @.attempts + 1]]
    /\ PollGoto(c, "process")
    /\ UNCHANGED <<nextSequence, pollLock, window, processed, thread, stopping>>

\* The payload fails one of the checks of its shape, size, values, sequence,
\* identifiers and transactions: the cycle ends, the next one asks again.
RejectBlock(c) ==
    /\ pollPc[c] = "fetch"
    /\ PollEnd(c)
    /\ UNCHANGED <<nextSequence, window, processed, thread, stopping>>

\* Any other exception: another attempt after a delay, or none is left.
FetchError(c) ==
    /\ pollPc[c] = "fetch"
    /\ IF fetching[c].attempts + 1 > PollRetries
       THEN PollEnd(c)
       ELSE /\ fetching' = [fetching EXCEPT ![c].attempts = @ + 1]
            /\ UNCHANGED <<pollLock, pollPc>>
    /\ UNCHANGED <<nextSequence, window, processed, thread, stopping>>

\* process_block returns for the block it is given, or its exception ends the cycle.
ProcessBlock(c) ==
    /\ pollPc[c] = "process"
    /\ \/ /\ Len(processed) < MaxProcessed
          /\ processed' = Append(processed, [asked |-> fetching[c].asked, sequence |-> fetching[c].sequence])
          /\ PollGoto(c, "advance")
          /\ UNCHANGED <<pollLock, fetching>>
       \/ PollEnd(c) /\ UNCHANGED processed
    /\ UNCHANGED <<nextSequence, window, thread, stopping>>

Advance(c) ==
    /\ pollPc[c] = "advance"
    /\ nextSequence' = fetching[c].sequence + 1
    /\ PollEnd(c)
    /\ UNCHANGED <<window, processed, thread, stopping>>

\* start: nothing when the thread is alive, even one that is stopping.
StartThread ==
    /\ thread # "running"
    /\ thread' = "running" /\ stopping' = FALSE
    /\ UNCHANGED <<nextSequence, pollLock, window, pollPc, fetching, processed>>

\* stop: signals the thread; its wait for the thread may time out.
StopThread ==
    /\ thread = "running" /\ stopping' = TRUE
    /\ UNCHANGED <<nextSequence, pollLock, window, pollPc, fetching, processed, thread>>

\* run_forever returns.
ThreadExits ==
    /\ thread = "running" /\ stopping /\ pollPc[Background] = "idle"
    /\ thread' = "exited"
    /\ UNCHANGED <<nextSequence, pollLock, window, pollPc, fetching, processed, stopping>>

SequencePollerInit ==
    /\ nextSequence = 1 /\ pollLock = NoPoller /\ window = 0
    /\ pollPc = [c \in Pollers |-> "idle"]
    /\ fetching = [c \in Pollers |-> NoFetch]
    /\ processed = <<>> /\ thread = "none" /\ stopping = FALSE

PollCycle(c) ==
    \/ PollOnce(c) \/ TakePollLock(c) \/ TryAcquire(c) \/ RateLimited(c)
    \/ FetchBlock(c) \/ RejectBlock(c) \/ FetchError(c) \/ ProcessBlock(c) \/ Advance(c)

SequencePollerNext ==
    \/ \E c \in Pollers : PollCycle(c)
    \/ DiscardExpired \/ StartThread \/ StopThread \/ ThreadExits

SequencePollerSpec == SequencePollerInit /\ [][SequencePollerNext]_seqVars

-----------------------------------------------------------------------------

\* The sequence the poller is due to ask for once it has processed n blocks.
Due(n) == IF n = 0 THEN 1 ELSE processed[n].sequence + 1

\* Every block processed was asked for as the successor of the one processed
\* before it, whichever threads poll, whatever sequence numbers the payloads
\* carry and whatever fetches, validations and handlers fail: no two cycles
\* work on the same number, and a failed cycle passes none over
\* (_poll_once_locked).
AskedAsDue == \A i \in DOMAIN processed : processed[i].asked = Due(i - 1)

\* Consecutive blocks have consecutive sequence numbers, "Poll sequential
\* blocks" of the class.  The sequence of the payload is never compared with
\* the one asked for.
SequentialBlocks ==
    \A i \in DOMAIN processed : i > 1 => processed[i].sequence = processed[i - 1].sequence + 1

=============================================================================
