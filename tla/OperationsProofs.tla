-------------------------- MODULE OperationsProofs --------------------------
(***************************************************************************)
(* Theorems about the components that run outages, their SLA policy and    *)
(* disputes, background work, lists and the ledger, each of its own        *)
(* specification, and about the specification that runs them together, for *)
(* every value of the constants.                                           *)
(***************************************************************************)
EXTENDS MCOperations, FiniteSetTheorems, SequenceTheorems, TLAPS

-----------------------------------------------------------------------------
(* PagePoller                                                              *)

\* The page a cycle works on continues the cursor and does not outrun the
\* network, so the ledger handled next is the one after the cursor.
PageInv ==
    /\ head \in Nat /\ cursor \in Nat
    /\ page \in Seq(Nat)
    /\ cursor + Len(page) <= head
    /\ \A i \in 1 .. Len(page) : page[i] = cursor + i
    /\ CursorPassesHandled

LEMMA PageInvInit == PagePollerInit => PageInv
  BY DEF PagePollerInit, PageInv, CursorPassesHandled

LEMMA PageInvFetch == ASSUME PageInv, FetchBlocks PROVE PageInv'
<1> DEFINE k == IF head - cursor < PageSize THEN head - cursor ELSE PageSize
<1>1. k \in Nat /\ cursor + k <= head
  BY PagePollerAssumption DEF PageInv
<1>2. page' = [i \in 1 .. k |-> cursor + i]
  BY DEF FetchBlocks, NextPage
<1> HIDE DEF k
<1>3. page' \in Seq(Nat) /\ Len(page') = k /\ \A i \in 1 .. k : page'[i] = cursor + i
  BY <1>1, <1>2 DEF PageInv
<1> QED BY <1>1, <1>3 DEF FetchBlocks, PageInv, CursorPassesHandled

LEMMA PageInvHandle == ASSUME PageInv, HandleBlock PROVE PageInv'
<1> USE DEF PageInv, CursorPassesHandled
<1>1. CASE page' = <<>> /\ UNCHANGED <<head, cursor, handled>>
  BY <1>1
<1>2. CASE /\ handled' = handled \cup {Head(page)} /\ cursor' = Head(page)
           /\ page' = Tail(page) /\ UNCHANGED head /\ page # <<>>
  <2>1. /\ Len(page) \in Nat /\ Len(page) >= 1 /\ Head(page) = page[1]
        /\ Tail(page) \in Seq(Nat) /\ Len(Tail(page)) = Len(page) - 1
        /\ \A i \in 1 .. Len(page) - 1 : Tail(page)[i] = page[i + 1]
    BY <1>2
  <2>2. cursor' = cursor + 1
    BY <1>2, <2>1
  <2>3. \A i \in 1 .. Len(page') : page'[i] = cursor' + i
    BY <1>2, <2>1, <2>2
  <2>4. 1 .. cursor' \subseteq handled'
    BY <1>2, <2>2
  <2> QED BY <1>2, <2>1, <2>2, <2>3, <2>4
<1> QED BY <1>1, <1>2 DEF HandleBlock, RecordFailure

LEMMA PageInvStep == PageInv /\ [PagePollerNext]_pageVars => PageInv'
<1> SUFFICES ASSUME PageInv, [PagePollerNext]_pageVars PROVE PageInv'
  OBVIOUS
<1>1. CASE CloseLedger
  BY <1>1 DEF CloseLedger, PageInv, CursorPassesHandled
<1>2. CASE PollerRestart
  BY <1>2 DEF PollerRestart, FreshPoller, PageInv, CursorPassesHandled
<1>3. CASE UNCHANGED <<head, cursor, page, handled>>
  BY <1>3 DEF PageInv, CursorPassesHandled
<1>4. CASE \/ Run \/ StopPolling \/ CheckStop \/ FetchRetry \/ FetchFails \/ PollDone
           \/ PollInterval \/ UNCHANGED pageVars
  BY <1>3, <1>4
  DEF Run, StopPolling, CheckStop, FetchRetry, FetchFails, PollDone, PollInterval, pageVars
<1> QED BY <1>1, <1>2, <1>4, PageInvFetch, PageInvHandle DEF PagePollerNext

\* The cursor of block_poller.py passes only ledgers whose handler returned,
\* for every page size and number of attempts, through restarts.
THEOREM NoLedgerSkipped == PagePollerSpec => []CursorPassesHandled
<1>1. PageInv => CursorPassesHandled
  BY DEF PageInv
<1> QED BY PageInvInit, PageInvStep, <1>1, PTL DEF PagePollerSpec

\* What health() reads, and the event of stop().
PageFlags == lastError \in BOOLEAN /\ polled \in BOOLEAN /\ stopEvent \in BOOLEAN

LEMMA PageFlagsKept ==
    /\ PagePollerInit => PageFlags
    /\ PageFlags /\ [PagePollerNext]_pageVars => PageFlags'
<1>1. PagePollerInit => PageFlags
  BY Zenon DEF PagePollerInit, PageFlags
<1>2. ASSUME PageFlags, [PagePollerNext]_pageVars PROVE PageFlags'
  <2>1. CASE CloseLedger \/ Run \/ StopPolling \/ CheckStop \/ FetchBlocks \/ FetchRetry
    BY <1>2, <2>1, Zenon DEF CloseLedger, Run, StopPolling, CheckStop, FetchBlocks, FetchRetry, PageFlags
  <2>2. CASE FetchFails \/ HandleBlock \/ PollDone \/ PollInterval \/ PollerRestart
    BY <1>2, <2>2, Zenon
    DEF FetchFails, HandleBlock, RecordFailure, PollDone, PollInterval, PollerRestart, FreshPoller,
        PageFlags
  <2>3. CASE UNCHANGED pageVars
    BY <1>2, <2>3 DEF pageVars, PageFlags
  <2> QED BY <1>2, <2>1, <2>2, <2>3 DEF PagePollerNext
<1> QED BY <1>1, <1>2

\* While a fetch is being tried an attempt is left to count.
PageTypes ==
    /\ head \in 0 .. MaxLedger /\ cursor \in 0 .. MaxLedger
    /\ page \in Seq(1 .. head) /\ Len(page) <= PageSize
    /\ attempt \in 0 .. FetchAttempts /\ failures \in 0 .. FetchAttempts
    /\ loop \in {"stopped", "check", "fetch", "handle", "wait"}
    /\ handled \subseteq 1 .. head
    /\ loop = "fetch" => attempt < FetchAttempts

LEMMA PageTypesInit == PagePollerInit => PageTypes
  BY PagePollerAssumption DEF PagePollerInit, PageTypes

LEMMA PageTypesFetch == ASSUME PageInv, PageTypes, FetchBlocks PROVE PageTypes'
<1> DEFINE k == IF head - cursor < PageSize THEN head - cursor ELSE PageSize
<1>1. k \in Nat /\ cursor + k <= head /\ k <= PageSize
  BY PagePollerAssumption DEF PageInv
<1>2. page' = [i \in 1 .. k |-> cursor + i]
  BY DEF FetchBlocks, NextPage
<1> HIDE DEF k
<1>3. page' \in Seq(1 .. head) /\ Len(page') = k
  BY <1>1, <1>2 DEF PageInv
<1> QED
  BY <1>1, <1>3, PagePollerAssumption DEF FetchBlocks, PageTypes

LEMMA PageTypesHandle == ASSUME PageInv, PageTypes, HandleBlock PROVE PageTypes'
<1> USE DEF PageTypes, PageInv
<1>1. CASE page' = <<>> /\ RecordFailure /\ UNCHANGED <<cursor, handled>>
  BY <1>1, PagePollerAssumption DEF HandleBlock, RecordFailure
<1>2. CASE /\ handled' = handled \cup {Head(page)} /\ cursor' = Head(page)
           /\ page' = Tail(page) /\ UNCHANGED <<failures, lastError, loop>>
  <2>1. page # <<>> /\ UNCHANGED <<head, attempt, polled, stopEvent>>
    BY DEF HandleBlock
  <2>2. Head(page) \in 1 .. head /\ Tail(page) \in Seq(1 .. head)
    BY <2>1
  <2>3. Len(Tail(page)) = Len(page) - 1 /\ Len(page) \in Nat
    BY <2>1
  <2>4. Len(page') <= PageSize
    BY <1>2, <2>3, PagePollerAssumption
  <2>5. Head(page) \in 0 .. MaxLedger
    BY <2>2, PagePollerAssumption
  <2>6. handled \cup {Head(page)} \subseteq 1 .. head
    BY <2>2
  <2>7. /\ head' = head /\ attempt' = attempt /\ loop' = loop /\ failures' = failures
        /\ page' \in Seq(1 .. head) /\ cursor' \in 0 .. MaxLedger /\ handled' \subseteq 1 .. head
    BY <1>2, <2>1, <2>2, <2>5, <2>6
  <2> HIDE DEF PageInv
  <2> QED BY <2>4, <2>7
<1> QED BY <1>1, <1>2 DEF HandleBlock

LEMMA PageTypesStep == PageInv /\ PageTypes /\ [PagePollerNext]_pageVars => PageTypes'
<1> SUFFICES ASSUME PageInv, PageTypes, [PagePollerNext]_pageVars PROVE PageTypes'
  OBVIOUS
<1>1. CASE CloseLedger
  <2>1. head' \in 0 .. MaxLedger /\ head' = head + 1 /\ head \in Nat
    BY <1>1, PagePollerAssumption DEF CloseLedger, PageTypes
  <2>2. 1 .. head \subseteq 1 .. head'
    BY <2>1
  <2>3. page \in Seq(1 .. head')
    BY <2>1, <2>2 DEF PageTypes
  <2> QED BY <1>1, <2>1, <2>2, <2>3 DEF CloseLedger, PageTypes
<1>2. CASE PollerRestart
  BY <1>2, PagePollerAssumption DEF PollerRestart, FreshPoller, PageTypes
<1>3. CASE Run \/ StopPolling \/ PollInterval
  BY <1>3 DEF Run, StopPolling, PollInterval, PageTypes
<1>4. CASE FetchRetry
  BY <1>4, PagePollerAssumption DEF FetchRetry, PageTypes
<1>5. CASE PollDone
  BY <1>5, PagePollerAssumption DEF PollDone, PageTypes
<1>6. CASE CheckStop
  <2>1. loop' \in {"stopped", "fetch"}
    BY <1>6 DEF CheckStop
  <2> QED BY <1>6, <2>1, PagePollerAssumption DEF CheckStop, PageTypes
<1>7. CASE FetchFails
  BY <1>7, PagePollerAssumption DEF FetchFails, RecordFailure, PageTypes
<1>8. CASE UNCHANGED pageVars
  BY <1>8 DEF pageVars, PageTypes
<1> QED
  BY <1>1, <1>2, <1>3, <1>4, <1>5, <1>6, <1>7, <1>8, PageTypesFetch, PageTypesHandle
  DEF PagePollerNext

LEMMA PagePollerTyped == PagePollerSpec => []PagePollerTypeOK
<1>1. PageTypes /\ PageFlags => PagePollerTypeOK
  BY DEF PageTypes, PageFlags, PagePollerTypeOK
<1> QED
  BY PageInvInit, PageInvStep, PageFlagsKept, PageTypesInit, PageTypesStep, <1>1, PTL DEF PagePollerSpec

-----------------------------------------------------------------------------
(* SequencePoller                                                          *)

\* A thread in its cycle holds the lock, and works on the next sequence.
PollerOK(c) ==
    /\ pollPc[c] \notin {"idle", "wait"} => pollLock = c
    /\ pollPc[c] \in {"fetch", "process", "advance"} => fetching[c].asked = nextSequence
    /\ pollPc[c] = "advance" =>
         /\ Len(processed) > 0
         /\ processed[Len(processed)].sequence = fetching[c].sequence

PollLocals == [asked : 0 .. MaxSequence + 1, sequence : SanitizedSequences,
               attempts : 0 .. PollRetries + 1]
Blocks == [asked : 1 .. MaxSequence + 1, sequence : SanitizedSequences]

\* The next sequence is the one due, except while a thread is between
\* process_block and the assignment.
SequenceInv ==
    /\ nextSequence \in 1 .. MaxSequence + 1
    /\ pollPc \in [Pollers -> PollSteps]
    /\ fetching \in [Pollers -> PollLocals]
    /\ processed \in Seq(Blocks)
    /\ AskedAsDue
    /\ \A c \in Pollers : PollerOK(c)
    /\ (\A c \in Pollers : pollPc[c] # "advance") => nextSequence = Due(Len(processed))
    /\ \A c \in Pollers :
         pollPc[c] \in {"idle", "wait", "limit", "fetch"} => fetching[c].attempts <= PollRetries

LEMMA SequenceInvInit == SequencePollerInit => SequenceInv
  BY SequencePollerAssumption
  DEF SequencePollerInit, SequenceInv, PollerOK, PollSteps, NoFetch, PollLocals, SanitizedSequences,
      AskedAsDue, Due

\* A thread that leaves its cycle without having processed a block.
LEMMA PollGivenUp ==
    ASSUME SequenceInv, NEW c \in Pollers, pollPc[c] # "advance", PollEnd(c),
           UNCHANGED <<nextSequence, processed>>
    PROVE  SequenceInv'
<1>1. NoFetch \in PollLocals /\ NoFetch.attempts <= PollRetries
  BY SequencePollerAssumption DEF NoFetch, PollLocals, SanitizedSequences
<1> HIDE DEF NoFetch
<1>2. AskedAsDue' /\ Due(Len(processed))' = Due(Len(processed))
  BY DEF SequenceInv, AskedAsDue, Due
<1> QED
  BY <1>1, <1>2, SequencePollerAssumption DEF SequenceInv, PollerOK, PollSteps, PollEnd, PollGoto

LEMMA PollCycleStep ==
    ASSUME SequenceInv, NEW c \in Pollers, PollCycle(c)
    PROVE  SequenceInv'
<1> USE DEF SequenceInv, PollSteps
<1>d. ASSUME UNCHANGED processed
      PROVE  AskedAsDue' /\ Due(Len(processed))' = Due(Len(processed))
  BY <1>d DEF AskedAsDue, Due
<1>a. ASSUME pollPc[c] = "fetch"
      PROVE  /\ fetching[c].attempts + 1 \in 0 .. PollRetries + 1
             /\ fetching[c] \in PollLocals
  BY <1>a, SequencePollerAssumption DEF PollLocals
<1>1. CASE PollOnce(c)
  BY <1>1, <1>d DEF PollOnce, PollGoto, PollerOK
<1>2. CASE TakePollLock(c)
  BY <1>2, <1>d, SequencePollerAssumption DEF TakePollLock, PollGoto, PollerOK
<1>3. CASE TryAcquire(c)
  <2>1. fetching' \in [Pollers -> PollLocals]
    <3>1. nextSequence \in 0 .. MaxSequence + 1
      BY SequencePollerAssumption
    <3>2. fetching \in [Pollers -> PollLocals] /\ fetching' = [fetching EXCEPT ![c].asked = nextSequence]
      BY <1>3 DEF TryAcquire
    <3> HIDE DEF SequenceInv
    <3> QED BY <3>1, <3>2 DEF PollLocals
  <2>2. \A d \in Pollers : /\ fetching'[d].attempts = fetching[d].attempts
                           /\ d # c => fetching'[d] = fetching[d]
    <3>1. fetching \in [Pollers -> PollLocals] /\ fetching' = [fetching EXCEPT ![c].asked = nextSequence]
      BY <1>3 DEF TryAcquire
    <3> HIDE DEF SequenceInv
    <3> QED BY <3>1 DEF PollLocals
  <2> QED BY <1>3, <2>1, <2>2, <1>d DEF TryAcquire, PollGoto, PollLocals, PollerOK
<1>4. CASE RateLimited(c)
  BY <1>4, PollGivenUp DEF RateLimited
<1>5. CASE RejectBlock(c)
  BY <1>5, PollGivenUp DEF RejectBlock
<1>6. CASE FetchBlock(c)
  <2>1. PICK s \in SanitizedSequences :
          fetching' = [fetching EXCEPT ![c] = [asked |-> fetching[c].asked, sequence |-> s,
                                               attempts |-> fetching[c].attempts + 1]]
    BY <1>6 DEF FetchBlock
  <2>2. fetching' \in [Pollers -> PollLocals]
    BY <1>6, <2>1, <1>a DEF FetchBlock, PollLocals
  <2>3. /\ fetching'[c].asked = fetching[c].asked
        /\ \A d \in Pollers : d # c => fetching'[d] = fetching[d]
    BY <2>1
  <2> QED BY <1>6, <2>2, <2>3, <1>d DEF FetchBlock, PollGoto, PollerOK
<1>7. CASE FetchError(c)
  <2>1. CASE PollEnd(c)
    BY <1>7, <2>1, PollGivenUp DEF FetchError
  <2>2. CASE /\ fetching' = [fetching EXCEPT ![c].attempts = @ + 1]
             /\ ~ (fetching[c].attempts + 1 > PollRetries)
             /\ UNCHANGED <<pollLock, pollPc>>
    <3> DEFINE n == fetching[c].attempts + 1
    <3>1. n \in 0 .. PollRetries + 1 /\ n <= PollRetries
      BY <1>7, <2>2, <1>a, SequencePollerAssumption DEF FetchError
    <3>2. fetching' = [fetching EXCEPT ![c].attempts = n]
      BY <2>2
    <3> HIDE DEF n
    <3>3. fetching' \in [Pollers -> PollLocals]
      BY <3>1, <3>2 DEF PollLocals
    <3>4. /\ fetching'[c].asked = fetching[c].asked /\ fetching'[c].sequence = fetching[c].sequence
          /\ fetching'[c].attempts = n
          /\ \A d \in Pollers : d # c => fetching'[d] = fetching[d]
      BY <3>2 DEF PollLocals
    <3> QED BY <1>7, <2>2, <3>1, <3>3, <3>4, <1>d DEF FetchError, PollerOK
  <2> QED BY <1>7, <2>1, <2>2 DEF FetchError
<1>8. CASE ProcessBlock(c)
  <2>1. CASE PollEnd(c) /\ UNCHANGED processed
    BY <1>8, <2>1, PollGivenUp DEF ProcessBlock
  <2>2. CASE /\ processed' = Append(processed, [asked |-> fetching[c].asked,
                                               sequence |-> fetching[c].sequence])
             /\ PollGoto(c, "advance") /\ UNCHANGED <<pollLock, fetching>>
    <3> DEFINE block == [asked |-> fetching[c].asked, sequence |-> fetching[c].sequence]
    <3>1. /\ pollPc[c] = "process" /\ fetching[c].asked = nextSequence
          /\ \A d \in Pollers : d # c => pollPc[d] \in {"idle", "wait"}
      BY <1>8 DEF ProcessBlock, PollerOK
    <3>2. nextSequence = Due(Len(processed))
      BY <3>1
    <3>3. block \in Blocks /\ block.asked = Due(Len(processed))
          /\ block.sequence = fetching[c].sequence
      BY <3>1, <3>2 DEF PollLocals, Blocks
    <3>4. processed' = Append(processed, block)
      BY <2>2
    <3> HIDE DEF block
    <3>5. /\ processed' \in Seq(Blocks) /\ Len(processed') = Len(processed) + 1
          /\ \A i \in 1 .. Len(processed) : processed'[i] = processed[i]
          /\ processed'[Len(processed) + 1] = block
          /\ Len(processed) \in Nat
      BY <3>3, <3>4
    <3>6. AskedAsDue'
      <4>1. \A i \in 0 .. Len(processed) : Due(i)' = Due(i)
        BY <3>5 DEF Due
      <4>2. \A i \in 1 .. Len(processed) : processed'[i].asked = Due(i - 1)'
        BY <4>1, <3>5 DEF AskedAsDue
      <4>n. PICK n \in Nat : n = Len(processed)
        BY <3>5
      <4>3. processed'[n + 1].asked = Due(n) /\ Due(n)' = Due(n)
        BY <4>n, <4>1, <3>5, <3>3
      <4>4. Len(processed') = n + 1
        BY <4>n, <3>5
      <4>5. ASSUME NEW i \in 1 .. n + 1 PROVE processed'[i].asked = Due(i - 1)'
        <5>1. CASE i \in 1 .. n
          BY <4>n, <4>2, <5>1
        <5>2. CASE i = n + 1
          <6>1. i - 1 = n
            BY <5>2, <4>3
          <6> QED BY <5>2, <4>3, <4>1, <6>1 DEF Due
        <5> QED BY <5>1, <5>2, <4>3
      <4>6. DOMAIN processed' = 1 .. n + 1
        BY <3>5, <4>4
      <4> QED BY <4>5, <4>6 DEF AskedAsDue
    <3>7. /\ pollPc' \in [Pollers -> PollSteps] /\ pollPc'[c] = "advance"
          /\ \A d \in Pollers : d # c => pollPc'[d] = pollPc[d]
          /\ nextSequence' = nextSequence
      BY <1>8, <2>2 DEF ProcessBlock, PollGoto
    <3>8. \A d \in Pollers : PollerOK(d)'
      BY <2>2, <3>1, <3>3, <3>5, <3>7 DEF PollerOK
    <3> QED BY <2>2, <3>1, <3>5, <3>6, <3>7, <3>8
  <2> QED BY <1>8, <2>1, <2>2 DEF ProcessBlock
<1>9. CASE Advance(c)
  <2>1. /\ pollPc[c] = "advance" /\ Len(processed) > 0
        /\ processed[Len(processed)].sequence = fetching[c].sequence
        /\ \A d \in Pollers : d # c => pollPc[d] \in {"idle", "wait"}
    BY <1>9 DEF Advance, PollerOK
  <2>2. /\ nextSequence' = fetching[c].sequence + 1 /\ processed' = processed
        /\ pollPc' = [pollPc EXCEPT ![c] = "idle"] /\ fetching' = [fetching EXCEPT ![c] = NoFetch]
        /\ pollLock' = IF pollLock = c THEN NoPoller ELSE pollLock
    BY <1>9 DEF Advance, PollEnd, PollGoto
  <2>3. nextSequence' \in 1 .. MaxSequence + 1 /\ nextSequence' = Due(Len(processed))
    BY <2>1, <2>2, SequencePollerAssumption DEF PollLocals, SanitizedSequences, Due
  <2>4. NoFetch \in PollLocals /\ NoFetch.attempts <= PollRetries
    BY SequencePollerAssumption DEF NoFetch, PollLocals, SanitizedSequences
  <2> HIDE DEF NoFetch
  <2>5. AskedAsDue' /\ Due(Len(processed))' = Due(Len(processed))
    BY <2>2, <1>d
  <2>6. \A d \in Pollers : PollerOK(d)'
    BY <2>1, <2>2 DEF PollerOK
  <2> QED BY <2>1, <2>2, <2>3, <2>4, <2>5, <2>6
<1> QED BY <1>1, <1>2, <1>3, <1>4, <1>5, <1>6, <1>7, <1>8, <1>9 DEF PollCycle

LEMMA SequenceInvStep == SequenceInv /\ [SequencePollerNext]_seqVars => SequenceInv'
<1> SUFFICES ASSUME SequenceInv, [SequencePollerNext]_seqVars PROVE SequenceInv'
  OBVIOUS
<1>1. CASE \/ DiscardExpired \/ StartThread \/ StopThread \/ ThreadExits
           \/ UNCHANGED seqVars
  BY <1>1 DEF DiscardExpired, StartThread, StopThread, ThreadExits, seqVars,
              SequenceInv, PollerOK, AskedAsDue, Due
<1> QED BY <1>1, PollCycleStep DEF SequencePollerNext

\* The hardened poller asks for each block as the successor of the one it
\* processed last, whatever sequence numbers the payloads carry, for any
\* number of threads, requests and retries, stops and starts.
THEOREM BlocksInSequence == SequencePollerSpec => []AskedAsDue
<1>1. SequenceInv => AskedAsDue
  BY DEF SequenceInv
<1> QED BY SequenceInvInit, SequenceInvStep, <1>1, PTL DEF SequencePollerSpec

\* The rest of the poller's types.
SequenceTypes ==
    /\ pollLock \in Pollers \cup {NoPoller}
    /\ window \in 0 .. PollBudget
    /\ processed \in Seq(Blocks) /\ Len(processed) <= MaxProcessed
    /\ thread \in {"none", "running", "exited"}

LEMMA SequenceTypesInit == SequencePollerInit => SequenceTypes
  BY SequencePollerAssumption DEF SequencePollerInit, SequenceTypes

LEMMA PollCycleTypes ==
    ASSUME SequenceInv, SequenceTypes, NEW c \in Pollers, PollCycle(c), SequenceInv'
    PROVE  SequenceTypes'
<1> USE DEF SequenceTypes
<1>1. CASE PollOnce(c)
  BY <1>1 DEF PollOnce
<1>2. CASE TakePollLock(c)
  BY <1>2 DEF TakePollLock
<1>3. CASE TryAcquire(c)
  BY <1>3, SequencePollerAssumption DEF TryAcquire
<1>4. CASE RateLimited(c) \/ RejectBlock(c) \/ Advance(c)
  BY <1>4 DEF RateLimited, RejectBlock, Advance, PollEnd
<1>5. CASE FetchBlock(c)
  BY <1>5 DEF FetchBlock
<1>6. CASE FetchError(c)
  BY <1>6 DEF FetchError, PollEnd
<1>7. CASE ProcessBlock(c)
  <2>1. CASE PollEnd(c) /\ UNCHANGED processed
    BY <1>7, <2>1 DEF ProcessBlock, PollEnd
  <2>2. CASE /\ Len(processed) < MaxProcessed
             /\ processed' = Append(processed, [asked |-> fetching[c].asked,
                                               sequence |-> fetching[c].sequence])
             /\ UNCHANGED pollLock
    <3>1. Len(processed') = Len(processed) + 1 /\ Len(processed) \in Nat /\ processed' \in Seq(Blocks)
      BY <2>2 DEF SequenceInv
    <3> QED BY <1>7, <2>2, <3>1, SequencePollerAssumption DEF ProcessBlock
  <2> QED BY <1>7, <2>1, <2>2 DEF ProcessBlock
<1> QED BY <1>1, <1>2, <1>3, <1>4, <1>5, <1>6, <1>7 DEF PollCycle

LEMMA SequenceTypesStep ==
    SequenceInv /\ SequenceTypes /\ [SequencePollerNext]_seqVars => SequenceTypes'
<1> SUFFICES ASSUME SequenceInv, SequenceTypes, [SequencePollerNext]_seqVars PROVE SequenceTypes'
  OBVIOUS
<1>1. CASE DiscardExpired \/ StartThread \/ StopThread \/ ThreadExits \/ UNCHANGED seqVars
  BY <1>1, SequencePollerAssumption
  DEF DiscardExpired, StartThread, StopThread, ThreadExits, seqVars, SequenceTypes
<1> QED BY <1>1, PollCycleTypes, SequenceInvStep DEF SequencePollerNext

LEMMA SequencePollerTyped == SequencePollerSpec => []SequencePollerTypeOK
<1>1. SequenceInv /\ SequenceTypes /\ stopping \in BOOLEAN => SequencePollerTypeOK
  BY DEF SequenceInv, SequenceTypes, SequencePollerTypeOK, PollLocals, Blocks
<1>2. SequencePollerInit => stopping \in BOOLEAN
  BY Zenon DEF SequencePollerInit
<1>3. stopping \in BOOLEAN /\ [SequencePollerNext]_seqVars => (stopping \in BOOLEAN)'
  <2> SUFFICES ASSUME stopping \in BOOLEAN, [SequencePollerNext]_seqVars PROVE stopping' \in BOOLEAN
    OBVIOUS
  <2>1. CASE \E c \in Pollers : PollCycle(c)
    BY <2>1, Zenon
    DEF PollCycle, PollOnce, TakePollLock, TryAcquire, RateLimited, FetchBlock, RejectBlock, FetchError,
        ProcessBlock, Advance
  <2>2. CASE DiscardExpired \/ StartThread \/ StopThread \/ ThreadExits \/ UNCHANGED seqVars
    BY <2>2, Zenon DEF DiscardExpired, StartThread, StopThread, ThreadExits, seqVars
  <2> QED BY <2>1, <2>2 DEF SequencePollerNext
<1> QED
  BY <1>2, <1>3, SequenceInvInit, SequenceInvStep, SequenceTypesInit, SequenceTypesStep, <1>1, PTL
  DEF SequencePollerSpec

-----------------------------------------------------------------------------
(* TxIndexer                                                               *)

PassSteps == {"idle", "fetch", "parse", "upsert", "succeed", "fail", "saveOk", "saveFailed"}
PassLocals == [from : Nat, to : Nat, attempts : Nat, loaded : Heartbeat]

Stored(i) == stream[i].hash \in DOMAIN ledgerRows

\* A pass starts where every earlier payment is stored, its page lies within
\* the stream, and past the upsert the page is stored too.
PassOK(w) ==
    /\ idxReq[w].from \in Nat /\ idxReq[w].to \in Nat
    /\ \A i \in 1 .. Len(stream) : i <= idxReq[w].from => Stored(i)
    /\ idxReq[w].from <= Len(stream) /\ idxReq[w].to <= Len(stream)
    /\ idxPc[w] = "upsert" =>
          \A i \in 1 .. Len(stream) :
              idxReq[w].from < i /\ i <= idxReq[w].to => stream[i].parses
    /\ idxPc[w] \in {"succeed", "saveOk"} =>
          \A i \in 1 .. Len(stream) : i <= idxReq[w].to => Stored(i)

IndexInv ==
    /\ stream \in Seq(Payment)
    /\ returned \subseteq 0 .. Len(stream)
    /\ idxPc \in [IndexWorkers -> PassSteps]
    /\ idxReq \in [IndexWorkers -> PassLocals]
    /\ heartbeat \in Heartbeat
    /\ \A w \in IndexWorkers : PassOK(w)
    /\ CursorLeavesNoneOut

LEMMA IndexInvInit == TxIndexerInit => IndexInv
<1> SUFFICES ASSUME TxIndexerInit PROVE IndexInv
  OBVIOUS
<1>1. NoPass \in PassLocals
  BY DEF NoPass, NoHeartbeat, Heartbeat, PassLocals
<1>2. \A w \in IndexWorkers : idxReq[w].from = 0 /\ idxReq[w].to = 0
  BY DEF TxIndexerInit, NoPass
<1>3. \A w \in IndexWorkers : PassOK(w)
  BY <1>2 DEF TxIndexerInit, PassOK
<1>4. heartbeat \in Heartbeat
  BY DEF TxIndexerInit, NoHeartbeat, Heartbeat
<1> QED BY <1>1, <1>3, <1>4 DEF TxIndexerInit, IndexInv, PassSteps, CursorLeavesNoneOut

\* Rows are only added to the table: what was stored stays.
LEMMA IndexGrows ==
    ASSUME IndexInv, NEW h \in Hashes, NEW good \in BOOLEAN, Pay(h, good) \/ SettlementRow(h)
    PROVE  IndexInv'
<1> USE DEF IndexInv
<1>1. CASE Pay(h, good)
  <2>1. /\ stream' \in Seq(Payment) /\ Len(stream') = Len(stream) + 1 /\ Len(stream) \in Nat
        /\ \A i \in 1 .. Len(stream) : stream'[i] = stream[i]
    BY <1>1 DEF Pay, Payment
  <2>2. \A w \in IndexWorkers : PassOK(w)'
    BY <1>1, <2>1 DEF Pay, PassOK, Stored
  <2>3. CursorLeavesNoneOut'
    BY <1>1, <2>1 DEF Pay, CursorLeavesNoneOut
  <2> QED BY <1>1, <2>1, <2>2, <2>3 DEF Pay
<1>2. CASE SettlementRow(h)
  <2>1. DOMAIN ledgerRows \subseteq DOMAIN ledgerRows'
    BY <1>2 DEF SettlementRow
  <2> QED BY <1>2, <2>1 DEF SettlementRow, PassOK, Stored, CursorLeavesNoneOut
<1> QED BY <1>1, <1>2


\* A pass that ends or fails keeps nothing of its own.
LEMMA PassDropped ==
    ASSUME IndexInv, NEW w \in IndexWorkers, NEW step \in PassSteps \ {"upsert", "succeed", "saveOk"},
           IdxGoto(w, step), idxReq' = [idxReq EXCEPT ![w] = NoPass],
           heartbeat' \in Heartbeat, UNCHANGED <<stream, ledgerRows, returned>>
    PROVE  IndexInv'
<1>1. NoPass \in PassLocals /\ NoPass.from = 0 /\ NoPass.to = 0
  BY DEF NoPass, NoHeartbeat, Heartbeat, PassLocals
<1>2. \A v \in IndexWorkers : PassOK(v)'
  BY <1>1 DEF IndexInv, PassOK, Stored, IdxGoto
<1>3. CursorLeavesNoneOut'
  BY DEF IndexInv, CursorLeavesNoneOut
<1> QED BY <1>1, <1>2, <1>3 DEF IndexInv, IdxGoto

LEMMA IndexPassStep ==
    ASSUME IndexInv, NEW w \in IndexWorkers, IndexPass(w)
    PROVE  IndexInv'
<1> USE DEF PassSteps
<1>t. NoHeartbeat \in Heartbeat /\ [succeeded |-> TRUE, failing |-> FALSE] \in Heartbeat
  BY DEF NoHeartbeat, Heartbeat
<1>l. Len(stream) \in Nat
  BY DEF IndexInv
<1>1. CASE StartPass(w)
  <2>1. PICK c \in returned \cup {0} : idxReq' = [idxReq EXCEPT ![w].from = c]
    BY <1>1 DEF StartPass
  <2>2. c \in Nat /\ c <= Len(stream) /\ \A i \in 1 .. Len(stream) : i <= c => Stored(i)
    BY <1>l DEF IndexInv, CursorLeavesNoneOut, Stored
  <2>3. idxReq' \in [IndexWorkers -> PassLocals]
    BY <2>1, <2>2 DEF IndexInv, PassLocals
  <2>4. \A v \in IndexWorkers : PassOK(v)'
    BY <1>1, <2>1, <2>2 DEF StartPass, IdxGoto, IndexInv, PassOK, Stored, PassLocals
  <2>5. CursorLeavesNoneOut'
    BY <1>1 DEF StartPass, IndexInv, CursorLeavesNoneOut
  <2> QED BY <1>1, <2>3, <2>4, <2>5 DEF StartPass, IdxGoto, IndexInv
<1>2. CASE FetchPage(w)
  <2> DEFINE e == PageEnd(idxReq[w].from)
  <2>1. e \in Nat /\ e <= Len(stream)
    BY <1>l, TxIndexerAssumption DEF IndexInv, PassOK, PageEnd
  <2> HIDE DEF e
  <2>2. idxReq' = [idxReq EXCEPT ![w].to = e, ![w].attempts = 0]
    BY <1>2 DEF FetchPage, e
  <2>3. idxReq' \in [IndexWorkers -> PassLocals]
    BY <2>1, <2>2 DEF IndexInv, PassLocals
  <2>4. \A v \in IndexWorkers : PassOK(v)'
    BY <1>2, <2>1, <2>2 DEF FetchPage, IdxGoto, IndexInv, PassOK, Stored, PassLocals
  <2>5. CursorLeavesNoneOut'
    BY <1>2 DEF FetchPage, IndexInv, CursorLeavesNoneOut
  <2> QED BY <1>2, <2>3, <2>4, <2>5 DEF FetchPage, IdxGoto, IndexInv
<1>3. CASE FetchAgain(w)
  <2>1. idxReq' \in [IndexWorkers -> PassLocals]
    <3> DEFINE n == idxReq[w].attempts + 1
    <3>1. n \in Nat
      BY DEF IndexInv, PassLocals
    <3> HIDE DEF n
    <3>2. idxReq' = [idxReq EXCEPT ![w].attempts = n]
      BY <1>3 DEF FetchAgain, IndexInv, n
    <3> QED BY <3>1, <3>2 DEF IndexInv, PassLocals
  <2>2. \A v \in IndexWorkers : PassOK(v)'
    BY <1>3 DEF FetchAgain, IndexInv, PassOK, Stored, PassLocals
  <2> QED BY <1>3, <2>1, <2>2 DEF FetchAgain, IndexInv, CursorLeavesNoneOut
<1>4. CASE FetchGivesUp(w)
  BY <1>4, PassDropped DEF FetchGivesUp, IndexInv
<1>5. CASE ParsePage(w)
  <2>1. CASE \E p \in Page(w) : ~ p.parses
    BY <1>5, <2>1, PassDropped DEF ParsePage, IndexInv
  <2>2. CASE \A p \in Page(w) : p.parses
    <3>1. \A i \in 1 .. Len(stream) :
              idxReq[w].from < i /\ i <= idxReq[w].to => stream[i].parses
      BY <1>l, <2>2 DEF Page, IndexInv, PassOK
    <3>2. idxPc' = [idxPc EXCEPT ![w] = "upsert"] /\ UNCHANGED idxReq
      BY <1>5, <2>2 DEF ParsePage, IdxGoto
    <3>3. \A v \in IndexWorkers : PassOK(v)'
      BY <1>5, <3>1, <3>2 DEF ParsePage, IndexInv, PassOK, Stored
    <3> QED BY <1>5, <3>2, <3>3 DEF ParsePage, IndexInv, CursorLeavesNoneOut
  <2> QED BY <2>1, <2>2
<1>6. CASE UpsertMany(w)
  <2>1. CASE IdxGoto(w, "fail") /\ idxReq' = [idxReq EXCEPT ![w] = NoPass] /\ UNCHANGED ledgerRows
    <3>1. heartbeat' \in Heartbeat /\ UNCHANGED <<stream, returned>>
      BY <1>6 DEF UpsertMany, IndexInv
    <3> QED BY <2>1, <3>1, PassDropped
  <2>2. CASE idxPc' = [idxPc EXCEPT ![w] = "succeed"] /\ UNCHANGED idxReq
             /\ DOMAIN ledgerRows' = DOMAIN ledgerRows \cup {p.hash : p \in {p \in Page(w) : p.parses}}
    <3>1. \A i \in 1 .. Len(stream) : i <= idxReq[w].to => Stored(i)'
      <4> SUFFICES ASSUME NEW i \in 1 .. Len(stream), i <= idxReq[w].to
                   PROVE  stream[i].hash \in DOMAIN ledgerRows'
        BY <1>6 DEF UpsertMany, Stored
      <4>1. CASE i <= idxReq[w].from
        BY <2>2, <4>1 DEF IndexInv, PassOK, Stored
      <4>2. CASE idxReq[w].from < i
        <5>1. stream[i].parses /\ stream[i] \in Page(w)
          BY <1>6, <1>l, <4>2 DEF UpsertMany, IndexInv, PassOK, Page
        <5> QED BY <2>2, <5>1
      <4> QED BY <1>l, <4>1, <4>2 DEF IndexInv, PassOK
    <3>2. \A v \in IndexWorkers : PassOK(v)'
      BY <1>6, <2>2, <3>1 DEF UpsertMany, IndexInv, PassOK, Stored
    <3> QED BY <1>6, <2>2, <3>2 DEF UpsertMany, IndexInv, CursorLeavesNoneOut
  <2> QED BY <1>6, <2>1, <2>2 DEF UpsertMany, IdxGoto
<1>7. CASE LoadState(w)
  <2>1. PICK s \in {heartbeat, NoHeartbeat} : idxReq' = [idxReq EXCEPT ![w].loaded = s]
    BY <1>7 DEF LoadState
  <2>2. idxReq' \in [IndexWorkers -> PassLocals]
    BY <1>t, <2>1 DEF IndexInv, PassLocals
  <2>3. \A v \in IndexWorkers : PassOK(v)'
    BY <1>7, <2>1 DEF LoadState, IdxGoto, IndexInv, PassOK, Stored, PassLocals
  <2> QED BY <1>7, <2>2, <2>3 DEF LoadState, IdxGoto, IndexInv, CursorLeavesNoneOut
<1>8. CASE SaveSuccess(w)
  <2>1. NoPass \in PassLocals /\ NoPass.from = 0 /\ NoPass.to = 0
    BY DEF NoPass, NoHeartbeat, Heartbeat, PassLocals
  <2>2. \A v \in IndexWorkers : PassOK(v)'
    BY <1>8, <1>l, <2>1 DEF SaveSuccess, IdxEnd, IdxGoto, IndexInv, PassOK, Stored
  <2>3. \A i \in 1 .. idxReq[w].to : stream[i].hash \in DOMAIN ledgerRows
    BY <1>8, <1>l DEF SaveSuccess, IndexInv, PassOK, Stored
  <2>4. CursorLeavesNoneOut'
    BY <1>8, <2>3 DEF SaveSuccess, IndexInv, CursorLeavesNoneOut
  <2>5. returned' \subseteq 0 .. Len(stream)
    <3>1. idxReq[w].to \in 0 .. Len(stream)
      BY <1>l DEF IndexInv, PassOK
    <3> QED BY <1>8, <3>1 DEF SaveSuccess, IndexInv
  <2> QED BY <1>8, <1>t, <2>1, <2>2, <2>4, <2>5 DEF SaveSuccess, IdxEnd, IdxGoto, IndexInv
<1>9. CASE SaveFailure(w)
  <2>1. [idxReq[w].loaded EXCEPT !.failing = TRUE] \in Heartbeat
    BY DEF IndexInv, PassLocals, Heartbeat
  <2> QED BY <1>9, <2>1, PassDropped DEF SaveFailure, IdxEnd, IndexInv
<1>10. CASE IndexCrash(w)
  BY <1>10, PassDropped DEF IndexCrash, IdxEnd, IndexInv
<1> QED BY <1>1, <1>2, <1>3, <1>4, <1>5, <1>6, <1>7, <1>8, <1>9, <1>10 DEF IndexPass

LEMMA IndexInvStep == IndexInv /\ [TxIndexerNext]_indexVars => IndexInv'
<1> SUFFICES ASSUME IndexInv, [TxIndexerNext]_indexVars PROVE IndexInv'
  OBVIOUS
<1>1. CASE UNCHANGED indexVars
  BY <1>1 DEF indexVars, IndexInv, PassOK, Stored, CursorLeavesNoneOut
<1>2. CASE StateExpires
  BY <1>2 DEF StateExpires, IndexInv, PassOK, Stored, CursorLeavesNoneOut, NoHeartbeat, Heartbeat
<1> QED BY <1>1, <1>2, IndexGrows, IndexPassStep DEF TxIndexerNext

\* Carrying run_once's cursor forward leaves no transaction out, for any number
\* of workers, batch size and attempts.
THEOREM NoTransactionLeftOut == TxIndexerSpec => []CursorLeavesNoneOut
<1>1. IndexInv => CursorLeavesNoneOut
  BY DEF IndexInv
<1> QED BY IndexInvInit, IndexInvStep, <1>1, PTL DEF TxIndexerSpec

\* The bounds on the stream, the table and the attempts of a pass.
IndexTypes ==
    /\ Len(stream) <= MaxPayments
    /\ DOMAIN ledgerRows \subseteq Hashes
    /\ \A h \in DOMAIN ledgerRows : ledgerRows[h] \in {"indexed", "settlement"}
    /\ \A w \in IndexWorkers : idxReq[w].attempts <= IndexAttempts

LEMMA IndexTypesInit == TxIndexerInit => IndexTypes
<1> SUFFICES ASSUME TxIndexerInit PROVE IndexTypes
  OBVIOUS
<1>1. \A w \in IndexWorkers : idxReq[w].attempts = 0
  BY DEF TxIndexerInit, NoPass
<1> QED BY <1>1, TxIndexerAssumption DEF TxIndexerInit, IndexTypes

\* A step of one pass that leaves the table alone.
LEMMA PassTypes ==
    ASSUME IndexInv, IndexTypes, NEW w \in IndexWorkers, UNCHANGED <<stream, ledgerRows>>,
           NEW q \in PassLocals, idxReq' = [idxReq EXCEPT ![w] = q], q.attempts <= IndexAttempts
    PROVE  IndexTypes'
  BY DEF IndexInv, IndexTypes

LEMMA IndexTypesStep == IndexInv /\ IndexTypes /\ [TxIndexerNext]_indexVars => IndexTypes'
<1> SUFFICES ASSUME IndexInv, IndexTypes, [TxIndexerNext]_indexVars PROVE IndexTypes'
  OBVIOUS
<1>1. ASSUME NEW h \in Hashes, NEW good \in BOOLEAN, Pay(h, good) PROVE IndexTypes'
  <2>1. Len(stream') = Len(stream) + 1 /\ Len(stream) \in Nat
    BY <1>1 DEF Pay, Payment, IndexInv
  <2> QED BY <1>1, <2>1, TxIndexerAssumption DEF Pay, IndexTypes
<1>2. ASSUME NEW h \in Hashes, SettlementRow(h) PROVE IndexTypes'
  BY <1>2 DEF SettlementRow, IndexTypes
<1>3. ASSUME NEW w \in IndexWorkers, IndexPass(w) PROVE IndexTypes'
  <2>t. idxReq[w] \in PassLocals /\ idxReq = [idxReq EXCEPT ![w] = idxReq[w]]
        /\ idxReq[w].attempts <= IndexAttempts /\ idxReq \in [IndexWorkers -> PassLocals]
    BY DEF IndexInv, IndexTypes
  <2>n. NoPass \in PassLocals /\ NoPass.attempts <= IndexAttempts
    BY TxIndexerAssumption DEF NoPass, NoHeartbeat, Heartbeat, PassLocals
  <2> HIDE DEF NoPass
  <2>1. CASE StartPass(w)
    <3>1. PICK c \in returned \cup {0} : idxReq' = [idxReq EXCEPT ![w].from = c]
      BY <2>1 DEF StartPass
    <3> QED BY <2>1, <2>t, <3>1 DEF StartPass, IndexTypes, PassLocals
  <2>2. CASE FetchPage(w)
    <3> DEFINE e == PageEnd(idxReq[w].from)
    <3>1. idxReq' = [idxReq EXCEPT ![w].to = e, ![w].attempts = 0]
      BY <2>2 DEF FetchPage
    <3> HIDE DEF e
    <3> QED BY <2>2, <2>t, <3>1, TxIndexerAssumption DEF FetchPage, IndexTypes, PassLocals
  <2>3. CASE FetchAgain(w)
    <3> DEFINE n == idxReq[w].attempts + 1
    <3>1. n <= IndexAttempts
      BY <2>3, <2>t, TxIndexerAssumption DEF FetchAgain, PassLocals
    <3>2. idxReq' = [idxReq EXCEPT ![w].attempts = n]
      BY <2>3, <2>t DEF FetchAgain
    <3> HIDE DEF n
    <3> QED BY <2>3, <2>t, <3>1, <3>2 DEF FetchAgain, IndexTypes, PassLocals
  <2>4. CASE FetchGivesUp(w) \/ SaveSuccess(w) \/ SaveFailure(w) \/ IndexCrash(w)
    BY <2>4, <2>n, PassTypes DEF FetchGivesUp, SaveSuccess, SaveFailure, IndexCrash, IdxEnd
  <2>5. CASE ParsePage(w)
    <3>1. CASE UNCHANGED idxReq
      BY <2>5, <3>1 DEF ParsePage, IndexTypes
    <3>2. CASE idxReq' = [idxReq EXCEPT ![w] = NoPass]
      BY <2>5, <2>n, <3>2, PassTypes DEF ParsePage
    <3> QED BY <2>5, <3>1, <3>2 DEF ParsePage
  <2>6. CASE UpsertMany(w)
    <3> DEFINE new == {p.hash : p \in {p \in Page(w) : p.parses}} \ DOMAIN ledgerRows
    <3>1. CASE /\ ledgerRows' = [h \in DOMAIN ledgerRows \cup new |->
                                   IF h \in new THEN "indexed" ELSE ledgerRows[h]]
               /\ UNCHANGED idxReq
      <4>1. Page(w) \subseteq Payment
        BY DEF Page, IndexInv, PassOK
      <4>2. new \subseteq Hashes
        BY <4>1 DEF Payment
      <4> HIDE DEF new
      <4>3. DOMAIN ledgerRows' \subseteq Hashes
        BY <3>1, <4>2 DEF IndexTypes
      <4>4. \A h \in DOMAIN ledgerRows' : ledgerRows'[h] \in {"indexed", "settlement"}
        BY <3>1 DEF IndexTypes
      <4>5. UNCHANGED <<stream, idxReq>>
        BY <2>6, <3>1 DEF UpsertMany
      <4> QED BY <4>3, <4>4, <4>5 DEF IndexTypes
    <3>2. CASE idxReq' = [idxReq EXCEPT ![w] = NoPass] /\ UNCHANGED ledgerRows
      <4>1. UNCHANGED <<stream, ledgerRows>>
        BY <2>6, <3>2 DEF UpsertMany
      <4> QED BY <2>n, <3>2, <4>1, PassTypes
    <3> QED BY <2>6, <3>1, <3>2 DEF UpsertMany
  <2>7. CASE LoadState(w)
    <3>1. PICK s \in {heartbeat, NoHeartbeat} : idxReq' = [idxReq EXCEPT ![w].loaded = s]
      BY <2>7 DEF LoadState
    <3> QED BY <2>7, <2>t, <3>1 DEF LoadState, IndexTypes, PassLocals
  <2> QED BY <1>3, <2>1, <2>2, <2>3, <2>4, <2>5, <2>6, <2>7 DEF IndexPass
<1>4. CASE StateExpires \/ UNCHANGED indexVars
  BY <1>4 DEF StateExpires, indexVars, IndexTypes
<1> QED BY <1>1, <1>2, <1>3, <1>4 DEF TxIndexerNext

LEMMA TxIndexerTyped == TxIndexerSpec => []TxIndexerTypeOK
<1>1. ASSUME IndexInv, IndexTypes PROVE TxIndexerTypeOK
  <2>1. idxReq \in [IndexWorkers -> [from : 0 .. MaxPayments, to : 0 .. MaxPayments,
                                     attempts : 0 .. IndexAttempts, loaded : Heartbeat]]
    <3>1. Len(stream) \in Nat /\ idxReq \in [IndexWorkers -> PassLocals]
      BY <1>1 DEF IndexInv
    <3>2. \A w \in IndexWorkers :
            /\ idxReq[w].from \in 0 .. MaxPayments /\ idxReq[w].to \in 0 .. MaxPayments
            /\ idxReq[w].attempts \in 0 .. IndexAttempts /\ idxReq[w].loaded \in Heartbeat
      BY <1>1, <3>1, TxIndexerAssumption DEF IndexInv, PassOK, IndexTypes, PassLocals
    <3> HIDE DEF Heartbeat
    <3>3. \A w \in IndexWorkers : idxReq[w] \in [from : 0 .. MaxPayments, to : 0 .. MaxPayments,
                                                 attempts : 0 .. IndexAttempts, loaded : Heartbeat]
      BY <3>1, <3>2 DEF PassLocals
    <3> QED BY <3>1, <3>3
  <2> QED BY <1>1, <2>1 DEF IndexInv, IndexTypes, PassSteps, TxIndexerTypeOK
<1> QED
  BY <1>1, IndexInvInit, IndexInvStep, IndexTypesInit, IndexTypesStep, PTL DEF TxIndexerSpec

-----------------------------------------------------------------------------
(* PolicyConfig                                                            *)

\* A publisher past the check works on the version whose token it was given,
\* unless another version has come between, which the unique index refuses; a
\* publisher past the insertion knows that there is a version.
PublisherOK(r) ==
    /\ polReq[r].base <= Len(ledger)
    /\ polPc[r] = "insert" /\ polReq[r].base = Len(ledger) =>
          \/ polReq[r].expected = Unconditional
          \/ polReq[r].base = 0 /\ polReq[r].expected = Defaults
          \/ polReq[r].base > 0 /\ polReq[r].expected = ledger[polReq[r].base].token
    /\ polPc[r] \in {"version", "values", "token"} => Len(ledger) > 0

\* A process holds its default token until there is a version.
PolicyInv ==
    /\ PolicyTypeOK
    /\ \A r \in Publishers : PublisherOK(r)
    /\ \A p \in Processes : Len(ledger) = 0 => held[p].token = Defaults
    /\ PublishedOnSeenVersion

LEMMA PolicyInvInit == PolicyInit => PolicyInv
<1> SUFFICES ASSUME PolicyInit PROVE PolicyInv
  OBVIOUS
<1>1. (CHOOSE p \in Processes : TRUE) \in Processes
  BY PolicyAssumption
<1>2. PolicyTypeOK
  BY <1>1 DEF PolicyInit, PolicyTypeOK, PublishTokens, PolicySteps, FreshProcess
<1>3. \A r \in Publishers : PublisherOK(r)
  BY DEF PolicyInit, PublisherOK
<1> QED BY <1>2, <1>3 DEF PolicyInit, PolicyInv, FreshProcess, PublishedOnSeenVersion


ExpectedTokens == PublishTokens \cup {Unconditional}
PolicyRow == [token : Publishers, expected : ExpectedTokens]
HeldPolicy == [version : Nat, values : PublishTokens, token : PublishTokens]
PublishLocals == [expected : ExpectedTokens, base : Nat, process : Processes]

LEMMA PublishStep ==
    ASSUME PolicyInv, NEW r \in Publishers, Publish(r)
    PROVE  PolicyInv'
<1>t. /\ ledger \in Seq(PolicyRow) /\ Len(ledger) \in Nat
      /\ held \in [Processes -> HeldPolicy]
      /\ polPc \in [Publishers -> PolicySteps]
      /\ polReq \in [Publishers -> PublishLocals]
  BY DEF PolicyInv, PolicyTypeOK, PolicyRow, HeldPolicy, PublishLocals, ExpectedTokens
<1>u. r \in PublishTokens
  BY DEF PublishTokens
<1> USE DEF PolicySteps, PolGoto
<1>1. CASE FetchToken(r)
  <2>1. PICK p \in Processes :
            polReq' = [polReq EXCEPT ![r].expected = TokenAt(Len(ledger), p)]
    BY <1>1 DEF FetchToken
  <2>2. TokenAt(Len(ledger), p) \in ExpectedTokens
    <3>1. CASE Len(ledger) = 0
      BY <1>t, <3>1 DEF TokenAt, HeldPolicy, ExpectedTokens
    <3>2. CASE Len(ledger) > 0
      <4>1. ledger[Len(ledger)] \in PolicyRow
        BY <1>t, <3>2
      <4> QED BY <3>2, <4>1 DEF TokenAt, PublishTokens, ExpectedTokens, PolicyRow
    <3> QED BY <1>t, <3>1, <3>2
  <2>3. polReq' \in [Publishers -> PublishLocals]
    BY <1>t, <2>1, <2>2 DEF PublishLocals
  <2>4. \A s \in Publishers : PublisherOK(s)'
    BY <1>1, <1>t, <2>1 DEF FetchToken, PolicyInv, PublisherOK
  <2> QED BY <1>1, <1>t, <2>3, <2>4
          DEF FetchToken, PolicyInv, PolicyTypeOK, PolicyRow, HeldPolicy, PublishLocals, ExpectedTokens, PublishedOnSeenVersion
<1>2. CASE SelectLatest(r)
  <2>1. PICK p \in Processes :
            polReq' = [polReq EXCEPT ![r].base = Len(ledger), ![r].process = p]
    BY <1>2 DEF SelectLatest
  <2>2. polReq' \in [Publishers -> PublishLocals]
    BY <1>t, <2>1 DEF PublishLocals
  <2>3. \A s \in Publishers : PublisherOK(s)'
    BY <1>2, <1>t, <2>1 DEF SelectLatest, PolicyInv, PublisherOK
  <2> QED BY <1>2, <1>t, <2>2, <2>3
          DEF SelectLatest, PolicyInv, PolicyTypeOK, PolicyRow, HeldPolicy, PublishLocals, ExpectedTokens, PublishedOnSeenVersion
<1>3. CASE CheckToken(r)
  <2>1. \A s \in Publishers : PublisherOK(s)'
    <3>1. ASSUME polReq[r].expected \in {Unconditional, CurrentToken(r)},
                 polReq[r].base = Len(ledger)
          PROVE  \/ polReq[r].expected = Unconditional
                 \/ polReq[r].base = 0 /\ polReq[r].expected = Defaults
                 \/ polReq[r].base > 0 /\ polReq[r].expected = ledger[polReq[r].base].token
      BY <1>t, <3>1 DEF CurrentToken, TokenAt, PolicyInv, PublishLocals
    <3> QED BY <1>3, <1>t, <3>1 DEF CheckToken, PolicyInv, PublisherOK
  <2> QED BY <1>3, <1>t, <2>1
          DEF CheckToken, PolicyInv, PolicyTypeOK, PolicyRow, HeldPolicy, PublishLocals, ExpectedTokens, PublishedOnSeenVersion
<1>4. CASE InsertVersion(r)
  <2>1. CASE Len(ledger) = polReq[r].base
    <3> DEFINE row == [token |-> r, expected |-> polReq[r].expected]
               n == Len(ledger)
    <3>1. row \in PolicyRow
      BY <1>t DEF PolicyRow, PublishLocals
    <3>2. ledger' = Append(ledger, row) /\ polPc' = [polPc EXCEPT ![r] = "version"]
      BY <1>4, <2>1 DEF InsertVersion
    <3>3. /\ ledger' \in Seq(PolicyRow)
          /\ Len(ledger') = n + 1 /\ ledger'[n + 1] = row
          /\ \A i \in 1 .. n : ledger'[i] = ledger[i]
      <4> HIDE DEF row
      <4> QED BY <1>t, <3>1, <3>2
    <3>4. PublishedOnSeenVersion'
      <4>1. \/ row.expected = Unconditional
            \/ n = 0 /\ row.expected = Defaults
            \/ n > 0 /\ row.expected = ledger[n].token
        BY <1>4, <2>1 DEF InsertVersion, PolicyInv, PublisherOK
      <4>2. ASSUME NEW i \in DOMAIN ledger', ledger'[i].expected # Unconditional
            PROVE  ledger'[i].expected = IF i = 1 THEN Defaults ELSE ledger'[i - 1].token
        <5>1. i \in 1 .. n \/ i = n + 1
          BY <1>t, <3>3
        <5>2. CASE i \in 1 .. n
          BY <1>t, <3>3, <4>2, <5>2 DEF PolicyInv, PublishedOnSeenVersion
        <5>3. CASE i = n + 1
          <6>1. row.expected # Unconditional /\ ledger'[i].expected = row.expected
            BY <3>3, <4>2, <5>3
          <6>2. CASE n = 0
            BY <4>1, <5>3, <6>1, <6>2
          <6>3. CASE n > 0
            <7>1. i - 1 = n /\ i # 1 /\ ledger'[n] = ledger[n]
              BY <1>t, <3>3, <5>3, <6>3
            <7> QED BY <4>1, <6>1, <6>3, <7>1
          <6> QED BY <1>t, <6>2, <6>3
        <5> QED BY <5>1, <5>2, <5>3
      <4> QED BY <4>2 DEF PublishedOnSeenVersion
    <3>5. \A s \in Publishers : PublisherOK(s)'
      BY <1>4, <1>t, <3>2, <3>3 DEF InsertVersion, PolicyInv, PublisherOK, PublishLocals
    <3> QED BY <1>4, <1>t, <3>2, <3>3, <3>4, <3>5 DEF InsertVersion, PolicyInv, PolicyTypeOK, PolicyRow, HeldPolicy, PublishLocals, ExpectedTokens
  <2>2. CASE Len(ledger) # polReq[r].base
    <3>1. \A s \in Publishers : PublisherOK(s)'
      BY <1>4, <1>t, <2>2 DEF InsertVersion, PolicyInv, PublisherOK
    <3> QED BY <1>4, <1>t, <2>2, <3>1
            DEF InsertVersion, PolicyInv, PolicyTypeOK, PolicyRow, HeldPolicy, PublishLocals, ExpectedTokens, PublishedOnSeenVersion
  <2> QED BY <2>1, <2>2
<1>5. CASE RefreshVersion(r) \/ RefreshValues(r) \/ RefreshToken(r)
  <2>1. held' \in [Processes -> HeldPolicy]
    <3>1. CASE RefreshVersion(r)
      <4> DEFINE v == polReq[r].base + 2
      <4>1. v \in Nat
        BY <1>t DEF PublishLocals
      <4> HIDE DEF v
      <4>2. held' = [held EXCEPT ![polReq[r].process].version = v]
        BY <3>1 DEF RefreshVersion, v
      <4> QED BY <1>t, <4>1, <4>2 DEF HeldPolicy
    <3>2. CASE RefreshValues(r) \/ RefreshToken(r)
      <4> DEFINE q == polReq[r].process
      <4>1. q \in Processes
        BY <1>t DEF PublishLocals
      <4> HIDE DEF q
      <4>2. \/ held' = [held EXCEPT ![q].values = r]
            \/ held' = [held EXCEPT ![q].token = r]
        BY <3>2 DEF RefreshValues, RefreshToken, q
      <4> QED BY <1>t, <1>u, <4>1, <4>2 DEF HeldPolicy
    <3> QED BY <1>5, <3>1, <3>2
  <2>2. Len(ledger) > 0
    BY <1>5 DEF RefreshVersion, RefreshValues, RefreshToken, PolicyInv, PublisherOK
  <2>3. /\ UNCHANGED <<ledger, polReq>>
        /\ \E step \in {"values", "token", "done"} : polPc' = [polPc EXCEPT ![r] = step]
    BY <1>5 DEF RefreshVersion, RefreshValues, RefreshToken
  <2>4. \A s \in Publishers : PublisherOK(s)'
    BY <1>t, <2>2, <2>3 DEF PolicyInv, PublisherOK
  <2> QED BY <1>t, <2>1, <2>2, <2>3, <2>4 DEF PolicyInv, PolicyTypeOK, PolicyRow, HeldPolicy, PublishLocals, ExpectedTokens, PublishedOnSeenVersion
<1> QED BY <1>1, <1>2, <1>3, <1>4, <1>5 DEF Publish

LEMMA PolicyInvStep == PolicyInv /\ [PolicyNext]_polVars => PolicyInv'
<1> SUFFICES ASSUME PolicyInv, [PolicyNext]_polVars PROVE PolicyInv'
  OBVIOUS
<1>1. CASE UNCHANGED polVars
  BY <1>1 DEF polVars, PolicyInv, PolicyTypeOK, PublisherOK, PublishedOnSeenVersion
<1>2. ASSUME NEW p \in Processes, RestartProcess(p) PROVE PolicyInv'
  <2>1. held' \in [Processes -> [version : Nat, values : PublishTokens, token : PublishTokens]]
    BY <1>2 DEF RestartProcess, FreshProcess, PublishTokens, PolicyInv, PolicyTypeOK
  <2>2. polPc' \in [Publishers -> PolicySteps]
    BY <1>2 DEF RestartProcess, PolicySteps, PolicyInv, PolicyTypeOK
  <2>3. \A r \in Publishers : PublisherOK(r)'
    BY <1>2 DEF RestartProcess, PolicyInv, PublisherOK
  <2>4. \A q \in Processes : (Len(ledger) = 0 => held[q].token = Defaults)'
    BY <1>2 DEF RestartProcess, FreshProcess, PolicyInv, PolicyTypeOK
  <2> QED BY <1>2, <2>1, <2>2, <2>3, <2>4
          DEF RestartProcess, PolicyInv, PolicyTypeOK, PublishedOnSeenVersion
<1> QED BY <1>1, <1>2, PublishStep DEF PolicyNext

\* publish_config_for_severity never publishes over a version its author had
\* not seen, for any number of requests and processes and any restarts.
THEOREM NoVersionOverwritten == PolicySpec => []PublishedOnSeenVersion
<1>1. PolicyInv => PublishedOnSeenVersion
  BY DEF PolicyInv
<1> QED BY PolicyInvInit, PolicyInvStep, <1>1, PTL DEF PolicySpec

LEMMA PolicyTyped == PolicySpec => []PolicyTypeOK
<1>1. PolicyInv => PolicyTypeOK
  BY DEF PolicyInv
<1> QED BY PolicyInvInit, PolicyInvStep, <1>1, PTL DEF PolicySpec

-----------------------------------------------------------------------------
(* Disputes                                                                *)

Done == {r \in DisputeRequests : dispPc[r] = "done"}

\* A request works on a stored dispute, and the proposal it may promote was
\* computed for that dispute.
DisputantOK(r) ==
    LET q == dispReq[r] IN
    /\ dispPc[r] \in {"propose", "find", "wait", "decide"} => q.on \in DOMAIN dispute
    /\ dispPc[r] \in {"find", "wait", "decide"} /\ q.proposed # NoResult =>
          q.proposed \in DOMAIN proposal /\ proposal[q.proposed] = q.on
    /\ dispPc[r] \in {"wait", "decide"} /\ Applies(q) => q.proposed # NoResult

\* Disputes, proposals and results are named by requests that have ended, so
\* the name a request will use is unused; every latest result has an origin.
DisputeInv ==
    /\ dispPc \in [DisputeRequests -> DisputeSteps]
    /\ dispReq \in [DisputeRequests -> DispLocals]
    /\ DOMAIN dispute \subseteq Done /\ DOMAIN proposal \subseteq Done /\ recomputed \subseteq Done
    /\ \A d \in DOMAIN dispute :
          dispute[d] \in [status : DisputeStatus, proposed : DOMAIN proposal \cup {NoResult}]
    /\ DOMAIN history = DOMAIN dispute
    /\ \A p \in DOMAIN proposal : proposal[p] \in DOMAIN dispute
    /\ \A d \in DOMAIN dispute : dispute[d].proposed # NoResult =>
          proposal[dispute[d].proposed] = d
    /\ \A r \in DisputeRequests : DisputantOK(r)
    /\ latest \subseteq {Baseline} \cup DOMAIN proposal \cup recomputed
    /\ LatestWasAwarded

LEMMA DisputeInvInit == DisputesInit => DisputeInv
<1> SUFFICES ASSUME DisputesInit PROVE DisputeInv
  OBVIOUS
<1>1. NoDispReq \in DispLocals
  BY DEF NoDispReq, DispLocals, Decisions, DisputeStatus
<1> QED BY <1>1, DisputeAssumption
    DEF DisputesInit, DisputeInv, DisputantOK, LatestWasAwarded, Done, DisputeSteps

\* Steps that write nothing: a request reads and goes on, or gives up.
LEMMA DisputeReads ==
    ASSUME DisputeInv, NEW r \in DisputeRequests, dispPc[r] # "done",
           UNCHANGED <<dispute, history, proposal, recomputed, latest>>,
           NEW step \in DisputeSteps, DispGoto(r, step),
           NEW q \in DispLocals, dispReq' = [dispReq EXCEPT ![r] = q],
           step \in {"propose", "find", "wait", "decide"} => q.on \in DOMAIN dispute,
           step \in {"find", "wait", "decide"} /\ q.proposed # NoResult =>
              q.proposed \in DOMAIN proposal /\ proposal[q.proposed] = q.on,
           step \in {"wait", "decide"} /\ Applies(q) => q.proposed # NoResult
    PROVE  DisputeInv'
<1>1. \A s \in DisputeRequests : DisputantOK(s)'
  BY DEF DisputeInv, DisputantOK, DispGoto, Applies
<1>2. Done \subseteq Done'
  BY DEF DisputeInv, Done, DispGoto
<1> QED BY <1>1, <1>2 DEF DisputeInv, DispGoto, LatestWasAwarded


LEMMA DisputeReadStep ==
    ASSUME DisputeInv, NEW r \in DisputeRequests,
           \/ FlagRead(r) \/ ProposeRead(r) \/ ResolveRead(r) \/ FindProposed(r)
           \/ NothingToApply(r) \/ LockLatest(r) \/ SkipApply(r)
    PROVE  DisputeInv'
<1>n. NoDispReq \in DispLocals
  BY DEF NoDispReq, DispLocals, Decisions, DisputeStatus
<1>t. dispReq[r] \in DispLocals /\ dispReq = [dispReq EXCEPT ![r] = dispReq[r]]
  BY DEF DisputeInv
<1> USE DEF DisputeSteps
<1>1. CASE FlagRead(r)
  <2>1. CASE Pending # {}
    BY <1>1, <1>n, <2>1, DisputeReads DEF FlagRead, DispIdle, DispEnd
  <2>2. CASE Pending = {}
    BY <1>1, <1>t, <2>2, DisputeReads DEF FlagRead, DispIdle
  <2> QED BY <2>1, <2>2
<1>2. CASE ProposeRead(r)
  <2>1. PICK d \in Pending : dispReq' = [dispReq EXCEPT ![r].on = d]
    BY <1>2 DEF ProposeRead
  <2> DEFINE q == [dispReq[r] EXCEPT !.on = d]
  <2>2. d \in DOMAIN dispute /\ d \in DisputeRequests
    BY DEF Pending, DisputeInv, Done
  <2>3. q \in DispLocals /\ q.on = d
    BY <1>t, <2>2 DEF DispLocals
  <2>4. dispReq' = [dispReq EXCEPT ![r] = q]
    BY <2>1 DEF DisputeInv
  <2> HIDE DEF q
  <2> QED BY <1>2, <2>2, <2>3, <2>4, DisputeReads DEF ProposeRead, DispIdle
<1>3. CASE ResolveRead(r)
  <2>1. PICK d \in Pending, c \in Decisions, a \in BOOLEAN :
          dispReq' = [dispReq EXCEPT ![r].on = d, ![r].decision = c, ![r].apply = a,
                                     ![r].proposed = dispute[d].proposed]
    BY <1>3 DEF ResolveRead
  <2> DEFINE q == [dispReq[r] EXCEPT !.on = d, !.decision = c, !.apply = a,
                                     !.proposed = dispute[d].proposed]
  <2>2. /\ d \in DOMAIN dispute /\ d \in DisputeRequests
        /\ dispute[d].proposed \in DOMAIN proposal \cup {NoResult}
        /\ dispute[d].proposed # NoResult => proposal[dispute[d].proposed] = d
    BY DEF Pending, DisputeInv, Done
  <2>3. dispute[d].proposed \in Results \cup {NoResult}
    BY <2>2 DEF DisputeInv, Done, Results
  <2>4. q \in DispLocals /\ q.on = d /\ q.proposed = dispute[d].proposed
    BY <1>t, <2>2, <2>3 DEF DispLocals
  <2>5. dispReq' = [dispReq EXCEPT ![r] = q]
    BY <2>1 DEF DisputeInv
  <2> HIDE DEF q
  <2> QED BY <1>3, <2>2, <2>4, <2>5, DisputeReads DEF ResolveRead, DispIdle
<1>4. CASE FindProposed(r)
  <2> DEFINE q == [dispReq[r] EXCEPT !.wasLatest = dispReq[r].proposed \in latest,
                                     !.existing = latest]
  <2>1. latest \subseteq Results
    BY DEF DisputeInv, Done, Results
  <2>2. (dispReq[r].proposed \in latest) \in BOOLEAN
    OBVIOUS
  <2>3. /\ q \in DispLocals /\ q.on = dispReq[r].on /\ q.proposed = dispReq[r].proposed
        /\ q.proposed # NoResult /\ dispPc[r] = "find"
    BY <1>4, <1>t, <2>1, <2>2 DEF FindProposed, DispLocals
  <2>4. dispReq' = [dispReq EXCEPT ![r] = q]
    BY <1>4 DEF FindProposed, DisputeInv
  <2>5. /\ q.on \in DOMAIN dispute
        /\ q.proposed \in DOMAIN proposal /\ proposal[q.proposed] = q.on
    BY <2>3 DEF DisputeInv, DisputantOK
  <2> HIDE DEF q
  <2> QED BY <1>4, <2>3, <2>4, <2>5, DisputeReads DEF FindProposed
<1>5. CASE NothingToApply(r)
  BY <1>5, <1>n, DisputeReads DEF NothingToApply, DispEnd
<1>6. CASE LockLatest(r)
  <2> DEFINE q == [dispReq[r] EXCEPT !.existing = @ \cap latest]
  <2>1. /\ q \in DispLocals /\ q.on = dispReq[r].on /\ q.proposed = dispReq[r].proposed
        /\ Applies(q) <=> Applies(dispReq[r])
    BY <1>t DEF DispLocals, Applies
  <2>2. dispReq' = [dispReq EXCEPT ![r] = q] /\ dispPc[r] = "wait"
    BY <1>6 DEF LockLatest, DisputeInv
  <2>3. /\ q.on \in DOMAIN dispute
        /\ q.proposed # NoResult => q.proposed \in DOMAIN proposal /\ proposal[q.proposed] = q.on
        /\ Applies(q) => q.proposed # NoResult
    BY <2>1, <2>2 DEF DisputeInv, DisputantOK
  <2> HIDE DEF q
  <2> QED BY <1>6, <2>1, <2>2, <2>3, DisputeReads DEF LockLatest
<1>7. CASE SkipApply(r)
  BY <1>7, <1>t, DisputeReads DEF SkipApply, DisputeInv, DisputantOK
<1> QED BY <1>1, <1>2, <1>3, <1>4, <1>5, <1>6, <1>7


\* What the end of a request leaves of the other requests.
LEMMA DisputeEnds ==
    ASSUME DisputeInv, NEW r \in DisputeRequests, DispEnd(r)
    PROVE  /\ dispPc' \in [DisputeRequests -> DisputeSteps]
           /\ dispReq' \in [DisputeRequests -> DispLocals]
           /\ Done' = Done \cup {r}
           /\ dispPc'[r] = "done"
           /\ \A s \in DisputeRequests : s # r => dispPc'[s] = dispPc[s] /\ dispReq'[s] = dispReq[s]
<1>1. NoDispReq \in DispLocals
  BY DEF NoDispReq, DispLocals, Decisions, DisputeStatus
<1> QED BY <1>1 DEF DisputeInv, DispEnd, DispGoto, DisputeSteps, Done

LEMMA DisputeWriteStep ==
    ASSUME DisputeInv, NEW r \in DisputeRequests,
           FlagCommit(r) \/ ProposeCommit(r) \/ DecideCommit(r) \/ StoreResult(r)
    PROVE  DisputeInv'
<1>e. /\ dispPc' \in [DisputeRequests -> DisputeSteps]
      /\ dispReq' \in [DisputeRequests -> DispLocals]
      /\ Done' = Done \cup {r}
      /\ dispPc'[r] = "done"
      /\ \A s \in DisputeRequests : s # r => dispPc'[s] = dispPc[s] /\ dispReq'[s] = dispReq[s]
  BY DisputeEnds DEF FlagCommit, ProposeCommit, DecideCommit, StoreResult
\* The name of the request is unused.
<1>f. /\ r \notin DOMAIN dispute /\ r \notin DOMAIN proposal /\ r \notin recomputed
      /\ r \notin latest /\ r # NoResult
  BY DisputeAssumption
  DEF DisputeInv, Done, FlagCommit, ProposeCommit, DecideCommit, StoreResult, DispIdle
<1>1. CASE FlagCommit(r)
  <2>1. /\ DOMAIN dispute' = DOMAIN dispute \cup {r}
        /\ dispute'[r] = [status |-> "pending", proposed |-> NoResult]
        /\ \A d \in DOMAIN dispute : dispute'[d] = dispute[d]
        /\ DOMAIN history' = DOMAIN dispute'
        /\ \A d \in DOMAIN dispute : history'[d] = history[d]
        /\ UNCHANGED <<proposal, recomputed, latest>>
    BY <1>1, <1>f DEF FlagCommit, DispPut, DisputeInv
  <2>2. \A d \in DOMAIN dispute' :
          /\ dispute'[d] \in [status : DisputeStatus, proposed : DOMAIN proposal' \cup {NoResult}]
          /\ dispute'[d].proposed # NoResult => proposal'[dispute'[d].proposed] = d
    BY <2>1 DEF DisputeInv, DisputeStatus
  <2>3. \A s \in DisputeRequests : DisputantOK(s)'
    BY <1>e, <2>1 DEF DisputeInv, DisputantOK
  <2>4. LatestWasAwarded'
    BY <2>1 DEF DisputeInv, LatestWasAwarded
  <2> QED BY <1>e, <2>1, <2>2, <2>3, <2>4 DEF DisputeInv
<1>2. CASE ProposeCommit(r)
  <2> DEFINE d == dispReq[r].on
  <2>1. d \in DOMAIN dispute
    BY <1>2 DEF ProposeCommit, DisputeInv, DisputantOK
  <2> HIDE DEF d
  <2>2. /\ DOMAIN proposal' = DOMAIN proposal \cup {r} /\ proposal'[r] = d
        /\ \A p \in DOMAIN proposal : proposal'[p] = proposal[p]
        /\ dispute' = [dispute EXCEPT ![d].proposed = r]
        /\ DOMAIN history' = DOMAIN dispute'
        /\ \A c \in DOMAIN dispute : history[c] \subseteq history'[c]
        /\ UNCHANGED <<recomputed, latest>>
    BY <1>2, <1>f DEF ProposeCommit, DispPut, DisputeInv, d
  <2>3. \A c \in DOMAIN dispute' :
          /\ dispute'[c] \in [status : DisputeStatus, proposed : DOMAIN proposal' \cup {NoResult}]
          /\ dispute'[c].proposed # NoResult => proposal'[dispute'[c].proposed] = c
    BY <2>1, <2>2 DEF DisputeInv
  <2>4. \A s \in DisputeRequests : DisputantOK(s)'
    BY <1>e, <2>2 DEF DisputeInv, DisputantOK
  <2>5. LatestWasAwarded'
    BY <1>f, <2>2 DEF DisputeInv, LatestWasAwarded
  <2> QED BY <1>e, <2>1, <2>2, <2>3, <2>4, <2>5 DEF DisputeInv
<1>3. CASE DecideCommit(r)
  <2> DEFINE q == dispReq[r]
  <2>1. CASE UNCHANGED <<dispute, history, latest>>
    <3>1. \A s \in DisputeRequests : DisputantOK(s)'
      BY <1>3, <1>e, <2>1 DEF DecideCommit, DisputeInv, DisputantOK
    <3> QED BY <1>3, <1>e, <2>1, <3>1 DEF DecideCommit, DisputeInv, LatestWasAwarded
  <2>2. CASE /\ dispute' = [dispute EXCEPT ![q.on].status = q.decision]
             /\ history' = [history EXCEPT ![q.on] = @ \cup {q.decision}]
             /\ latest' = LatestAfter(q)
    <3>1. /\ q.on \in DOMAIN dispute /\ q.decision \in DisputeStatus
          /\ Applies(q) => /\ q.decision = "resolved"
                           /\ q.proposed \in DOMAIN proposal /\ proposal[q.proposed] = q.on
      BY <1>3 DEF DecideCommit, DisputeInv, DisputantOK, Applies, DispLocals, Decisions
    <3>2. latest' \subseteq IF Applies(q) THEN latest \cup {q.proposed} ELSE latest
      BY <2>2 DEF LatestAfter
    <3> HIDE DEF q
    <3>3. /\ DOMAIN dispute' = DOMAIN dispute
          /\ \A c \in DOMAIN dispute :
                /\ dispute'[c] \in [status : DisputeStatus, proposed : DOMAIN proposal \cup {NoResult}]
                /\ dispute'[c].proposed = dispute[c].proposed
      BY <2>2, <3>1 DEF DisputeInv
    <3>4. /\ DOMAIN history' = DOMAIN history
          /\ \A c \in DOMAIN history : history[c] \subseteq history'[c]
          /\ q.decision \in history'[q.on]
      BY <2>2, <3>1 DEF DisputeInv
    <3>5. LatestWasAwarded'
      BY <1>3, <3>1, <3>2, <3>4 DEF DecideCommit, DisputeInv, LatestWasAwarded
    <3>6. \A s \in DisputeRequests : DisputantOK(s)'
      BY <1>3, <1>e, <3>3 DEF DecideCommit, DisputeInv, DisputantOK
    <3> QED BY <1>3, <1>e, <3>1, <3>2, <3>3, <3>4, <3>5, <3>6 DEF DecideCommit, DisputeInv
  <2> QED BY <1>3, <2>1, <2>2 DEF DecideCommit
<1>4. CASE StoreResult(r)
  <2>1. \A s \in DisputeRequests : DisputantOK(s)'
    BY <1>4, <1>e DEF StoreResult, DisputeInv, DisputantOK
  <2> QED BY <1>4, <1>e, <1>f, <2>1 DEF StoreResult, DisputeInv, LatestWasAwarded
<1> QED BY <1>1, <1>2, <1>3, <1>4

LEMMA DisputeInvStep == DisputeInv /\ [DisputesNext]_dispVars => DisputeInv'
<1> SUFFICES ASSUME DisputeInv, [DisputesNext]_dispVars PROVE DisputeInv'
  OBVIOUS
<1>1. CASE UNCHANGED dispVars
  BY <1>1 DEF dispVars, DisputeInv, DisputantOK, Done, LatestWasAwarded
<1> QED BY <1>1, DisputeReadStep, DisputeWriteStep DEF DisputesNext, Flag, Propose, Resolve

\* resolve_dispute makes a proposal the latest result only by resolving the
\* dispute it was computed for, for any number of concurrent requests.
THEOREM OnlyAwardedPromoted == DisputesSpec => []LatestWasAwarded
<1>1. DisputeInv => LatestWasAwarded
  BY DEF DisputeInv
<1> QED BY DisputeInvInit, DisputeInvStep, <1>1, PTL DEF DisputesSpec

\* The audit trail names the steps of a dispute, and the unique index holds.
HistoryTypes ==
    /\ \A d \in DOMAIN history : history[d] \subseteq {"flagged", "proposed"} \cup Decisions
    /\ history = [d \in DOMAIN history |-> history[d]]
    /\ IsFiniteSet(latest) /\ Cardinality(latest) <= 1

LEMMA HistoryTypesInit == DisputesInit => HistoryTypes
<1>1. IsFiniteSet({Baseline}) /\ Cardinality({Baseline}) = 1
  BY FS_Singleton
<1> QED BY <1>1 DEF DisputesInit, HistoryTypes

LEMMA HistoryTypesStep == DisputeInv /\ HistoryTypes /\ [DisputesNext]_dispVars => HistoryTypes'
<1> SUFFICES ASSUME DisputeInv, HistoryTypes, [DisputesNext]_dispVars PROVE HistoryTypes'
  OBVIOUS
<1>1. CASE UNCHANGED <<history, latest>>
  BY <1>1 DEF HistoryTypes
<1>2. ASSUME NEW r \in DisputeRequests, Flag(r) \/ Propose(r) \/ Resolve(r) \/ StoreResult(r)
      PROVE  HistoryTypes'
  <2>1. CASE FlagCommit(r)
    BY <2>1 DEF FlagCommit, DispPut, HistoryTypes
  <2>2. CASE ProposeCommit(r)
    BY <2>2 DEF ProposeCommit, HistoryTypes
  <2>3. CASE DecideCommit(r)
    <3> DEFINE q == dispReq[r]
    <3>1. q.decision \in Decisions
      BY DEF DisputeInv, DispLocals
    <3>2. CASE UNCHANGED <<dispute, history, latest>>
      BY <1>1, <3>2
    <3>3. CASE /\ ~ (Cardinality(LatestAfter(q)) > 1) /\ latest' = LatestAfter(q)
               /\ history' = [history EXCEPT ![q.on] = @ \cup {q.decision}]
      <4>1. IsFiniteSet(latest \cup {q.proposed})
        BY FS_AddElement DEF HistoryTypes
      <4>2. LatestAfter(q) \subseteq latest \cup {q.proposed}
        BY DEF LatestAfter
      <4>3. IsFiniteSet(LatestAfter(q))
        BY <4>1, <4>2, FS_Subset
      <4>4. IsFiniteSet(latest') /\ Cardinality(latest') <= 1
        BY <3>3, <4>3, FS_CardinalityType
      <4> DEFINE d == q.on
                 c == q.decision
      <4> HIDE DEF d, c
      <4>5. history' = [history EXCEPT ![d] = @ \cup {c}] /\ c \in Decisions
        BY <3>1, <3>3 DEF d, c
      <4> QED BY <4>4, <4>5 DEF HistoryTypes
    <3> QED BY <2>3, <3>2, <3>3 DEF DecideCommit
  <2>4. CASE StoreResult(r)
    <3>1. IsFiniteSet({r}) /\ Cardinality({r}) = 1
      BY FS_Singleton
    <3> QED BY <2>4, <3>1 DEF StoreResult, HistoryTypes
  <2>5. CASE \/ FlagRead(r) \/ ProposeRead(r) \/ ResolveRead(r) \/ FindProposed(r)
             \/ NothingToApply(r) \/ LockLatest(r) \/ SkipApply(r)
    BY <1>1, <2>5
    DEF FlagRead, ProposeRead, ResolveRead, FindProposed, NothingToApply, LockLatest, SkipApply
  <2> QED BY <1>2, <2>1, <2>2, <2>3, <2>4, <2>5 DEF Flag, Propose, Resolve
<1> QED BY <1>1, <1>2 DEF DisputesNext, dispVars

LEMMA DisputesTyped == DisputesSpec => []DisputesTypeOK
<1>1. ASSUME DisputeInv, HistoryTypes PROVE DisputesTypeOK
  <2>1. history \in [DOMAIN dispute -> SUBSET ({"flagged", "proposed"} \cup Decisions)]
    BY <1>1 DEF DisputeInv, HistoryTypes
  <2>2. latest \subseteq Results
    BY <1>1 DEF DisputeInv, Done, Results
  <2> QED BY <1>1, <2>1, <2>2 DEF DisputeInv, HistoryTypes, DisputesTypeOK, Done
<1> QED
  BY <1>1, DisputeInvInit, DisputeInvStep, HistoryTypesInit, HistoryTypesStep, PTL DEF DisputesSpec

-----------------------------------------------------------------------------
(* WebhookRegistry                                                         *)

\* A fan-out has none of the webhooks that were deleted when it began left to
\* ask the limiter for, allowed, or served.
FanOutOK(r) ==
    LET q == hookReq[r] IN
    /\ hookPc[r] = "idle" => sent[r] = {}
    /\ hookPc[r] \in {"plan", "arm", "create"} => q.todo \cap gone[r] = {} /\ q.allowed \cap gone[r] = {}
    /\ hookPc[r] = "arm" => q.hook \notin gone[r]
    /\ hookPc[r] \in {"plan", "create"} => q = [todo |-> q.todo, allowed |-> q.allowed]
    /\ sent[r] \cap gone[r] = {}

\* The inductive invariant.
FanOutInv ==
    /\ hookPc \in [HookRequests -> HookSteps]
    /\ hookReq = [r \in HookRequests |-> hookReq[r]]
    /\ sent = [r \in HookRequests |-> sent[r]] /\ gone = [r \in HookRequests |-> gone[r]]
    /\ \A r \in HookRequests : FanOutOK(r)

\* A step of r writes only r's local state.
LEMMA HookMoves ==
    ASSUME FanOutInv, NEW r \in HookRequests, NEW step \in HookSteps, NEW q, NEW S, NEW G,
           hookPc' = [hookPc EXCEPT ![r] = step], hookReq' = [hookReq EXCEPT ![r] = q],
           sent' = [sent EXCEPT ![r] = S], gone' = [gone EXCEPT ![r] = G],
           step # "idle",
           step \in {"plan", "arm", "create"} => q.todo \cap G = {} /\ q.allowed \cap G = {},
           step = "arm" => q.hook \notin G,
           step \in {"plan", "create"} => q = [todo |-> q.todo, allowed |-> q.allowed],
           S \cap G = {}
    PROVE  FanOutInv'
<1>1. /\ hookPc' \in [HookRequests -> HookSteps] /\ hookReq' = [x \in HookRequests |-> hookReq'[x]]
      /\ sent' = [x \in HookRequests |-> sent'[x]] /\ gone' = [x \in HookRequests |-> gone'[x]]
  BY DEF FanOutInv
<1>2. hookPc'[r] = step /\ hookReq'[r] = q /\ sent'[r] = S /\ gone'[r] = G
  BY DEF FanOutInv
<1>3. \A x \in HookRequests \ {r} : /\ hookPc'[x] = hookPc[x] /\ hookReq'[x] = hookReq[x]
                                    /\ sent'[x] = sent[x] /\ gone'[x] = gone[x]
  BY DEF FanOutInv
<1>4. ASSUME NEW x \in HookRequests PROVE FanOutOK(x)'
  <2>1. CASE x = r
    BY <1>2, <2>1 DEF FanOutOK
  <2>2. CASE x # r
    BY <1>3, <2>2 DEF FanOutOK, FanOutInv
  <2> QED BY <2>1, <2>2
<1> QED BY <1>1, <1>4 DEF FanOutInv

LEMMA HookSame ==
    ASSUME FanOutInv, NEW r \in HookRequests
    PROVE  /\ UNCHANGED sent => sent' = [sent EXCEPT ![r] = sent[r]]
           /\ UNCHANGED gone => gone' = [gone EXCEPT ![r] = gone[r]]
           /\ UNCHANGED hookPc => hookPc' = [hookPc EXCEPT ![r] = hookPc[r]]
           /\ UNCHANGED hookReq => hookReq' = [hookReq EXCEPT ![r] = hookReq[r]]
           /\ FanOutOK(r) /\ hookPc[r] \in HookSteps
  BY DEF FanOutInv

\* The handlers that change webhooks, and a request that ends.
LEMMA HandlerKeeps ==
    ASSUME FanOutInv, NEW r \in HookRequests, UNCHANGED <<sent, gone>>,
           \/ HookEnd(r)
           \/ \E step \in {"insert", "patch", "rotate", "delete", "prune"} :
                 HookGoto(r, step) /\ \E q : HookKeep(r, q)
    PROVE  FanOutInv'
<1>a. PICK q : hookReq' = [hookReq EXCEPT ![r] = q]
  BY DEF HookEnd, HookKeep
<1>1. PICK step \in {"insert", "patch", "rotate", "delete", "prune", "done"} :
         hookPc' = [hookPc EXCEPT ![r] = step]
  BY DEF HookEnd, HookGoto
<1>2. /\ sent' = [sent EXCEPT ![r] = sent[r]] /\ gone' = [gone EXCEPT ![r] = gone[r]]
      /\ sent[r] \cap gone[r] = {}
  BY HookSame DEF FanOutOK
<1>3. step \in HookSteps /\ step \notin {"idle", "plan", "arm", "create"}
  BY DEF HookSteps
<1> DEFINE S == sent[r]
           G == gone[r]
<1>4. sent' = [sent EXCEPT ![r] = S] /\ gone' = [gone EXCEPT ![r] = G] /\ S \cap G = {}
  BY <1>2
<1> HIDE DEF S, G
<1> QED BY <1>a, <1>1, <1>3, <1>4, HookMoves

LEMMA ChangeHookKeeps ==
    ASSUME FanOutInv, NEW r \in HookRequests, ChangeHook(r)
    PROVE  FanOutInv'
<1>1. UNCHANGED <<sent, gone>>
  BY DEF ChangeHook, CapCheck, LiveWebhook, DeleteRead, InsertHook, PatchCommit, RotateCommit, DeleteCommit,
         PruneRead, PruneCommit
<1>2. ASSUME NEW p \in Pairs, CapCheck(r, p) PROVE FanOutInv'
  BY <1>1, <1>2, HandlerKeeps DEF CapCheck
<1>3. ASSUME NEW h \in DOMAIN hooks, LiveWebhook(r, h, "patch") \/ LiveWebhook(r, h, "rotate") \/ DeleteRead(r, h)
      PROVE  FanOutInv'
  BY <1>1, <1>3, HandlerKeeps DEF LiveWebhook, DeleteRead
<1>4. CASE InsertHook(r) \/ PatchCommit(r) \/ RotateCommit(r) \/ DeleteCommit(r) \/ PruneCommit(r)
  <2>1. HookEnd(r)
    BY <1>4 DEF InsertHook, PatchCommit, RotateCommit, DeleteCommit, PruneCommit
  <2> QED BY <1>1, <2>1, HandlerKeeps
<1>5. CASE PruneRead(r)
  BY <1>1, <1>5, HandlerKeeps DEF PruneRead
<1> QED BY <1>2, <1>3, <1>4, <1>5 DEF ChangeHook

LEMMA FanOutKeeps ==
    ASSUME FanOutInv, NEW r \in HookRequests, FanOut(r)
    PROVE  FanOutInv'
<1> DEFINE q == hookReq[r]
<1>a. FanOutOK(r)
  BY HookSame
<1>1. CASE ResolveSubscribers(r)
  <2> DEFINE S == Subscribers
             G == {h \in DOMAIN hooks : hooks[h].deleted}
             n == [todo |-> S, allowed |-> {}]
  <2>1. /\ hookPc' = [hookPc EXCEPT ![r] = "plan"] /\ hookReq' = [hookReq EXCEPT ![r] = n]
        /\ sent' = [sent EXCEPT ![r] = {}] /\ gone' = [gone EXCEPT ![r] = G]
    BY <1>1, <1>a, HookSame DEF ResolveSubscribers, HookGoto, HookKeep, FanOutOK
  <2>2. S \cap G = {}
    BY DEF Subscribers
  <2> HIDE DEF S, G
  <2>3. n.todo = S /\ n.allowed = {} /\ n = [todo |-> n.todo, allowed |-> n.allowed]
    OBVIOUS
  <2> HIDE DEF n
  <2> QED BY <2>1, <2>2, <2>3, HookMoves DEF HookSteps
<1>2. ASSUME NEW step \in {"plan", "create"}, NEW T, NEW A,
             hookPc' = [hookPc EXCEPT ![r] = step],
             hookReq' = [hookReq EXCEPT ![r] = [todo |-> T, allowed |-> A]],
             T \cap gone[r] = {}, A \cap gone[r] = {}, UNCHANGED <<sent, gone>>
      PROVE  FanOutInv'
  <2> DEFINE n == [todo |-> T, allowed |-> A]
  <2>1. n.todo = T /\ n.allowed = A /\ n = [todo |-> n.todo, allowed |-> n.allowed]
    OBVIOUS
  <2>2. hookReq' = [hookReq EXCEPT ![r] = n]
    BY <1>2
  <2>3. sent' = [sent EXCEPT ![r] = sent[r]] /\ gone' = [gone EXCEPT ![r] = gone[r]]
        /\ sent[r] \cap gone[r] = {}
    BY <1>2, <1>a, HookSame DEF FanOutOK
  <2> DEFINE S == sent[r]
             G == gone[r]
  <2>4. /\ sent' = [sent EXCEPT ![r] = S] /\ gone' = [gone EXCEPT ![r] = G] /\ S \cap G = {}
        /\ n.todo \cap G = {} /\ n.allowed \cap G = {}
    BY <1>2, <2>1, <2>3
  <2>5. step \in HookSteps /\ step \notin {"idle", "arm"} /\ hookPc' = [hookPc EXCEPT ![r] = step]
    BY <1>2 DEF HookSteps
  <2> HIDE DEF n, S, G
  <2> QED BY <2>1, <2>2, <2>4, <2>5, HookMoves
<1>3. CASE Arm(r)
  <2> DEFINE A == q.allowed \cup IF q.count <= EventBudget THEN {q.hook} ELSE {}
  <2>1. A \cap gone[r] = {} /\ q.todo \cap gone[r] = {}
    BY <1>3, <1>a DEF Arm, FanOutOK
  <2>2. /\ hookPc' = [hookPc EXCEPT ![r] = "plan"] /\ UNCHANGED <<sent, gone>>
        /\ hookReq' = [hookReq EXCEPT ![r] = [todo |-> q.todo, allowed |-> A]]
    BY <1>3 DEF Arm, HookGoto, HookKeep
  <2> HIDE DEF A
  <2> QED BY <2>1, <2>2, <1>2
<1>4. CASE PlanDone(r)
  <2>1. q = [todo |-> q.todo, allowed |-> q.allowed] /\ q.todo \cap gone[r] = {} /\ q.allowed \cap gone[r] = {}
    BY <1>4, <1>a DEF PlanDone, FanOutOK
  <2>2. /\ hookPc' = [hookPc EXCEPT ![r] = "create"] /\ UNCHANGED <<sent, gone>>
        /\ hookReq' = [hookReq EXCEPT ![r] = q]
    BY <1>4, HookSame DEF PlanDone, HookGoto
  <2>3. hookReq' = [hookReq EXCEPT ![r] = [todo |-> q.todo, allowed |-> q.allowed]]
    BY <2>1, <2>2
  <2> QED BY <1>2, <2>1, <2>2, <2>3
<1>5. CASE CreateDelivery(r)
  <2>1. CASE q.allowed = {}
    BY <1>5, <2>1, HandlerKeeps DEF CreateDelivery
  <2>2. CASE q.allowed # {}
    <3>1. PICK h \in q.allowed : /\ sent' = [sent EXCEPT ![r] = sent[r] \cup {h}]
                                 /\ hookReq' = [hookReq EXCEPT ![r] = [q EXCEPT !.allowed = q.allowed \ {h}]]
      BY <1>5, <2>2, HookSame DEF CreateDelivery, HookKeep, FanOutInv
    <3> DEFINE n == [q EXCEPT !.allowed = q.allowed \ {h}]
    <3>2. /\ q = [todo |-> q.todo, allowed |-> q.allowed]
          /\ q.todo \cap gone[r] = {} /\ q.allowed \cap gone[r] = {} /\ sent[r] \cap gone[r] = {}
          /\ hookPc' = [hookPc EXCEPT ![r] = "create"] /\ gone' = [gone EXCEPT ![r] = gone[r]]
      BY <1>5, <1>a, HookSame DEF CreateDelivery, FanOutOK
    <3>3. hookReq' = [hookReq EXCEPT ![r] = n]
      BY <3>1
    <3> HIDE DEF q
    <3>4. n.todo = q.todo /\ n.allowed = q.allowed \ {h} /\ n = [todo |-> n.todo, allowed |-> n.allowed]
      BY <3>2
    <3> HIDE DEF n
    <3>5. (sent[r] \cup {h}) \cap gone[r] = {} /\ n.todo \cap gone[r] = {} /\ n.allowed \cap gone[r] = {}
      BY <3>2, <3>4
    <3> QED BY <3>1, <3>2, <3>3, <3>4, <3>5, HookMoves DEF HookSteps
  <2> QED BY <2>1, <2>2
<1>6. ASSUME NEW h \in DOMAIN hooks, Incr(r, h) PROVE FanOutInv'
  <2> DEFINE c == eventHits[h] + 1
             n == [hook |-> h, count |-> c, todo |-> q.todo \ {h}, allowed |-> q.allowed]
  <2>1. /\ hookPc' = [hookPc EXCEPT ![r] = "arm"] /\ hookReq' = [hookReq EXCEPT ![r] = n]
        /\ sent' = [sent EXCEPT ![r] = sent[r]] /\ gone' = [gone EXCEPT ![r] = gone[r]]
    BY <1>6, HookSame DEF Incr, HookGoto, HookKeep
  <2>2. /\ h \in q.todo /\ q.todo \cap gone[r] = {} /\ q.allowed \cap gone[r] = {}
        /\ sent[r] \cap gone[r] = {}
    BY <1>6, <1>a DEF Incr, FanOutOK
  <2> HIDE DEF c, q
  <2>3. n.hook = h /\ n.todo = q.todo \ {h} /\ n.allowed = q.allowed
    OBVIOUS
  <2> HIDE DEF n
  <2>4. n.hook \notin gone[r] /\ n.todo \cap gone[r] = {} /\ n.allowed \cap gone[r] = {}
    BY <2>2, <2>3
  <2> QED BY <2>1, <2>2, <2>4, HookMoves DEF HookSteps
<1>7. ASSUME NEW h \in DOMAIN hooks, AllowLocal(r, h) PROVE FanOutInv'
  <2>1. PICK ok \in SUBSET {h} : hookReq' = [hookReq EXCEPT ![r] = [todo |-> q.todo \ {h}, allowed |-> q.allowed \cup ok]]
    BY <1>7 DEF AllowLocal, HookKeep
  <2>2. h \notin gone[r] /\ q.todo \cap gone[r] = {} /\ q.allowed \cap gone[r] = {}
    BY <1>7, <1>a DEF AllowLocal, FanOutOK
  <2>3. hookPc' = [hookPc EXCEPT ![r] = "plan"] /\ UNCHANGED <<sent, gone>>
    BY <1>7 DEF AllowLocal, HookGoto
  <2> DEFINE T == q.todo \ {h}
             A == q.allowed \cup ok
  <2>4. T \cap gone[r] = {} /\ A \cap gone[r] = {}
    BY <2>2
  <2>5. hookReq' = [hookReq EXCEPT ![r] = [todo |-> T, allowed |-> A]]
    BY <2>1
  <2> HIDE DEF T, A
  <2> QED BY <1>2, <2>3, <2>4, <2>5
<1> QED BY <1>1, <1>3, <1>4, <1>5, <1>6, <1>7 DEF FanOut

LEMMA FanOutInvStep == FanOutInv /\ [RegistryNext]_hookVars => FanOutInv'
<1> SUFFICES ASSUME FanOutInv, [RegistryNext]_hookVars PROVE FanOutInv'
  OBVIOUS
<1>1. ASSUME NEW r \in HookRequests, HookCrash(r) PROVE FanOutInv'
  BY <1>1, HandlerKeeps DEF HookCrash
<1>2. CASE UNCHANGED <<hookPc, hookReq, sent, gone>>
  BY <1>2 DEF FanOutInv, FanOutOK
<1>3. ASSUME NEW s \in Hooks, GraceEnds(s) \/ WindowEnds(s) PROVE FanOutInv'
  BY <1>2, <1>3 DEF GraceEnds, WindowEnds
<1>4. CASE UNCHANGED hookVars
  BY <1>2, <1>4 DEF hookVars
<1> QED BY <1>1, <1>3, <1>4, ChangeHookKeeps, FanOutKeeps DEF RegistryNext

\* No event raised after a webhook was deleted makes a delivery for it, for
\* every number of requests and webhooks, every cap and every event budget,
\* whatever edits, rotations and crashes cut in.
THEOREM DeletedGetNothing == RegistrySpec => []TombstoneGetsNoEvent
<1>1. RegistryInit => FanOutInv
  BY DEF RegistryInit, FanOutInv, FanOutOK, HookSteps
<1>2. FanOutInv => TombstoneGetsNoEvent
  BY DEF FanOutInv, FanOutOK, TombstoneGetsNoEvent
<1> QED BY <1>1, <1>2, FanOutInvStep, PTL DEF RegistrySpec

\* What a request under way holds of the table: the webhook it loaded is
\* still a row of it, and the row it saw was a webhook.
HoldsHook(r) ==
    LET q == hookReq[r] IN
    /\ hookPc[r] = "insert" => q.pair \in Pairs
    /\ hookPc[r] \in {"patch", "rotate", "delete"} => q.hook \in DOMAIN hooks /\ q.row \in Webhook
    /\ hookPc[r] = "prune" => \A h \in DOMAIN q.pruned : q.pruned[h] \subseteq Hooks
    /\ hookPc[r] \in {"plan", "arm", "create"} => q.todo \subseteq Hooks /\ q.allowed \subseteq Hooks
    /\ hookPc[r] = "arm" => q.hook \in Hooks

\* The registry's types, apart from its requests'.
TableTyped ==
    /\ DOMAIN hooks \subseteq Hooks /\ \A h \in DOMAIN hooks : hooks[h] \in Webhook
    /\ lapsed \subseteq Hooks
    /\ eventHits \in [Hooks -> Nat] /\ armed \subseteq Hooks
    /\ sent \in [HookRequests -> SUBSET Hooks] /\ gone \in [HookRequests -> SUBSET Hooks]

RegistryTypes == TableTyped /\ \A r \in HookRequests : HoldsHook(r)

LEMMA NewHookTyped == ASSUME NEW p \in Pairs, NEW r \in Hooks PROVE NewHook(p, r) \in Webhook
<1> DEFINE t == TRUE
           f == FALSE
<1>1. t \in BOOLEAN /\ f \in BOOLEAN
  OBVIOUS
<1>2. NewHook(p, r) = [pair |-> p, active |-> t, deleted |-> f, secret |-> r, version |-> 1, previous |-> {}]
  BY DEF NewHook
<1> HIDE DEF t, f
<1> QED BY <1>1, <1>2 DEF Webhook

\* One column of a webhook written.
LEMMA WebhookWritten ==
    ASSUME NEW w \in Webhook
    PROVE  /\ \A p \in Pairs : [w EXCEPT !.pair = p] \in Webhook
           /\ \A b \in BOOLEAN : [w EXCEPT !.active = b] \in Webhook
           /\ \A b \in BOOLEAN : [w EXCEPT !.deleted = b] \in Webhook
           /\ \A s \in Hooks : [w EXCEPT !.secret = s] \in Webhook
           /\ \A n \in Nat : [w EXCEPT !.version = n] \in Webhook
           /\ \A S \in SUBSET Hooks : [w EXCEPT !.previous = S] \in Webhook
  BY DEF Webhook

LEMMA RegistryTypesInit == RegistryInit => RegistryTypes
<1> SUFFICES ASSUME RegistryInit PROVE RegistryTypes
  OBVIOUS
<1> DEFINE p == CHOOSE p \in Pairs : TRUE
           w == NewHook(p, FirstHook)
<1>1. p \in Pairs /\ FirstHook \in Hooks
  BY RegistryAssumption DEF Hooks
<1> HIDE DEF p
<1>2. w \in Webhook
  BY <1>1, NewHookTyped
<1>3. PICK on \in BOOLEAN : hooks = [h \in {FirstHook} |-> [w EXCEPT !.active = on]]
  BY DEF RegistryInit, p
<1> HIDE DEF w
<1>4. [w EXCEPT !.active = on] \in Webhook
  BY <1>2, WebhookWritten
<1>5. DOMAIN hooks \subseteq Hooks /\ \A h \in DOMAIN hooks : hooks[h] \in Webhook
  BY <1>1, <1>3, <1>4
<1>6. TableTyped
  BY <1>5 DEF RegistryInit, TableTyped
<1> QED BY <1>6 DEF RegistryInit, RegistryTypes, HoldsHook

\* A step of r writes only r's local state, and no row leaves the table.
LEMMA HolderMoves ==
    ASSUME FanOutInv, RegistryTypes, TableTyped', NEW r \in HookRequests, NEW step, NEW q,
           hookPc' = [hookPc EXCEPT ![r] = step], hookReq' = [hookReq EXCEPT ![r] = q],
           DOMAIN hooks \subseteq DOMAIN hooks',
           step = "insert" => q.pair \in Pairs,
           step \in {"patch", "rotate", "delete"} => q.hook \in DOMAIN hooks' /\ q.row \in Webhook,
           step = "prune" => \A h \in DOMAIN q.pruned : q.pruned[h] \subseteq Hooks,
           step \in {"plan", "arm", "create"} => q.todo \subseteq Hooks /\ q.allowed \subseteq Hooks,
           step = "arm" => q.hook \in Hooks
    PROVE  RegistryTypes'
<1>1. hookPc'[r] = step /\ hookReq'[r] = q
  BY DEF FanOutInv
<1>2. \A x \in HookRequests \ {r} : hookPc'[x] = hookPc[x] /\ hookReq'[x] = hookReq[x]
  BY DEF FanOutInv
<1>3. ASSUME NEW x \in HookRequests PROVE HoldsHook(x)'
  <2>1. CASE x = r
    BY <1>1, <2>1 DEF HoldsHook
  <2>2. CASE x # r
    BY <1>2, <2>2 DEF HoldsHook, RegistryTypes
  <2> QED BY <2>1, <2>2
<1> QED BY <1>3 DEF RegistryTypes

\* A request that ends holds nothing.
LEMMA HolderEnds ==
    ASSUME FanOutInv, RegistryTypes, TableTyped', NEW r \in HookRequests, HookEnd(r),
           DOMAIN hooks \subseteq DOMAIN hooks'
    PROVE  RegistryTypes'
<1>1. PICK q : hookReq' = [hookReq EXCEPT ![r] = q]
  BY DEF HookEnd
<1> DEFINE d == "done"
<1>2. /\ hookPc' = [hookPc EXCEPT ![r] = d]
      /\ d \notin {"insert", "patch", "rotate", "delete", "prune", "plan", "arm", "create"}
  BY DEF HookEnd, HookGoto
<1> HIDE DEF d
<1> QED BY <1>1, <1>2, HolderMoves

\* A commit that writes one row of the table and ends.
LEMMA RowWritten ==
    ASSUME FanOutInv, RegistryTypes, NEW r \in HookRequests, HookEnd(r), NEW h \in Hooks, NEW w \in Webhook,
           \/ hooks' = [hooks EXCEPT ![h] = w] \/ UNCHANGED hooks
           \/ hooks' = [x \in DOMAIN hooks \cup {h} |-> IF x = h THEN w ELSE hooks[x]],
           UNCHANGED <<lapsed, eventHits, armed, sent, gone>>
    PROVE  RegistryTypes'
<1>1. /\ DOMAIN hooks \subseteq DOMAIN hooks' /\ DOMAIN hooks' \subseteq Hooks
      /\ \A x \in DOMAIN hooks' : hooks'[x] \in Webhook
  BY DEF RegistryTypes, TableTyped
<1>2. TableTyped'
  BY <1>1 DEF RegistryTypes, TableTyped
<1> QED BY <1>1, <1>2, HolderEnds

LEMMA HookReadTypes ==
    ASSUME FanOutInv, RegistryTypes, NEW r \in HookRequests,
           \/ \E p \in Pairs : CapCheck(r, p)
           \/ \E h \in DOMAIN hooks :
                LiveWebhook(r, h, "patch") \/ LiveWebhook(r, h, "rotate") \/ DeleteRead(r, h)
           \/ PruneRead(r)
    PROVE  RegistryTypes'
<1>1. UNCHANGED <<hooks, lapsed, eventHits, armed, sent, gone>>
  BY DEF CapCheck, LiveWebhook, DeleteRead, PruneRead
<1>2. TableTyped'
  BY <1>1 DEF RegistryTypes, TableTyped
<1>3. CASE HookEnd(r)
  BY <1>1, <1>2, <1>3, HolderEnds
<1>4. ASSUME NEW p \in Pairs, HookGoto(r, "insert"), HookKeep(r, [pair |-> p])
      PROVE  RegistryTypes'
  <2> DEFINE q == [pair |-> p]
             s == "insert"
  <2>1. q.pair \in Pairs /\ hookPc' = [hookPc EXCEPT ![r] = s] /\ hookReq' = [hookReq EXCEPT ![r] = q]
    BY <1>4 DEF HookGoto, HookKeep
  <2>2. s \notin {"patch", "rotate", "delete", "prune", "plan", "arm", "create"}
    OBVIOUS
  <2> HIDE DEF q, s
  <2> QED BY <1>1, <1>2, <2>1, <2>2, HolderMoves
<1>5. ASSUME NEW h \in DOMAIN hooks, NEW s \in {"patch", "rotate", "delete"}, HookGoto(r, s),
             HookKeep(r, [hook |-> h, row |-> hooks[h]])
      PROVE  RegistryTypes'
  <2> DEFINE q == [hook |-> h, row |-> hooks[h]]
  <2>1. q.hook \in DOMAIN hooks' /\ q.row \in Webhook
    BY <1>1 DEF RegistryTypes, TableTyped
  <2>2. hookPc' = [hookPc EXCEPT ![r] = s] /\ hookReq' = [hookReq EXCEPT ![r] = q]
    BY <1>5 DEF HookGoto, HookKeep
  <2>3. s \notin {"insert", "prune", "plan", "arm", "create"}
    OBVIOUS
  <2> HIDE DEF q
  <2> QED BY <1>1, <1>2, <2>1, <2>2, <2>3, HolderMoves
<1>6. CASE PruneRead(r)
  <2> DEFINE f == [h \in {h \in DOMAIN hooks : Kept(hooks[h].previous) # hooks[h].previous} |->
                     Kept(hooks[h].previous)]
             q == [pruned |-> f]
             s == "prune"
  <2>1. \A h \in DOMAIN f : f[h] \subseteq Hooks
    BY DEF RegistryTypes, TableTyped, Webhook, Kept
  <2>2. /\ hookPc' = [hookPc EXCEPT ![r] = s] /\ hookReq' = [hookReq EXCEPT ![r] = q]
        /\ s \notin {"insert", "patch", "rotate", "delete", "plan", "arm", "create"}
    BY <1>6 DEF PruneRead, HookGoto, HookKeep
  <2> HIDE DEF f, s
  <2>3. q.pruned = f
    OBVIOUS
  <2> HIDE DEF q
  <2> QED BY <1>1, <1>2, <2>1, <2>2, <2>3, HolderMoves
<1>7. ASSUME NEW h \in DOMAIN hooks, LiveWebhook(r, h, "patch") \/ LiveWebhook(r, h, "rotate") \/ DeleteRead(r, h)
      PROVE  RegistryTypes'
  <2>1. HookEnd(r) \/ \E s \in {"patch", "rotate", "delete"} :
                        HookGoto(r, s) /\ HookKeep(r, [hook |-> h, row |-> hooks[h]])
    BY <1>7 DEF LiveWebhook, DeleteRead
  <2> QED BY <1>3, <1>5, <2>1
<1>8. ASSUME NEW p \in Pairs, CapCheck(r, p) PROVE RegistryTypes'
  BY <1>3, <1>4, <1>8 DEF CapCheck
<1> QED BY <1>6, <1>7, <1>8

LEMMA HookCommitTypes ==
    ASSUME FanOutInv, RegistryTypes, NEW r \in HookRequests,
           InsertHook(r) \/ PatchCommit(r) \/ RotateCommit(r) \/ DeleteCommit(r) \/ PruneCommit(r)
    PROVE  RegistryTypes'
<1> DEFINE q == hookReq[r]
           h == q.hook
           w == hooks[h]
<1>1. HookEnd(r) /\ UNCHANGED <<lapsed, eventHits, armed, sent, gone>> /\ HoldsHook(r) /\ r \in Hooks
  BY DEF InsertHook, PatchCommit, RotateCommit, DeleteCommit, PruneCommit, RegistryTypes, Hooks
<1>2. CASE InsertHook(r)
  <2>1. q.pair \in Pairs
    BY <1>1, <1>2 DEF InsertHook, HoldsHook
  <2>2. NewHook(q.pair, r) \in Webhook
    BY <1>1, <2>1, NewHookTyped
  <2>3. \/ UNCHANGED hooks
        \/ hooks' = [x \in DOMAIN hooks \cup {r} |-> IF x = r THEN NewHook(q.pair, r) ELSE hooks[x]]
    BY <1>2 DEF InsertHook
  <2> QED BY <1>1, <2>2, <2>3, RowWritten
<1>3. ASSUME hookPc[r] \in {"patch", "rotate", "delete"}
      PROVE  h \in DOMAIN hooks /\ h \in Hooks /\ w \in Webhook /\ q.row \in Webhook
  BY <1>1, <1>3 DEF HoldsHook, RegistryTypes, TableTyped
<1>4. CASE PatchCommit(r)
  <2>1. h \in DOMAIN hooks /\ h \in Hooks /\ w \in Webhook
    BY <1>3, <1>4 DEF PatchCommit
  <2>2. ASSUME NEW p \in Pairs,
               hooks' = [hooks EXCEPT ![h].pair = IF p = q.row.pair THEN @ ELSE p]
        PROVE  RegistryTypes'
    <3> DEFINE v == IF p = q.row.pair THEN w.pair ELSE p
    <3>1. v \in Pairs
      BY <2>1 DEF Webhook
    <3>2. hooks' = [hooks EXCEPT ![h] = [w EXCEPT !.pair = v]]
      BY <2>1, <2>2
    <3> HIDE DEF v
    <3>3. [w EXCEPT !.pair = v] \in Webhook
      BY <2>1, <3>1, WebhookWritten
    <3> QED BY <1>1, <2>1, <3>2, <3>3, RowWritten
  <2>3. ASSUME NEW b \in BOOLEAN,
               hooks' = [hooks EXCEPT ![h].active = IF b = q.row.active THEN @ ELSE b]
        PROVE  RegistryTypes'
    <3> DEFINE v == IF b = q.row.active THEN w.active ELSE b
    <3>1. v \in BOOLEAN
      BY <2>1 DEF Webhook
    <3>2. hooks' = [hooks EXCEPT ![h] = [w EXCEPT !.active = v]]
      BY <2>1, <2>3
    <3> HIDE DEF v
    <3>3. [w EXCEPT !.active = v] \in Webhook
      BY <2>1, <3>1, WebhookWritten
    <3> QED BY <1>1, <2>1, <3>2, <3>3, RowWritten
  <2>4. CASE UNCHANGED hooks
    BY <1>1, <2>1, <2>4, RowWritten
  <2>5. \/ UNCHANGED hooks
        \/ \E p \in Pairs : hooks' = [hooks EXCEPT ![h].pair = IF p = q.row.pair THEN @ ELSE p]
        \/ \E b \in BOOLEAN : hooks' = [hooks EXCEPT ![h].active = IF b = q.row.active THEN @ ELSE b]
    BY <1>4 DEF PatchCommit
  <2> QED BY <2>2, <2>3, <2>4, <2>5
<1>5. CASE RotateCommit(r)
  <2>1. h \in DOMAIN hooks /\ h \in Hooks /\ w \in Webhook /\ q.row \in Webhook
    BY <1>3, <1>5 DEF RotateCommit
  <2> DEFINE n == q.row.version + 1
             S == HistoryAfter(q.row, w.previous)
             a == [w EXCEPT !.secret = r]
             b == [a EXCEPT !.version = n]
             c == [b EXCEPT !.previous = S]
  <2>2. n \in Nat
    BY <2>1 DEF Webhook
  <2>3. S \in SUBSET Hooks
    BY <2>1 DEF HistoryAfter, Kept, Webhook
  <2>4. hooks' = [hooks EXCEPT ![h] = c]
    BY <1>5, <2>1 DEF RotateCommit
  <2> HIDE DEF n, S
  <2>5. a \in Webhook
    BY <1>1, <2>1, WebhookWritten
  <2> HIDE DEF a
  <2>6. b \in Webhook
    BY <2>2, <2>5, WebhookWritten
  <2> HIDE DEF b
  <2>7. c \in Webhook
    BY <2>3, <2>6, WebhookWritten
  <2> HIDE DEF c
  <2> QED BY <1>1, <2>1, <2>4, <2>7, RowWritten
<1>6. CASE DeleteCommit(r)
  <2>1. h \in DOMAIN hooks /\ h \in Hooks /\ w \in Webhook
    BY <1>3, <1>6 DEF DeleteCommit
  <2> DEFINE t == TRUE
             v == IF q.row.active THEN FALSE ELSE w.active
             a == [w EXCEPT !.deleted = t]
             b == [a EXCEPT !.active = v]
  <2>2. t \in BOOLEAN /\ v \in BOOLEAN
    BY <2>1 DEF Webhook
  <2>3. hooks' = [hooks EXCEPT ![h] = b]
    BY <1>6, <2>1 DEF DeleteCommit
  <2> HIDE DEF t, v
  <2>4. a \in Webhook
    BY <2>1, <2>2, WebhookWritten
  <2> HIDE DEF a
  <2>5. b \in Webhook
    BY <2>2, <2>4, WebhookWritten
  <2> HIDE DEF b
  <2> QED BY <1>1, <2>1, <2>3, <2>5, RowWritten
<1>7. CASE PruneCommit(r)
  <2>1. /\ DOMAIN hooks' = DOMAIN hooks
        /\ \A x \in DOMAIN hooks : \/ hooks'[x] = hooks[x]
                                   \/ /\ x \in DOMAIN q.pruned
                                      /\ hooks'[x] = [hooks[x] EXCEPT !.previous = q.pruned[x]]
    BY <1>7 DEF PruneCommit
  <2>2. \A x \in DOMAIN q.pruned : q.pruned[x] \in SUBSET Hooks
    BY <1>1, <1>7 DEF PruneCommit, HoldsHook
  <2> HIDE DEF q
  <2>3. ASSUME NEW x \in DOMAIN hooks' PROVE hooks'[x] \in Webhook
    <3>1. hooks[x] \in Webhook
      BY <2>1 DEF RegistryTypes, TableTyped
    <3>2. CASE hooks'[x] = hooks[x]
      BY <3>1, <3>2
    <3>3. CASE x \in DOMAIN q.pruned /\ hooks'[x] = [hooks[x] EXCEPT !.previous = q.pruned[x]]
      <4> DEFINE v == hooks[x]
                 S == q.pruned[x]
      <4>1. v \in Webhook /\ S \in SUBSET Hooks /\ hooks'[x] = [v EXCEPT !.previous = S]
        BY <2>2, <3>1, <3>3
      <4> HIDE DEF v, S
      <4> QED BY <4>1, WebhookWritten
    <3> QED BY <2>1, <3>2, <3>3
  <2>4. TableTyped'
    BY <1>1, <2>1, <2>3 DEF RegistryTypes, TableTyped
  <2> QED BY <1>1, <2>1, <2>4, HolderEnds
<1> QED BY <1>2, <1>4, <1>5, <1>6, <1>7

\* A step of a fan-out leaves the webhooks alone.
LEMMA PlannerMoves ==
    ASSUME FanOutInv, RegistryTypes, TableTyped', UNCHANGED hooks, NEW r \in HookRequests,
           NEW step \in {"plan", "arm", "create"}, NEW q,
           hookPc' = [hookPc EXCEPT ![r] = step], hookReq' = [hookReq EXCEPT ![r] = q],
           q.todo \subseteq Hooks, q.allowed \subseteq Hooks, step = "arm" => q.hook \in Hooks
    PROVE  RegistryTypes'
<1>1. step \notin {"insert", "patch", "rotate", "delete", "prune"}
  OBVIOUS
<1> QED BY <1>1, HolderMoves

LEMMA FanOutTypes ==
    ASSUME FanOutInv, RegistryTypes, NEW r \in HookRequests, FanOut(r)
    PROVE  RegistryTypes'
<1> DEFINE q == hookReq[r]
<1>a. /\ HoldsHook(r) /\ TableTyped /\ sent \in [HookRequests -> SUBSET Hooks]
      /\ gone \in [HookRequests -> SUBSET Hooks] /\ DOMAIN hooks \subseteq Hooks
  BY DEF RegistryTypes, TableTyped
<1>1. CASE ResolveSubscribers(r)
  <2> DEFINE S == Subscribers
             G == {h \in DOMAIN hooks : hooks[h].deleted}
             n == [todo |-> S, allowed |-> {}]
             s == "plan"
  <2>1. /\ hookPc' = [hookPc EXCEPT ![r] = s] /\ hookReq' = [hookReq EXCEPT ![r] = n]
        /\ gone' = [gone EXCEPT ![r] = G] /\ UNCHANGED <<hooks, lapsed, eventHits, armed, sent>>
    BY <1>1 DEF ResolveSubscribers, HookGoto, HookKeep
  <2>2. S \subseteq Hooks /\ G \subseteq Hooks /\ s \in {"plan", "arm", "create"} /\ s # "arm"
    BY <1>a DEF Subscribers
  <2> HIDE DEF S, G, s
  <2>3. n.todo = S /\ n.allowed = {}
    OBVIOUS
  <2> HIDE DEF n
  <2>4. gone' \in [HookRequests -> SUBSET Hooks]
    BY <1>a, <2>1, <2>2
  <2>5. TableTyped'
    BY <1>a, <2>1, <2>4 DEF TableTyped
  <2> QED BY <2>1, <2>2, <2>3, <2>5, PlannerMoves
<1>2. ASSUME NEW step \in {"plan", "create"}, NEW T \in SUBSET Hooks, NEW A \in SUBSET Hooks, TableTyped',
             hookPc' = [hookPc EXCEPT ![r] = step],
             hookReq' = [hookReq EXCEPT ![r] = [todo |-> T, allowed |-> A]], UNCHANGED hooks
      PROVE  RegistryTypes'
  <2> DEFINE n == [todo |-> T, allowed |-> A]
  <2>1. n.todo = T /\ n.allowed = A /\ hookReq' = [hookReq EXCEPT ![r] = n]
    BY <1>2
  <2>2. step \in {"plan", "arm", "create"} /\ step # "arm"
    OBVIOUS
  <2> HIDE DEF n
  <2> QED BY <1>2, <2>1, <2>2, PlannerMoves
<1>3. CASE Arm(r)
  <2> DEFINE A == q.allowed \cup IF q.count <= EventBudget THEN {q.hook} ELSE {}
  <2>1. A \in SUBSET Hooks /\ q.todo \in SUBSET Hooks /\ q.hook \in Hooks
    BY <1>3, <1>a DEF Arm, HoldsHook
  <2>2. /\ hookPc' = [hookPc EXCEPT ![r] = "plan"] /\ UNCHANGED <<hooks, lapsed, eventHits, sent, gone>>
        /\ hookReq' = [hookReq EXCEPT ![r] = [todo |-> q.todo, allowed |-> A]]
        /\ armed' \subseteq armed \cup {q.hook}
    BY <1>3 DEF Arm, HookGoto, HookKeep
  <2> HIDE DEF A, q
  <2>3. TableTyped'
    BY <1>a, <2>1, <2>2 DEF TableTyped
  <2> QED BY <1>2, <2>1, <2>2, <2>3
<1>4. CASE PlanDone(r)
  <2>1. /\ UNCHANGED <<hooks, lapsed, eventHits, armed, hookReq, sent, gone>>
        /\ hookPc[r] = "plan" /\ hookPc' = [hookPc EXCEPT ![r] = "create"]
    BY <1>4 DEF PlanDone, HookGoto
  <2>2. /\ q.todo \in SUBSET Hooks /\ q.allowed \in SUBSET Hooks
        /\ q = [todo |-> q.todo, allowed |-> q.allowed]
    BY <1>a, <2>1, HookSame DEF HoldsHook, FanOutOK
  <2>3. hookReq' = [hookReq EXCEPT ![r] = [todo |-> q.todo, allowed |-> q.allowed]]
    BY <2>1, <2>2, HookSame
  <2>4. TableTyped'
    BY <1>a, <2>1 DEF TableTyped
  <2> HIDE DEF q
  <2> QED BY <1>2, <2>1, <2>2, <2>3, <2>4
<1>5. CASE CreateDelivery(r)
  <2>1. CASE HookEnd(r) /\ UNCHANGED sent
    <3>1. UNCHANGED <<hooks, lapsed, eventHits, armed, sent, gone>>
      BY <1>5, <2>1 DEF CreateDelivery
    <3>2. TableTyped'
      BY <1>a, <3>1 DEF TableTyped
    <3> QED BY <2>1, <3>1, <3>2, HolderEnds
  <2>2. CASE q.allowed # {}
    <3>1. PICK h \in q.allowed : /\ sent' = [sent EXCEPT ![r] = @ \cup {h}]
                                 /\ hookReq' = [hookReq EXCEPT ![r] = [q EXCEPT !.allowed = @ \ {h}]]
                                 /\ UNCHANGED hookPc
      BY <1>5, <2>2 DEF CreateDelivery, HookKeep
    <3>2. /\ q.todo \in SUBSET Hooks /\ q.allowed \in SUBSET Hooks /\ hookPc[r] = "create"
          /\ q = [todo |-> q.todo, allowed |-> q.allowed]
          /\ UNCHANGED <<hooks, lapsed, eventHits, armed, gone>>
      BY <1>5, <1>a, HookSame DEF CreateDelivery, HoldsHook, FanOutOK
    <3>3. hookPc' = [hookPc EXCEPT ![r] = "create"]
      BY <3>1, <3>2, HookSame
    <3> HIDE DEF q
    <3> DEFINE T == q.todo
               A == q.allowed \ {h}
    <3>4. [q EXCEPT !.allowed = @ \ {h}] = [todo |-> T, allowed |-> A]
      BY <3>2
    <3>5. hookReq' = [hookReq EXCEPT ![r] = [todo |-> T, allowed |-> A]]
      BY <3>1, <3>4
    <3>6. T \in SUBSET Hooks /\ A \in SUBSET Hooks /\ h \in Hooks
      BY <3>2
    <3>7. sent' \in [HookRequests -> SUBSET Hooks]
      BY <1>a, <3>1, <3>6
    <3>8. TableTyped'
      BY <1>a, <3>2, <3>7 DEF TableTyped
    <3> HIDE DEF T, A
    <3> QED BY <1>2, <3>2, <3>3, <3>5, <3>6, <3>8
  <2> QED BY <1>5, <2>1, <2>2 DEF CreateDelivery
<1>6. ASSUME NEW h \in DOMAIN hooks, Incr(r, h) PROVE RegistryTypes'
  <2> DEFINE c == eventHits[h] + 1
             n == [hook |-> h, count |-> c, todo |-> q.todo \ {h}, allowed |-> q.allowed]
             s == "arm"
  <2>1. /\ hookPc' = [hookPc EXCEPT ![r] = s] /\ hookReq' = [hookReq EXCEPT ![r] = n]
        /\ eventHits' = [eventHits EXCEPT ![h] = c] /\ UNCHANGED <<hooks, lapsed, armed, sent, gone>>
    BY <1>6 DEF Incr, HookGoto, HookKeep
  <2>2. /\ q.todo \subseteq Hooks /\ q.allowed \subseteq Hooks /\ h \in Hooks
        /\ s \in {"plan", "arm", "create"}
    BY <1>6, <1>a DEF Incr, HoldsHook
  <2>3. c \in Nat
    BY <1>a, <2>2 DEF TableTyped
  <2> HIDE DEF c, q, s
  <2>4. n.hook = h /\ n.todo = q.todo \ {h} /\ n.allowed = q.allowed
    OBVIOUS
  <2> HIDE DEF n
  <2>5. TableTyped'
    BY <1>a, <2>1, <2>3 DEF TableTyped
  <2>6. n.todo \subseteq Hooks /\ n.allowed \subseteq Hooks /\ n.hook \in Hooks
    BY <2>2, <2>4
  <2> QED BY <2>1, <2>2, <2>5, <2>6, PlannerMoves
<1>7. ASSUME NEW h \in DOMAIN hooks, AllowLocal(r, h) PROVE RegistryTypes'
  <2>1. PICK ok \in SUBSET {h} : hookReq' = [hookReq EXCEPT ![r] = [todo |-> q.todo \ {h}, allowed |-> q.allowed \cup ok]]
    BY <1>7 DEF AllowLocal, HookKeep
  <2>2. /\ q.todo \subseteq Hooks /\ q.allowed \subseteq Hooks
        /\ hookPc' = [hookPc EXCEPT ![r] = "plan"]
        /\ UNCHANGED <<hooks, lapsed, eventHits, armed, sent, gone>>
    BY <1>7, <1>a DEF AllowLocal, HoldsHook, HookGoto
  <2>3. TableTyped'
    BY <1>a, <2>2 DEF TableTyped
  <2> DEFINE T == q.todo \ {h}
             A == q.allowed \cup ok
  <2>4. T \in SUBSET Hooks /\ A \in SUBSET Hooks
    BY <1>a, <2>2
  <2>5. hookReq' = [hookReq EXCEPT ![r] = [todo |-> T, allowed |-> A]]
    BY <2>1
  <2> HIDE DEF T, A
  <2> QED BY <1>2, <2>2, <2>3, <2>4, <2>5
<1> QED BY <1>1, <1>3, <1>4, <1>5, <1>6, <1>7 DEF FanOut

LEMMA RegistryTypesStep == FanOutInv /\ RegistryTypes /\ [RegistryNext]_hookVars => RegistryTypes'
<1> SUFFICES ASSUME FanOutInv, RegistryTypes, [RegistryNext]_hookVars PROVE RegistryTypes'
  OBVIOUS
<1>1. ASSUME NEW r \in HookRequests, ChangeHook(r) PROVE RegistryTypes'
  BY <1>1, HookReadTypes, HookCommitTypes DEF ChangeHook
<1>2. ASSUME NEW r \in HookRequests, HookCrash(r) PROVE RegistryTypes'
  <2>1. TableTyped' /\ UNCHANGED hooks /\ HookEnd(r)
    BY <1>2 DEF HookCrash, RegistryTypes, TableTyped
  <2> QED BY <2>1, HolderEnds
<1>3. ASSUME NEW s \in Hooks, GraceEnds(s) \/ WindowEnds(s) PROVE RegistryTypes'
  <2>1. TableTyped'
    BY <1>3 DEF GraceEnds, WindowEnds, RegistryTypes, TableTyped
  <2> QED BY <1>3, <2>1 DEF GraceEnds, WindowEnds, RegistryTypes, HoldsHook
<1>4. CASE UNCHANGED hookVars
  <2>1. TableTyped'
    BY <1>4 DEF hookVars, RegistryTypes, TableTyped
  <2> QED BY <1>4, <2>1 DEF hookVars, RegistryTypes, HoldsHook
<1> QED BY <1>1, <1>2, <1>3, <1>4, FanOutTypes DEF RegistryNext

LEMMA RegistryTyped == RegistrySpec => []RegistryTypeOK
<1>1. RegistryInit => FanOutInv
  BY DEF RegistryInit, FanOutInv, FanOutOK, HookSteps
<1>2. FanOutInv /\ RegistryTypes => RegistryTypeOK
  BY DEF FanOutInv, RegistryTypes, TableTyped, RegistryTypeOK
<1> QED
  BY <1>1, <1>2, FanOutInvStep, RegistryTypesInit, RegistryTypesStep, PTL DEF RegistrySpec

-----------------------------------------------------------------------------
(* OutageImport                                                            *)

ImportShape(q) == q = [mode |-> q.mode, rest |-> q.rest, mine |-> q.mine, answer |-> q.answer]
ImportPcs == {"idle", "check", "insert", "refresh", "commit", "undo", "done"}
ImportWork == {"check", "insert", "refresh", "commit", "undo"}

\* A row that r inserted is among those it will delete if it fails, is the one
\* it is about to note, or was lost; or r has answered something else than
\* that the batch was rolled back.
Accounted(i, step, q, missed) ==
    \/ step \in ImportWork /\ i \in q.mine
    \/ step = "refresh" /\ i = Head(q.rest).id
    \/ step = "done" /\ q.answer # "rolled_back"
    \/ i \in missed

ImportOK(r) ==
    /\ ImportShape(impReq[r])
    /\ impPc[r] # "done" => impReq[r].answer = "none"
    /\ \A i \in DOMAIN outages : outages[i].by = r => Accounted(i, impPc[r], impReq[r], lost[r])
    /\ impPc[r] = "idle" => lost[r] = {}

\* The inductive invariant.
ImportInv ==
    /\ impPc \in [Importers -> ImportPcs]
    /\ impReq = [r \in Importers |-> impReq[r]]
    /\ lost = [r \in Importers |-> lost[r]]
    /\ \A r \in Importers : ImportOK(r)

\* A step of r: the rows of the table are those before, or r's.
LEMMA ImportMoves ==
    ASSUME ImportInv, NEW r \in Importers, NEW step \in ImportPcs, NEW q, NEW missed, step # "idle",
           impPc' = [impPc EXCEPT ![r] = step], impReq' = [impReq EXCEPT ![r] = q],
           lost' = [lost EXCEPT ![r] = missed],
           ImportShape(q), step # "done" => q.answer = "none",
           \A i \in DOMAIN outages' : \/ i \in DOMAIN outages /\ outages'[i] = outages[i]
                                      \/ outages'[i].by = r,
           \A i \in DOMAIN outages' : outages'[i].by = r => Accounted(i, step, q, missed)
    PROVE  ImportInv'
<1>1. /\ impPc' \in [Importers -> ImportPcs] /\ impReq' = [x \in Importers |-> impReq'[x]]
      /\ lost' = [x \in Importers |-> lost'[x]]
      /\ impPc'[r] = step /\ impReq'[r] = q /\ lost'[r] = missed
      /\ \A x \in Importers \ {r} : impPc'[x] = impPc[x] /\ impReq'[x] = impReq[x] /\ lost'[x] = lost[x]
  BY DEF ImportInv
<1>2. ImportOK(r)'
  BY <1>1 DEF ImportOK
<1>3. ASSUME NEW x \in Importers \ {r} PROVE ImportOK(x)'
  <2>1. ImportOK(x) /\ impPc'[x] = impPc[x] /\ impReq'[x] = impReq[x] /\ lost'[x] = lost[x]
    BY <1>1 DEF ImportInv
  <2> QED BY <2>1 DEF ImportOK
<1> QED BY <1>1, <1>2, <1>3 DEF ImportInv

\* Nothing more is lost.
LEMMA NothingLost ==
    ASSUME ImportInv, UNCHANGED lost, NEW r \in Importers
    PROVE  lost' = [lost EXCEPT ![r] = lost[r]]
  BY DEF ImportInv

LEMMA ImportMovesOn ==
    ASSUME ImportInv, NEW r \in Importers, NEW step \in ImportPcs, NEW q, step # "idle",
           impPc' = [impPc EXCEPT ![r] = step], impReq' = [impReq EXCEPT ![r] = q],
           UNCHANGED lost, ImportShape(q), step # "done" => q.answer = "none",
           \A i \in DOMAIN outages' : \/ i \in DOMAIN outages /\ outages'[i] = outages[i]
                                      \/ outages'[i].by = r,
           \A i \in DOMAIN outages' : outages'[i].by = r => Accounted(i, step, q, lost[r])
    PROVE  ImportInv'
<1>1. PICK missed : missed = lost[r]
  OBVIOUS
<1> QED BY <1>1, NothingLost, ImportMoves

LEMMA AnswerKeeps ==
    ASSUME ImportInv, NEW r \in Importers, NEW a, NEW missed, Answer(r, a),
           lost' = [lost EXCEPT ![r] = missed],
           \A i \in DOMAIN outages' : \/ i \in DOMAIN outages /\ outages'[i] = outages[i]
                                      \/ outages'[i].by = r,
           a = "rolled_back" => \A i \in DOMAIN outages' : outages'[i].by = r => i \in missed
    PROVE  ImportInv'
<1> DEFINE q == [NoImport EXCEPT !.answer = a]
<1>1. impPc' = [impPc EXCEPT ![r] = "done"] /\ impReq' = [impReq EXCEPT ![r] = q]
  BY DEF Answer
<1>2. ImportShape(q) /\ q.answer = a
  <2>1. ImportShape(NoImport)
    BY DEF NoImport, ImportShape
  <2> QED BY <2>1 DEF ImportShape
<1> HIDE DEF q
<1>3. \A i \in DOMAIN outages' : outages'[i].by = r => Accounted(i, "done", q, missed)
  BY <1>2 DEF Accounted
<1> QED BY <1>1, <1>2, <1>3, ImportMoves DEF ImportPcs

\* The table is left alone, and r goes on with the rows it has inserted.
LEMMA ImportGoesOn ==
    ASSUME ImportInv, NEW r \in Importers, impPc[r] \in ImportWork, UNCHANGED outages,
           NEW step \in ImportWork \ {"refresh"}, impPc' = [impPc EXCEPT ![r] = step],
           NEW t, NEW ids, NEW missed, lost' = [lost EXCEPT ![r] = missed], lost[r] \subseteq missed,
           UNCHANGED impReq \/ impReq' = [impReq EXCEPT ![r].rest = t, ![r].mine = impReq[r].mine \cup ids],
           impPc[r] = "refresh" => Head(impReq[r].rest).id \in missed \cup impReq'[r].mine
    PROVE  ImportInv'
<1> DEFINE q == impReq[r]
           l == [q EXCEPT !.rest = t]
           n == [l EXCEPT !.mine = q.mine \cup ids]
<1>1. /\ ImportShape(q) /\ q.answer = "none"
      /\ \A i \in DOMAIN outages' : outages'[i].by = r =>
           i \in q.mine \/ (impPc[r] = "refresh" /\ i = Head(q.rest).id) \/ i \in missed
  BY DEF ImportInv, ImportOK, Accounted, ImportWork
<1>a. /\ step \in ImportPcs /\ step # "idle" /\ step # "done" /\ step \in ImportWork
      /\ \A i \in DOMAIN outages' : i \in DOMAIN outages /\ outages'[i] = outages[i]
  BY DEF ImportPcs, ImportWork
<1>2. CASE UNCHANGED impReq
  <2>1. impReq' = [impReq EXCEPT ![r] = q]
    BY <1>2 DEF ImportInv
  <2>2. \A i \in DOMAIN outages' : outages'[i].by = r => Accounted(i, step, q, missed)
    BY <1>1, <1>2, <1>a DEF Accounted
  <2> HIDE DEF q
  <2> QED BY <1>1, <1>a, <2>1, <2>2, ImportMoves
<1>3. CASE impReq' = [impReq EXCEPT ![r].rest = t, ![r].mine = impReq[r].mine \cup ids]
  <2>1. impReq' = [impReq EXCEPT ![r] = n] /\ impReq'[r] = n
    BY <1>3 DEF ImportInv
  <2>0. impPc[r] = "refresh" => Head(q.rest).id \in missed \cup n.mine
    BY <2>1
  <2> HIDE DEF q
  <2>2. ImportShape(l) /\ l.answer = q.answer
    BY <1>1 DEF ImportShape
  <2> HIDE DEF l
  <2>3. ImportShape(n) /\ n.answer = q.answer /\ n.mine = q.mine \cup ids
    <3>1. PICK m : m = q.mine \cup ids
      OBVIOUS
    <3>2. n = [l EXCEPT !.mine = m]
      BY <3>1
    <3> HIDE DEF n
    <3>3. ImportShape(n) /\ n.answer = l.answer /\ n.mine = m
      BY <2>2, <3>2 DEF ImportShape
    <3> QED BY <2>2, <3>1, <3>3
  <2> HIDE DEF n
  <2>4. \A i \in DOMAIN outages' : outages'[i].by = r => Accounted(i, step, n, missed)
    BY <1>1, <1>a, <2>0, <2>3 DEF Accounted
  <2>5. n.answer = "none"
    BY <1>1, <2>3
  <2>6. impReq' = [impReq EXCEPT ![r] = n]
    BY <2>1
  <2>7. \A i \in DOMAIN outages' : (i \in DOMAIN outages /\ outages'[i] = outages[i]) \/ outages'[i].by = r
    BY <1>a
  <2>8. step \in ImportPcs /\ step # "idle" /\ ImportShape(n) /\ (step # "done" => n.answer = "none")
    BY <1>a, <2>3, <2>5
  <2> QED BY <2>4, <2>6, <2>7, <2>8, ImportMoves
<1> QED BY <1>2, <1>3

\* Every step of r that leaves the table alone and does not end the undo.
LEMMA WorkKeeps ==
    ASSUME ImportInv, NEW r \in Importers,
           CheckRow(r) \/ InsertFails(r) \/ RefreshOutage(r) \/ RefreshFails(r) \/ CommitImport(r)
    PROVE  ImportInv'
<1> DEFINE missed == lost'[r]
           id == Head(impReq[r].rest).id
<1>1. impPc[r] \in ImportWork /\ UNCHANGED outages
  BY DEF CheckRow, InsertFails, RefreshOutage, RefreshFails, CommitImport, ImportWork
<1>l. /\ lost' = [lost EXCEPT ![r] = missed] /\ lost[r] \subseteq missed
      /\ RefreshFails(r) => id \in missed
      /\ impPc[r] = "refresh" => RefreshOutage(r) \/ RefreshFails(r)
  <2>1. CASE UNCHANGED lost /\ impPc[r] # "refresh"
    BY <2>1 DEF ImportInv, RefreshFails
  <2>2. CASE UNCHANGED lost /\ RefreshOutage(r)
    BY <2>2 DEF ImportInv, RefreshFails
  <2>3. CASE RefreshFails(r)
    BY <2>3 DEF ImportInv, RefreshFails
  <2> QED BY <2>1, <2>2, <2>3 DEF CheckRow, InsertFails, RefreshOutage, CommitImport
<1>2. CASE Answer(r, "ok") \/ Answer(r, "failed")
  <2> HIDE DEF missed
  <2> QED BY <1>1, <1>2, <1>l, AnswerKeeps
<1>3. ASSUME NEW ids, NextRow(r, ids), impPc[r] = "refresh" => id \in ids
      PROVE  ImportInv'
  <2>1. CASE Answer(r, "ok")
    BY <1>2, <2>1
  <2> DEFINE t == Tail(impReq[r].rest)
  <2>2. CASE /\ \E step \in {"check", "commit"} : impPc' = [impPc EXCEPT ![r] = step]
             /\ impReq' = [impReq EXCEPT ![r].rest = t, ![r].mine = impReq[r].mine \cup ids]
    <3>1. impPc[r] = "refresh" => id \in missed \cup impReq'[r].mine
      <4> DEFINE q == impReq[r]
                 l == [q EXCEPT !.rest = t]
                 n == [l EXCEPT !.mine = q.mine \cup ids]
      <4>1. impReq'[r] = n /\ ImportShape(q)
        BY <2>2 DEF ImportInv, ImportOK
      <4> HIDE DEF t, q
      <4>2. ImportShape(l)
        BY <4>1 DEF ImportShape
      <4> HIDE DEF l
      <4>3. n.mine = q.mine \cup ids
        BY <4>2 DEF ImportShape
      <4> QED BY <1>3, <4>1, <4>3
    <3> HIDE DEF missed, t, id
    <3> QED BY <1>1, <1>l, <2>2, <3>1, ImportGoesOn DEF ImportWork, id
  <2> QED BY <1>3, <2>1, <2>2 DEF NextRow
<1>4. CASE /\ \E step \in {"insert", "undo"} : impPc' = [impPc EXCEPT ![r] = step] /\ UNCHANGED impReq
           /\ ~ RefreshOutage(r)
  <2> HIDE DEF missed, id
  <2> QED BY <1>1, <1>4, <1>l, ImportGoesOn DEF ImportWork, id
<1>5. ASSUME NextRow(r, {}), impPc[r] # "refresh" PROVE ImportInv'
  BY <1>3, <1>5
<1>6. CASE RowConflict(r) /\ impPc[r] = "check"
  BY <1>2, <1>4, <1>5, <1>6 DEF RowConflict, Undo, RefreshOutage
<1>7. CASE InsertFails(r) \/ RefreshFails(r)
  <2>1. ~ RefreshOutage(r) \/ Answer(r, "failed") \/ ImportInv'
    <3>1. CASE RefreshOutage(r)
      BY <1>3, <3>1 DEF RefreshOutage
    <3> QED BY <3>1
  <2> QED BY <1>2, <1>4, <1>7, <2>1 DEF InsertFails, RefreshFails, DatabaseFails, Undo
<1>8. CASE CheckRow(r)
  BY <1>4, <1>5, <1>6, <1>8 DEF CheckRow, RefreshOutage
<1>9. CASE RefreshOutage(r)
  BY <1>3, <1>9 DEF RefreshOutage
<1>10. CASE CommitImport(r)
  BY <1>2, <1>4, <1>10 DEF CommitImport, Undo, RefreshOutage
<1> QED BY <1>7, <1>8, <1>9, <1>10

LEMMA InsertKeeps ==
    ASSUME ImportInv, NEW r \in Importers, InsertOutage(r)
    PROVE  ImportInv'
<1> DEFINE q == impReq[r]
           id == Head(q.rest).id
<1>1. /\ impPc[r] = "insert" /\ ImportShape(q) /\ q.answer = "none"
      /\ \A i \in DOMAIN outages : outages[i].by = r => i \in q.mine \/ i \in lost[r]
  BY DEF InsertOutage, ImportInv, ImportOK, Accounted
<1>2. \A i \in DOMAIN outages' : \/ i \in DOMAIN outages /\ outages'[i] = outages[i]
                                 \/ i = id /\ outages'[i].by = r
  BY DEF InsertOutage
<1>3. /\ impPc' = [impPc EXCEPT ![r] = "refresh"] /\ impReq' = [impReq EXCEPT ![r] = q]
      /\ UNCHANGED lost
  BY DEF InsertOutage, ImportInv
<1>4. \A i \in DOMAIN outages' : outages'[i].by = r => Accounted(i, "refresh", q, lost[r])
  BY <1>1, <1>2 DEF Accounted, ImportWork
<1>5. "refresh" \in ImportPcs /\ "refresh" # "idle" /\ "refresh" # "done"
  BY DEF ImportPcs
<1>6. \A i \in DOMAIN outages' : (i \in DOMAIN outages /\ outages'[i] = outages[i]) \/ outages'[i].by = r
  BY <1>2
<1> HIDE DEF q
<1> QED BY <1>1, <1>3, <1>4, <1>5, <1>6, ImportMovesOn

LEMMA UndoKeeps ==
    ASSUME ImportInv, NEW r \in Importers, UndoRow(r) \/ UndoDone(r) \/ ImportCrash(r)
    PROVE  ImportInv'
<1> DEFINE q == impReq[r]
<1>1. /\ ImportShape(q) /\ impPc[r] \in ImportWork /\ q.answer = "none"
      /\ impPc[r] = "undo" => \A i \in DOMAIN outages : outages[i].by = r => i \in q.mine \/ i \in lost[r]
  BY DEF UndoRow, UndoDone, ImportCrash, ImportInv, ImportOK, Accounted, ImportPcs, ImportWork
<1>l. lost' = [lost EXCEPT ![r] = lost[r]]
  BY NothingLost DEF UndoRow, UndoDone, ImportCrash
<1>2. CASE UndoDone(r)
  BY <1>1, <1>2, <1>l, AnswerKeeps DEF UndoDone
<1>3. CASE ImportCrash(r)
  BY <1>3, <1>l, AnswerKeeps DEF ImportCrash
<1>4. CASE UndoRow(r)
  <2>1. PICK i \in q.mine : \/ Answer(r, "failed") /\ UNCHANGED outages
                            \/ /\ outages' = Without(i) /\ UNCHANGED impPc
                               /\ impReq' = [impReq EXCEPT ![r].mine = q.mine \ {i}]
    BY <1>4 DEF UndoRow
  <2>2. CASE Answer(r, "failed") /\ UNCHANGED outages
    BY <2>2, <1>l, AnswerKeeps
  <2>3. CASE /\ outages' = Without(i) /\ UNCHANGED impPc
             /\ impReq' = [impReq EXCEPT ![r].mine = q.mine \ {i}]
    <3> DEFINE n == [q EXCEPT !.mine = q.mine \ {i}]
    <3>0. impPc[r] = "undo"
      BY <1>4 DEF UndoRow
    <3>1. impReq' = [impReq EXCEPT ![r] = n] /\ impPc' = [impPc EXCEPT ![r] = "undo"]
      BY <1>4, <2>3 DEF UndoRow, ImportInv
    <3>2. \A x \in DOMAIN outages' : x \in DOMAIN outages /\ x # i /\ outages'[x] = outages[x]
      BY <2>3 DEF Without
    <3> HIDE DEF q
    <3>3. ImportShape(n) /\ n.answer = q.answer /\ n.mine = q.mine \ {i}
      BY <1>1 DEF ImportShape
    <3> HIDE DEF n
    <3>4. \A x \in DOMAIN outages' : outages'[x].by = r => Accounted(x, "undo", n, lost[r])
      BY <1>1, <3>0, <3>2, <3>3 DEF Accounted, ImportWork
    <3>5. "undo" \in ImportPcs /\ "undo" # "idle" /\ "undo" # "done" /\ UNCHANGED lost /\ n.answer = "none"
      BY <1>1, <1>4, <3>3 DEF UndoRow, ImportPcs
    <3> QED BY <3>1, <3>2, <3>3, <3>4, <3>5, ImportMovesOn
  <2> QED BY <2>1, <2>2, <2>3
<1> QED BY <1>2, <1>3, <1>4

LEMMA ImportInvStep == ImportInv /\ [ImportNext]_importVars => ImportInv'
<1> SUFFICES ASSUME ImportInv, [ImportNext]_importVars PROVE ImportInv'
  OBVIOUS
<1>1. ASSUME NEW r \in Importers, NEW mode \in ImportModes, NEW batch \in Batches, BeginImport(r, mode, batch)
      PROVE  ImportInv'
  <2> DEFINE q == impReq[r]
             l == [q EXCEPT !.mode = mode]
             n == [l EXCEPT !.rest = batch]
  <2>1. /\ ImportShape(q) /\ q.answer = "none" /\ UNCHANGED outages
        /\ \A i \in DOMAIN outages : outages[i].by # r
    BY <1>1 DEF BeginImport, ImportInv, ImportOK, Accounted, ImportWork
  <2>l. lost' = [lost EXCEPT ![r] = lost[r]]
    BY <1>1, NothingLost DEF BeginImport
  <2>2. CASE Answer(r, "refused")
    BY <2>1, <2>l, <2>2, AnswerKeeps
  <2>3. CASE /\ impPc' = [impPc EXCEPT ![r] = "check"]
             /\ impReq' = [impReq EXCEPT ![r].mode = mode, ![r].rest = batch]
    <3>1. impReq' = [impReq EXCEPT ![r] = n]
      BY <2>3
    <3> HIDE DEF q
    <3>2. ImportShape(l) /\ l.answer = q.answer
      BY <2>1 DEF ImportShape
    <3> HIDE DEF l
    <3>3. ImportShape(n) /\ n.answer = q.answer
      BY <3>2 DEF ImportShape
    <3> HIDE DEF n
    <3>4. "check" \in ImportPcs /\ "check" # "idle" /\ "check" # "done" /\ UNCHANGED lost /\ n.answer = "none"
      BY <1>1, <2>1, <3>3 DEF BeginImport, ImportPcs
    <3> QED BY <2>1, <2>3, <3>1, <3>3, <3>4, ImportMovesOn
  <2> QED BY <1>1, <2>2, <2>3 DEF BeginImport
<1>2. ASSUME UNCHANGED <<lost, impPc, impReq>>,
             \A i \in DOMAIN outages' : i \in DOMAIN outages /\ outages'[i] = outages[i]
      PROVE  ImportInv'
  BY <1>2 DEF ImportInv, ImportOK
<1>3. ASSUME NEW i \in DOMAIN outages, Settle(i) \/ DeleteOutage(i) PROVE ImportInv'
  BY <1>2, <1>3 DEF Settle, DeleteOutage, Without
<1>4. CASE UNCHANGED importVars
  BY <1>2, <1>4 DEF importVars
<1> QED BY <1>1, <1>3, <1>4, WorkKeeps, InsertKeeps, UndoKeeps DEF ImportNext, Import

\* An atomic import that answers that it was rolled back has left none of its
\* rows but those the database had committed when it failed, for every number
\* of requests and rows, whatever the others import, settle and delete
\* meanwhile.
THEOREM RollbackIsComplete == ImportSpec => []RolledBackLeavesLost
<1>1. ImportInit => ImportInv
  BY DEF ImportInit, ImportInv, ImportOK, ImportShape, ImportPcs, NoImport
<1>2. ImportInv => RolledBackLeavesLost
  <2> SUFFICES ASSUME ImportInv, NEW r \in Importers, impReq[r].answer = "rolled_back",
                      NEW i \in DOMAIN outages, outages[i].by = r
               PROVE  i \in lost[r]
    BY DEF RolledBackLeavesLost, RowsOf
  <2>1. ImportOK(r)
    BY DEF ImportInv
  <2> QED BY <2>1 DEF ImportOK, Accounted, ImportWork
<1> QED BY <1>1, <1>2, ImportInvStep, PTL DEF ImportSpec

BatchRows == OutageCreate \cup {Invalid}
ImportAnswers == {"none", "ok", "refused", "failed", "rolled_back"}

\* An import under way has a row to work on, a valid one once it was checked.
ImportReqTyped(step, q) ==
    /\ q.mode \in ImportModes /\ q.mine \subseteq OutageIds
    /\ q.rest \in Seq(BatchRows) /\ Len(q.rest) <= MaxBatch
    /\ q.answer \in ImportAnswers
    /\ step \in {"check", "insert", "refresh"} => q.rest # <<>>
    /\ step \in {"insert", "refresh"} => Head(q.rest) \in OutageCreate

OutagesTyped ==
    /\ DOMAIN outages \subseteq OutageIds
    /\ \A i \in DOMAIN outages :
         outages[i] \in [key : OutageKeys, content : Contents, by : Importers \cup {NoOne}]
    /\ settled \subseteq DOMAIN outages
    /\ lost \in [Importers -> SUBSET OutageIds]

ImportTypes == OutagesTyped /\ \A r \in Importers : ImportReqTyped(impPc[r], impReq[r])

LEMMA ImportTypesInit == ImportInit => ImportTypes
<1> SUFFICES ASSUME ImportInit PROVE ImportTypes
  OBVIOUS
<1>1. OutagesTyped
  BY DEF ImportInit, OutagesTyped
<1>2. ImportReqTyped("idle", NoImport)
  BY ImportAssumption DEF ImportReqTyped, NoImport, ImportModes, ImportAnswers
<1>3. \A r \in Importers : impPc[r] = "idle" /\ impReq[r] = NoImport
  BY DEF ImportInit
<1> QED BY <1>1, <1>2, <1>3 DEF ImportTypes

LEMMA ImporterMoves ==
    ASSUME ImportInv, ImportTypes, OutagesTyped', NEW r \in Importers, NEW step, NEW q,
           impPc' = [impPc EXCEPT ![r] = step], impReq' = [impReq EXCEPT ![r] = q],
           ImportReqTyped(step, q)
    PROVE  ImportTypes'
<1>1. impPc'[r] = step /\ impReq'[r] = q
  BY DEF ImportInv
<1>2. \A x \in Importers \ {r} : impPc'[x] = impPc[x] /\ impReq'[x] = impReq[x]
  BY DEF ImportInv
<1>3. \A x \in Importers : ImportReqTyped(impPc'[x], impReq'[x])
  BY <1>1, <1>2 DEF ImportTypes
<1> QED BY <1>3 DEF ImportTypes, ImportReqTyped

LEMMA AnswerTyped ==
    ASSUME ImportInv, ImportTypes, OutagesTyped', NEW r \in Importers, NEW a \in ImportAnswers,
           Answer(r, a)
    PROVE  ImportTypes'
<1> DEFINE q == [NoImport EXCEPT !.answer = a]
           s == "done"
<1>1. impPc' = [impPc EXCEPT ![r] = s] /\ impReq' = [impReq EXCEPT ![r] = q]
  BY DEF Answer
<1>2. q.mode = "create" /\ q.mine = {} /\ q.rest = <<>> /\ q.answer = a
  BY DEF NoImport
<1>3. ImportReqTyped(s, q)
  <2> HIDE DEF q
  <2> QED BY <1>2, ImportAssumption DEF ImportReqTyped, ImportModes
<1> HIDE DEF q, s
<1> QED BY <1>1, <1>3, ImporterMoves

LEMMA NextRowTyped ==
    ASSUME ImportInv, ImportTypes, OutagesTyped', NEW r \in Importers, NEW ids \in SUBSET OutageIds,
           NextRow(r, ids), impPc[r] \in {"check", "insert", "refresh"}
    PROVE  ImportTypes'
<1> DEFINE q == impReq[r]
           t == Tail(q.rest)
           m == q.mine \cup ids
           l == [q EXCEPT !.rest = t]
           n == [l EXCEPT !.mine = m]
<1>1. ImportShape(q) /\ ImportReqTyped(impPc[r], q)
  BY DEF ImportInv, ImportOK, ImportTypes
<1>2. CASE Answer(r, "ok")
  <2>1. "ok" \in ImportAnswers
    BY DEF ImportAnswers
  <2> QED BY <1>2, <2>1, AnswerTyped
<1>3. CASE /\ impPc' = [impPc EXCEPT ![r] = IF Len(q.rest) = 1 THEN "commit" ELSE "check"]
           /\ impReq' = [impReq EXCEPT ![r].rest = t, ![r].mine = m]
  <2>1. impReq' = [impReq EXCEPT ![r] = n]
    BY <1>3
  <2>2. t \in Seq(BatchRows) /\ Len(t) = Len(q.rest) - 1 /\ Len(q.rest) \in Nat /\ Len(q.rest) # 0
    BY <1>1 DEF ImportReqTyped
  <2>m. m \subseteq OutageIds
    BY <1>1 DEF ImportReqTyped
  <2> HIDE DEF q, t, m
  <2>a. Len(q.rest) <= MaxBatch
    BY <1>1 DEF ImportReqTyped
  <2>b. Len(t) <= MaxBatch /\ (Len(q.rest) # 1 => Len(t) # 0)
    BY <2>2, <2>a, ImportAssumption
  <2>c. Len(<<>>) = 0
    OBVIOUS
  <2>d. Len(q.rest) # 1 => t # <<>>
    BY <2>b, <2>c, Zenon
  <2>4. ImportShape(l) /\ l.mode = q.mode /\ l.rest = t /\ l.answer = q.answer
    BY <1>1 DEF ImportShape
  <2> HIDE DEF l
  <2>5. n.mode = q.mode /\ n.rest = t /\ n.mine = m /\ n.answer = q.answer
    BY <2>4 DEF ImportShape
  <2> HIDE DEF n
  <2>6. CASE Len(q.rest) = 1
    <3>1. ImportReqTyped("commit", n)
      BY <1>1, <2>2, <2>b, <2>m, <2>5 DEF ImportReqTyped
    <3>2. impPc' = [impPc EXCEPT ![r] = "commit"]
      BY <1>3, <2>6 DEF q
    <3> QED BY <2>1, <3>1, <3>2, ImporterMoves
  <2>7. CASE Len(q.rest) # 1
    <3>1. ImportReqTyped("check", n)
      BY <1>1, <2>2, <2>b, <2>d, <2>m, <2>5, <2>7 DEF ImportReqTyped
    <3>2. impPc' = [impPc EXCEPT ![r] = "check"]
      BY <1>3, <2>7 DEF q
    <3> QED BY <2>1, <3>1, <3>2, ImporterMoves
  <2> QED BY <2>6, <2>7
<1> QED BY <1>2, <1>3 DEF NextRow

LEMMA ImportBegins ==
    ASSUME ImportInv, ImportTypes, NEW r \in Importers, NEW mode \in ImportModes, NEW batch \in Batches,
           BeginImport(r, mode, batch)
    PROVE  ImportTypes'
<1> DEFINE q == impReq[r]
           l == [q EXCEPT !.mode = mode]
           n == [l EXCEPT !.rest = batch]
<1>1. ImportShape(q) /\ ImportReqTyped(impPc[r], q) /\ OutagesTyped'
  BY DEF BeginImport, ImportInv, ImportOK, ImportTypes, OutagesTyped
<1>2. batch \in Seq(BatchRows) /\ Len(batch) <= MaxBatch /\ batch # <<>>
  <2>1. PICK k \in 1 .. MaxBatch : batch \in [1 .. k -> BatchRows]
    BY DEF Batches, BatchRows
  <2>2. batch \in Seq(BatchRows) /\ Len(batch) = k
    BY <2>1, ImportAssumption
  <2> QED BY <2>2, ImportAssumption
<1>3. CASE Answer(r, "refused")
  <2>1. "refused" \in ImportAnswers
    BY DEF ImportAnswers
  <2> QED BY <1>1, <1>3, <2>1, AnswerTyped
<1>4. CASE /\ impPc' = [impPc EXCEPT ![r] = "check"]
           /\ impReq' = [impReq EXCEPT ![r].mode = mode, ![r].rest = batch]
  <2>1. impReq' = [impReq EXCEPT ![r] = n]
    BY <1>4
  <2> HIDE DEF q
  <2>2. ImportShape(l) /\ l.mode = mode /\ l.mine = q.mine /\ l.answer = q.answer
    BY <1>1 DEF ImportShape
  <2> HIDE DEF l
  <2>3. n.mode = mode /\ n.mine = q.mine /\ n.rest = batch /\ n.answer = q.answer
    BY <2>2 DEF ImportShape
  <2> HIDE DEF n
  <2>4. ImportReqTyped("check", n)
    BY <1>1, <1>2, <2>3 DEF ImportReqTyped
  <2> QED BY <1>1, <1>4, <2>1, <2>4, ImporterMoves
<1> QED BY <1>3, <1>4 DEF BeginImport

LEMMA ImportWorks ==
    ASSUME ImportInv, ImportTypes, NEW r \in Importers,
           CheckRow(r) \/ InsertFails(r) \/ RefreshOutage(r) \/ RefreshFails(r) \/ CommitImport(r)
    PROVE  ImportTypes'
<1> DEFINE q == impReq[r]
           id == Head(q.rest).id
<1>1. /\ ImportReqTyped(impPc[r], q) /\ impPc[r] \in {"check", "insert", "refresh", "commit"}
      /\ impReq = [impReq EXCEPT ![r] = q]
  BY DEF CheckRow, InsertFails, RefreshOutage, RefreshFails, CommitImport, ImportInv, ImportTypes
<1>i. impPc[r] = "refresh" => id \in OutageIds
  BY <1>1 DEF ImportReqTyped, OutageCreate
<1>o. OutagesTyped'
  <2>1. UNCHANGED <<outages, settled>> /\ OutagesTyped
    BY DEF CheckRow, InsertFails, RefreshOutage, RefreshFails, CommitImport, ImportTypes
  <2>2. CASE UNCHANGED lost
    BY <2>1, <2>2 DEF OutagesTyped
  <2>3. CASE RefreshFails(r)
    <3>1. lost' = [lost EXCEPT ![r] = @ \cup {id}] /\ id \in OutageIds
      BY <2>3, <1>i DEF RefreshFails
    <3> HIDE DEF id
    <3> QED BY <2>1, <3>1 DEF OutagesTyped
  <2> QED BY <2>2, <2>3 DEF CheckRow, InsertFails, RefreshOutage, CommitImport
<1>2. CASE Answer(r, "failed") \/ Answer(r, "ok")
  <2>1. "failed" \in ImportAnswers /\ "ok" \in ImportAnswers
    BY DEF ImportAnswers
  <2> QED BY <1>o, <1>2, <2>1, AnswerTyped
<1>3. CASE NextRow(r, {}) /\ impPc[r] = "check"
  BY <1>o, <1>3, NextRowTyped
<1>4. CASE Undo(r)
  <2>1. ImportReqTyped("undo", q)
    BY <1>1 DEF ImportReqTyped
  <2>2. impPc' = [impPc EXCEPT ![r] = "undo"] /\ impReq' = [impReq EXCEPT ![r] = q]
    BY <1>1, <1>4 DEF Undo
  <2> HIDE DEF q
  <2> QED BY <1>o, <2>1, <2>2, ImporterMoves
<1>5. CASE /\ Head(q.rest) # Invalid /\ impPc' = [impPc EXCEPT ![r] = "insert"] /\ UNCHANGED impReq
           /\ impPc[r] = "check"
  <2>1. q.rest \in Seq(BatchRows) /\ q.rest # <<>>
    BY <1>1, <1>5 DEF ImportReqTyped
  <2>2. Head(q.rest) \in OutageCreate
    BY <1>5, <2>1 DEF BatchRows
  <2>3. ImportReqTyped("insert", q)
    BY <1>1, <1>5, <2>2 DEF ImportReqTyped
  <2>4. impReq' = [impReq EXCEPT ![r] = q]
    BY <1>1, <1>5
  <2> HIDE DEF q
  <2> QED BY <1>o, <1>5, <2>3, <2>4, ImporterMoves
<1>6. CASE RowConflict(r) /\ impPc[r] = "check"
  BY <1>2, <1>3, <1>4, <1>6 DEF RowConflict
<1>7. CASE InsertFails(r) \/ RefreshFails(r)
  BY <1>2, <1>4, <1>7 DEF InsertFails, RefreshFails, DatabaseFails
<1>8. CASE CheckRow(r)
  BY <1>3, <1>5, <1>6, <1>8 DEF CheckRow
<1>9. CASE RefreshOutage(r)
  <2>1. {id} \in SUBSET OutageIds /\ impPc[r] = "refresh" /\ NextRow(r, {id})
    BY <1>9, <1>i DEF RefreshOutage
  <2> HIDE DEF id
  <2> QED BY <1>o, <2>1, NextRowTyped
<1>10. CASE CommitImport(r)
  BY <1>2, <1>4, <1>10 DEF CommitImport
<1> QED BY <1>7, <1>8, <1>9, <1>10

LEMMA ImportInserts ==
    ASSUME ImportInv, ImportTypes, NEW r \in Importers, InsertOutage(r)
    PROVE  ImportTypes'
<1> DEFINE q == impReq[r]
           p == Head(q.rest)
<1>1. ImportReqTyped(impPc[r], q) /\ impPc[r] = "insert"
  BY DEF InsertOutage, ImportTypes
<1>2. p \in OutageCreate
  BY <1>1 DEF ImportReqTyped
<1>3. p.id \in OutageIds /\ p.key \in OutageKeys /\ p.content \in Contents
  BY <1>2 DEF OutageCreate
<1>4. OutagesTyped'
  <2>1. /\ outages' = [i \in DOMAIN outages \cup {p.id} |->
                         IF i = p.id THEN [key |-> p.key, content |-> p.content, by |-> r] ELSE outages[i]]
        /\ UNCHANGED <<settled, lost>>
    BY DEF InsertOutage
  <2> HIDE DEF p
  <2> QED BY <1>3, <2>1 DEF ImportTypes, OutagesTyped
<1>5. impPc' = [impPc EXCEPT ![r] = "refresh"] /\ impReq' = [impReq EXCEPT ![r] = q]
  BY DEF InsertOutage, ImportInv
<1>6. ImportReqTyped("refresh", q)
  BY <1>1 DEF ImportReqTyped
<1> HIDE DEF q
<1> QED BY <1>4, <1>5, <1>6, ImporterMoves

LEMMA ImportUndoes ==
    ASSUME ImportInv, ImportTypes, NEW r \in Importers, UndoRow(r) \/ UndoDone(r) \/ ImportCrash(r)
    PROVE  ImportTypes'
<1> DEFINE q == impReq[r]
<1>1. ImportShape(q) /\ ImportReqTyped(impPc[r], q)
  BY DEF ImportInv, ImportOK, ImportTypes
<1>2. ASSUME UNCHANGED <<outages, settled, lost>>, NEW a \in {"failed", "rolled_back", "none"}, Answer(r, a)
      PROVE  ImportTypes'
  <2>1. OutagesTyped' /\ a \in ImportAnswers
    BY <1>2 DEF ImportTypes, OutagesTyped, ImportAnswers
  <2> QED BY <1>2, <2>1, AnswerTyped
<1>3. CASE UndoDone(r) \/ ImportCrash(r)
  BY <1>2, <1>3 DEF UndoDone, ImportCrash
<1>4. CASE UndoRow(r)
  <2>1. PICK i \in q.mine : \/ Answer(r, "failed") /\ UNCHANGED outages
                            \/ /\ outages' = Without(i) /\ UNCHANGED impPc /\ i \notin settled
                               /\ impReq' = [impReq EXCEPT ![r].mine = q.mine \ {i}]
    BY <1>4 DEF UndoRow
  <2>2. UNCHANGED <<settled, lost>> /\ impPc[r] = "undo"
    BY <1>4 DEF UndoRow
  <2>3. CASE Answer(r, "failed") /\ UNCHANGED outages
    BY <1>2, <2>2, <2>3
  <2>4. CASE /\ outages' = Without(i) /\ UNCHANGED impPc /\ i \notin settled
             /\ impReq' = [impReq EXCEPT ![r].mine = q.mine \ {i}]
    <3> DEFINE n == [q EXCEPT !.mine = q.mine \ {i}]
    <3>1. impReq' = [impReq EXCEPT ![r] = n] /\ impPc' = [impPc EXCEPT ![r] = "undo"]
      BY <2>2, <2>4 DEF ImportInv
    <3>2. OutagesTyped'
      BY <2>2, <2>4 DEF Without, ImportTypes, OutagesTyped
    <3> HIDE DEF q
    <3>3. n.mode = q.mode /\ n.rest = q.rest /\ n.mine = q.mine \ {i} /\ n.answer = q.answer
      BY <1>1 DEF ImportShape
    <3> HIDE DEF n
    <3>4. ImportReqTyped("undo", n)
      BY <1>1, <3>3 DEF ImportReqTyped
    <3> QED BY <3>1, <3>2, <3>4, ImporterMoves
  <2> QED BY <2>1, <2>3, <2>4
<1> QED BY <1>3, <1>4

LEMMA ImportTypesStep == ImportInv /\ ImportTypes /\ [ImportNext]_importVars => ImportTypes'
<1> SUFFICES ASSUME ImportInv, ImportTypes, [ImportNext]_importVars PROVE ImportTypes'
  OBVIOUS
<1>1. ASSUME UNCHANGED <<impPc, impReq>>, OutagesTyped' PROVE ImportTypes'
  BY <1>1 DEF ImportTypes
<1>2. ASSUME NEW i \in DOMAIN outages, Settle(i) \/ DeleteOutage(i) PROVE ImportTypes'
  <2>1. OutagesTyped'
    BY <1>2 DEF Settle, DeleteOutage, Without, ImportTypes, OutagesTyped
  <2> QED BY <1>1, <1>2, <2>1 DEF Settle, DeleteOutage
<1>3. CASE UNCHANGED importVars
  <2>1. OutagesTyped'
    BY <1>3 DEF importVars, ImportTypes, OutagesTyped
  <2> QED BY <1>1, <1>3, <2>1 DEF importVars
<1> QED BY <1>2, <1>3, ImportBegins, ImportWorks, ImportInserts, ImportUndoes DEF ImportNext, Import

LEMMA ImportTyped == ImportSpec => []ImportTypeOK
<1>1. ImportInit => ImportInv
  BY DEF ImportInit, ImportInv, ImportOK, ImportShape, ImportPcs, NoImport
<1>2. ImportInv /\ ImportTypes => ImportTypeOK
  BY DEF ImportInv, ImportPcs, ImportTypes, OutagesTyped, ImportReqTyped, BatchRows, ImportAnswers, ImportTypeOK
<1> QED BY <1>1, <1>2, ImportInvStep, ImportTypesInit, ImportTypesStep, PTL DEF ImportSpec

-----------------------------------------------------------------------------
(* Jobs                                                                    *)

\* A task dispatched for the job has computed a result.
Real(j) == \E t \in DOMAIN task : task[t].of = j /\ task[t].computed

RowLocal(j, row) ==
    /\ row.status \in Terminal => row.closed
    /\ ~ row.closed => row.task = j

JobRowOK(j) ==
    /\ jobPc[j] = "done" /\ j \in DOMAIN task /\ task[job[j].task].of = j
    /\ RowLocal(j, job[j])
    /\ job[j].status = "success" => Real(j)

\* A task writes to the job it was dispatched for, and ends well only after
\* its computation did.
TaskLocal(q) ==
    /\ q.found # NoJob => q.of = q.found
    /\ q.at \in {"succeed", "succeeded"} \/ q.state = "SUCCESS" => q.computed
    /\ q.state \in {"SUCCESS", "FAILURE", "REVOKED"} => q.at = "done"

TaskOK(t) == jobPc[t] \in {"insert", "recommit", "done"} /\ TaskLocal(task[t])

\* A poll that has read a success, the lock of the submission, and the job
\* that a retry redoes.
JobRequestOK(r, step, q) ==
    /\ step = "sync" /\ q.status = "success" => Real(q.job)
    /\ step \in {"insert", "recommit"} => r \in DOMAIN task
    /\ step = "insert" => task[r].of = r
    /\ step = "recommit" => task[r].of = q.job
    /\ step \in {"redo", "recommit"} =>
          /\ q.job \in JobRequests /\ jobPc[q.job] = "done"
          /\ q.job \in DOMAIN job => job[q.job].closed
    /\ step \in {"enqueue", "dispatch", "insert"} => enqueuer = r
    /\ step \in {"dispatch", "insert"} => \A j \in DOMAIN job : Unfinished(j) => Crowded(j)

\* More than the query's limit lies between two jobs.
Apart(i, j) == created[i] > created[j] + InflightLimit \/ created[j] > created[i] + InflightLimit

\* The inductive invariant.
JobsInv ==
    /\ JobsTypeOK
    /\ \A j \in DOMAIN job : JobRowOK(j)
    /\ \A t \in DOMAIN task : TaskOK(t)
    /\ \A j \in DOMAIN statusCache : statusCache[j] = "success" => Real(j)
    /\ \A r \in JobRequests : JobRequestOK(r, jobPc[r], jobReq[r])
    /\ \A i, j \in DOMAIN job : Unfinished(i) /\ Unfinished(j) /\ i # j => Apart(i, j)

\* The tasks only grow: what a task has computed it keeps, and a task that is
\* done stays so.
TasksGrow ==
    \A t \in DOMAIN task :
        /\ t \in DOMAIN task' /\ task'[t].of = task[t].of
        /\ task[t].computed => task'[t].computed
        /\ task[t].at = "done" => task'[t].at = "done"

LEMMA RealStays ==
    ASSUME TasksGrow, NEW j, Real(j)
    PROVE  Real(j)'
  BY DEF TasksGrow, Real

\* A row that stays in the table keeps that it was terminal.
RowsGrow ==
    \A j \in DOMAIN job' :
        j \in DOMAIN job /\ (job[j].closed => job'[j].closed) /\ RowLocal(j, job'[j])
        /\ task[job'[j].task].of = j /\ job'[j].task \in DOMAIN task
        /\ (job'[j].status = "success" => Real(j)')

LEMMA UnfinishedBefore ==
    ASSUME JobsInv, TasksGrow, RowsGrow, NEW j \in DOMAIN job', Unfinished(j)'
    PROVE  j \in DOMAIN job /\ Unfinished(j)
  BY DEF JobsInv, JobRowOK, TasksGrow, RowsGrow, Unfinished

LEMMA RowsGrowKeeps ==
    ASSUME JobsInv, TasksGrow, RowsGrow, UNCHANGED created, \A x \in JobRequests : jobPc[x] = "done" => jobPc'[x] = "done"
    PROVE  /\ \A j \in DOMAIN job' : JobRowOK(j)'
           /\ \A i, j \in DOMAIN job' : Unfinished(i)' /\ Unfinished(j)' /\ i # j => Apart(i, j)'
<1>1. ASSUME NEW j \in DOMAIN job' PROVE JobRowOK(j)'
  <2>1. JobRowOK(j) /\ j \in DOMAIN job /\ j \in JobRequests
    BY DEF RowsGrow, JobsInv, JobsTypeOK
  <2>2. (jobPc[j] = "done")' /\ (j \in DOMAIN task)'
    BY <2>1 DEF JobRowOK, TasksGrow
  <2>3. RowLocal(j, job'[j]) /\ (job'[j].status = "success" => Real(j)')
    BY DEF RowsGrow
  <2>4. task'[job'[j].task].of = j
    BY DEF RowsGrow, TasksGrow
  <2> QED BY <2>2, <2>3, <2>4 DEF JobRowOK, RowLocal
<1>2. ASSUME NEW i \in DOMAIN job', NEW j \in DOMAIN job', Unfinished(i)', Unfinished(j)', i # j PROVE Apart(i, j)'
  BY <1>2, UnfinishedBefore DEF JobsInv, Apart
<1> QED BY <1>1, <1>2

\* A worker's step on the task t.
LEMMA TaskMoves ==
    ASSUME JobsInv, JobsTypeOK', NEW t \in DOMAIN task, NEW n, task' = [task EXCEPT ![t] = n],
           n.of = task[t].of, task[t].computed => n.computed, task[t].at = "done" => n.at = "done", TaskLocal(n),
           RowsGrow, UNCHANGED <<statusCache, enqueuer, stored, created, jobPc, jobReq>>
    PROVE  JobsInv'
<1>1. /\ DOMAIN task' = DOMAIN task /\ task'[t] = n
      /\ \A x \in DOMAIN task \ {t} : task'[x] = task[x]
  OBVIOUS
<1>2. TasksGrow
  BY <1>1 DEF TasksGrow
<1>3. /\ \A j \in DOMAIN job' : JobRowOK(j)'
      /\ \A i, j \in DOMAIN job' : Unfinished(i)' /\ Unfinished(j)' /\ i # j => Apart(i, j)'
  BY <1>2, RowsGrowKeeps
<1>4. ASSUME NEW x \in DOMAIN task' PROVE TaskOK(x)'
  <2>1. CASE x = t
    BY <1>1, <2>1 DEF TaskOK, JobsInv, TaskLocal
  <2>2. CASE x # t
    BY <1>1, <2>2 DEF TaskOK, JobsInv, TaskLocal
  <2> QED BY <2>1, <2>2
<1>5. ASSUME NEW j \in DOMAIN statusCache', statusCache'[j] = "success" PROVE Real(j)'
  BY <1>2, <1>5, RealStays DEF JobsInv
<1>6. ASSUME NEW r \in JobRequests PROVE JobRequestOK(r, jobPc[r], jobReq[r])'
  <2> DEFINE q == jobReq[r]
             step == jobPc[r]
  <2>1. JobRequestOK(r, step, q) /\ step' = step /\ q' = q
    BY DEF JobsInv
  <2>2. step = "sync" /\ q.status = "success" => Real(q.job)'
    BY <2>1, <1>2, RealStays DEF JobRequestOK
  <2>3. step \in {"redo", "recommit"} => (q.job \in DOMAIN job => job[q.job].closed)'
    BY <2>1 DEF JobRequestOK, RowsGrow
  <2>4. step \in {"dispatch", "insert"} => \A j \in DOMAIN job' : Unfinished(j)' => Crowded(j)'
    BY <2>1, <1>2, UnfinishedBefore DEF JobRequestOK, Crowded
  <2>5. \A x \in DOMAIN task : task'[x].of = task[x].of
    BY <1>2 DEF TasksGrow
  <2>6. UNCHANGED <<enqueuer, jobPc>> /\ DOMAIN task' = DOMAIN task
    BY <1>1
  <2> HIDE DEF q, step
  <2>7. JobRequestOK(r, step, q)'
    BY <2>1, <2>2, <2>3, <2>4, <2>5, <2>6 DEF JobRequestOK
  <2> QED BY <2>1, <2>7 DEF q, step
<1> QED BY <1>3, <1>4, <1>5, <1>6 DEF JobsInv

\* A step of the request r, which may make the task r.
OwnTask(r) ==
    \A t \in DOMAIN task' : \/ t \in DOMAIN task /\ task'[t] = task[t]
                            \/ t = r /\ TaskLocal(task'[t])

LockMoves(r) ==
    \/ UNCHANGED enqueuer
    \/ enqueuer = r /\ enqueuer' = NoJob
    \/ enqueuer = NoJob /\ enqueuer' = r

\* What the other requests rely on.
LEMMA OthersKeep ==
    ASSUME JobsInv, TasksGrow, NEW r \in JobRequests, LockMoves(r),
           \A y \in JobRequests : jobPc[y] = "done" => jobPc'[y] = "done",
           \A j \in DOMAIN job' : j \in DOMAIN job => (job[j].closed => job'[j].closed),
           \A j \in DOMAIN job' \ DOMAIN job : jobPc[j] # "done",
           NEW x \in JobRequests, jobPc'[x] = jobPc[x], jobReq'[x] = jobReq[x],
           jobPc[x] \in {"dispatch", "insert"} => \A j \in DOMAIN job' : Unfinished(j)' => Crowded(j)',
           x # r
    PROVE  JobRequestOK(x, jobPc[x], jobReq[x])'
<1> DEFINE q == jobReq[x]
           step == jobPc[x]
<1>1. JobRequestOK(x, step, q) /\ step' = step /\ q' = q
  BY DEF JobsInv
<1>2. step = "sync" /\ q.status = "success" => Real(q.job)'
  BY <1>1, RealStays DEF JobRequestOK
<1>3. step \in {"redo", "recommit"} => /\ q.job \in JobRequests /\ jobPc'[q.job] = "done"
                                       /\ q.job \in DOMAIN job' => job'[q.job].closed
  BY <1>1 DEF JobRequestOK
<1>4. step \in {"enqueue", "dispatch", "insert"} => enqueuer' = x
  BY <1>1, JobsAssumption DEF JobRequestOK, LockMoves
<1>5. \A t \in DOMAIN task : t \in DOMAIN task' /\ task'[t].of = task[t].of
  BY DEF TasksGrow
<1>6. step \in {"dispatch", "insert"} => \A j \in DOMAIN job' : Unfinished(j)' => Crowded(j)'
  OBVIOUS
<1> HIDE DEF q, step
<1>7. JobRequestOK(x, step, q)'
  BY <1>1, <1>2, <1>3, <1>4, <1>5, <1>6 DEF JobRequestOK
<1> QED BY <1>1, <1>7 DEF q, step

LEMMA RequestMoves ==
    ASSUME JobsInv, JobsTypeOK', NEW r \in JobRequests, jobPc[r] # "done", NEW step, NEW q,
           jobPc' = [jobPc EXCEPT ![r] = step], jobReq' = [jobReq EXCEPT ![r] = q],
           TasksGrow, OwnTask(r), r \in DOMAIN task' => step \in {"insert", "recommit", "done"},
           RowsGrow, LockMoves(r), UNCHANGED <<stored, created>>,
           \A j \in DOMAIN statusCache' : statusCache'[j] = "success" => Real(j)',
           JobRequestOK(r, step, q)'
    PROVE  JobsInv'
<1>1. /\ jobPc'[r] = step /\ jobReq'[r] = q
      /\ \A x \in JobRequests \ {r} : jobPc'[x] = jobPc[x] /\ jobReq'[x] = jobReq[x]
  BY DEF JobsInv, JobsTypeOK
<1>2. \A x \in JobRequests : jobPc[x] = "done" => jobPc'[x] = "done"
  BY <1>1
<1>3. /\ \A j \in DOMAIN job' : JobRowOK(j)'
      /\ \A i, j \in DOMAIN job' : Unfinished(i)' /\ Unfinished(j)' /\ i # j => Apart(i, j)'
  BY <1>2, RowsGrowKeeps
<1>4. ASSUME NEW t \in DOMAIN task' PROVE TaskOK(t)'
  <2>1. CASE t = r
    <3>1. TaskLocal(task'[t])
      BY <2>1 DEF OwnTask, JobsInv, TaskOK
    <3> QED BY <1>1, <2>1, <3>1 DEF TaskOK, TaskLocal
  <2>2. CASE t # r
    <3>1. t \in DOMAIN task /\ task'[t] = task[t] /\ TaskOK(t) /\ t \in JobRequests
      BY <2>2 DEF OwnTask, JobsInv, JobsTypeOK
    <3> QED BY <1>1, <2>2, <3>1 DEF TaskOK, TaskLocal
  <2> QED BY <2>1, <2>2
<1>5. ASSUME NEW x \in JobRequests PROVE JobRequestOK(x, jobPc[x], jobReq[x])'
  <2>1. CASE x = r
    <3>1. jobPc'[x] = step /\ jobReq'[x] = q
      BY <1>1, <2>1
    <3> QED BY <2>1, <3>1 DEF JobRequestOK
  <2>2. CASE x # r
    <3>1. jobPc'[x] = jobPc[x] /\ jobReq'[x] = jobReq[x]
      BY <1>1, <2>2
    <3>2. \A j \in DOMAIN job' : j \in DOMAIN job /\ (job[j].closed => job'[j].closed)
      BY DEF RowsGrow
    <3>3. jobPc[x] \in {"dispatch", "insert"} => \A j \in DOMAIN job' : Unfinished(j)' => Crowded(j)'
      BY UnfinishedBefore DEF JobsInv, JobRequestOK, Crowded
    <3> QED BY <1>2, <2>2, <3>1, <3>2, <3>3, OthersKeep
  <2> QED BY <2>1, <2>2
<1> QED BY <1>3, <1>4, <1>5 DEF JobsInv

LEMMA InsertJobKeeps ==
    ASSUME JobsInv, JobsTypeOK', NEW r \in JobRequests, InsertJob(r)
    PROVE  JobsInv'
<1>1. /\ jobPc[r] = "insert" /\ r \in DOMAIN task /\ task[r].of = r /\ enqueuer = r
      /\ \A j \in DOMAIN job : Unfinished(j) => Crowded(j)
  BY DEF InsertJob, JobsInv, JobRequestOK
<1>2. /\ UNCHANGED <<task, statusCache>> /\ enqueuer' = NoJob
      /\ jobPc'[r] = "done" /\ \A x \in JobRequests \ {r} : jobPc'[x] = jobPc[x] /\ jobReq'[x] = jobReq[x]
  BY <1>1 DEF InsertJob, JobEnd, JobGoto, JobsInv, JobsTypeOK
<1>3. DOMAIN job' = DOMAIN job \cup {r} /\ job'[r] = NewJob(r) /\ \A j \in DOMAIN job \ {r} : job'[j] = job[j]
  BY DEF InsertJob, Put
<1>4. r \notin DOMAIN job
  BY <1>1 DEF JobsInv, JobRowOK
<1>5. TasksGrow /\ LockMoves(r)
  BY <1>1, <1>2 DEF TasksGrow, LockMoves
<1>6. \A x \in JobRequests : jobPc[x] = "done" => jobPc'[x] = "done"
  BY <1>2
<1>7. /\ job'[r].status = "pending" /\ job'[r].task = r /\ ~ job'[r].closed
  BY <1>3 DEF NewJob
<1>8. ASSUME NEW j \in DOMAIN job' PROVE JobRowOK(j)'
  <2>1. CASE j = r
    BY <1>1, <1>2, <1>7, <2>1 DEF JobRowOK, RowLocal, Terminal
  <2>2. CASE j # r
    <3>1. JobRowOK(j) /\ job'[j] = job[j] /\ j \in JobRequests
      BY <1>3, <2>2 DEF JobsInv, JobsTypeOK
    <3>2. Real(j) => Real(j)'
      BY <1>5, RealStays
    <3> QED BY <1>2, <1>6, <3>1, <3>2 DEF JobRowOK, RowLocal
  <2> QED BY <2>1, <2>2
<1>9. ASSUME NEW i \in DOMAIN job', NEW j \in DOMAIN job', Unfinished(i)', Unfinished(j)', i # j PROVE Apart(i, j)'
  <2>1. \A x \in DOMAIN job \ {r} : Unfinished(x)' => Unfinished(x)
    BY <1>2, <1>3 DEF Unfinished
  <2>2. created'[r] = stored /\ \A x \in DOMAIN job \ {r} : created'[x] = created[x]
    BY DEF InsertJob, JobsInv, JobsTypeOK
  <2>3. CASE i = r \/ j = r
    BY <1>1, <1>3, <1>9, <2>1, <2>2, <2>3 DEF Crowded, Apart
  <2>4. CASE i # r /\ j # r
    BY <1>3, <1>9, <2>1, <2>2, <2>4 DEF JobsInv, Apart
  <2> QED BY <2>3, <2>4
<1>10. ASSUME NEW t \in DOMAIN task' PROVE TaskOK(t)'
  <2>1. t \in DOMAIN task /\ TaskOK(t) /\ t \in JobRequests /\ task'[t] = task[t]
    BY <1>2 DEF JobsInv, JobsTypeOK
  <2> QED BY <1>2, <2>1 DEF TaskOK, TaskLocal
<1>11. ASSUME NEW j \in DOMAIN statusCache', statusCache'[j] = "success" PROVE Real(j)'
  BY <1>2, <1>5, <1>11, RealStays DEF JobsInv
<1>12. ASSUME NEW x \in JobRequests PROVE JobRequestOK(x, jobPc[x], jobReq[x])'
  <2>1. CASE x = r
    <3>1. jobPc'[x] = "done"
      BY <1>2, <2>1
    <3> QED BY <3>1 DEF JobRequestOK
  <2>2. CASE x # r
    <3>1. jobPc[x] \notin {"dispatch", "insert"}
      BY <1>1, <2>2 DEF JobsInv, JobRequestOK
    <3>2. jobPc'[x] = jobPc[x] /\ jobReq'[x] = jobReq[x]
      BY <1>2, <2>2
    <3>3. /\ \A j \in DOMAIN job' : j \in DOMAIN job => (job[j].closed => job'[j].closed)
          /\ \A j \in DOMAIN job' \ DOMAIN job : jobPc[j] # "done"
      BY <1>1, <1>3, <1>4
    <3> QED BY <1>5, <1>6, <2>2, <3>1, <3>2, <3>3, OthersKeep
  <2> QED BY <2>1, <2>2
<1> QED BY <1>8, <1>9, <1>10, <1>11, <1>12 DEF JobsInv

-----------------------------------------------------------------------------

RowsTyped == DOMAIN job \subseteq JobRequests /\ \A j \in DOMAIN job : job[j] \in Job /\ job[j].task \in DOMAIN task

LEMMA StatusRow ==
    ASSUME NEW row \in Job, NEW s \in JobStatus
    PROVE  LET n == WithStatus(row, s)
               m == [n EXCEPT !.finished = TRUE]
           IN  /\ n \in Job /\ n.status = s /\ n.task = row.task /\ (n.closed <=> row.closed \/ s \in Terminal)
               /\ m \in Job /\ m.status = s /\ m.task = row.task /\ (m.closed <=> row.closed \/ s \in Terminal)
<1> DEFINE b == row.closed \/ s \in Terminal
           l == [row EXCEPT !.status = s]
           n == [l EXCEPT !.closed = b]
           t == TRUE
           m == [n EXCEPT !.finished = t]
<1>1. b \in BOOLEAN /\ WithStatus(row, s) = n /\ t \in BOOLEAN
  <2>1. b \in BOOLEAN /\ t \in BOOLEAN
    OBVIOUS
  <2>2. WithStatus(row, s) = [row EXCEPT !.status = s, !.closed = b]
    BY DEF WithStatus, Job
  <2> HIDE DEF b, t
  <2>3. [row EXCEPT !.status = s, !.closed = b] = n
    OBVIOUS
  <2> QED BY <2>1, <2>2, <2>3
<1> HIDE DEF b, t
<1>2. l \in Job /\ l.status = s /\ l.task = row.task
  BY DEF Job
<1> HIDE DEF l
<1>3. n \in Job /\ n.status = s /\ n.task = row.task /\ n.closed = b
  BY <1>1, <1>2 DEF Job
<1> HIDE DEF n
<1>4. m \in Job /\ m.status = s /\ m.task = row.task /\ m.closed = b
  BY <1>1, <1>3 DEF Job
<1>5. m = [n EXCEPT !.finished = TRUE]
  BY DEF t
<1> HIDE DEF m
<1>6. (n.closed <=> row.closed \/ s \in Terminal) /\ (m.closed <=> row.closed \/ s \in Terminal)
  BY <1>3, <1>4 DEF b
<1>7. [WithStatus(row, s) EXCEPT !.finished = TRUE] = m
  BY <1>1, <1>5
<1> QED BY <1>1, <1>3, <1>4, <1>6, <1>7

\* The tables after a step that stores one row, or none.
LEMMA SameRows ==
    ASSUME JobsInv, TasksGrow, UNCHANGED job
    PROVE  RowsGrow /\ RowsTyped'
<1>1. ASSUME NEW j \in DOMAIN job' PROVE job'[j].status = "success" => Real(j)'
  <2>1. job[j].status = "success" => Real(j)
    BY DEF JobsInv, JobRowOK
  <2> QED BY <2>1, RealStays
<1>2. RowsGrow
  BY <1>1 DEF RowsGrow, JobsInv, JobsTypeOK, JobRowOK
<1>3. RowsTyped'
  BY DEF RowsTyped, JobsInv, JobsTypeOK, TasksGrow
<1> QED BY <1>2, <1>3

LEMMA OneRow ==
    ASSUME JobsInv, TasksGrow, NEW j \in DOMAIN job, NEW row \in Job, job' = Put(job, j, row),
           job[j].closed => row.closed, RowLocal(j, row), row.task \in DOMAIN task, task[row.task].of = j,
           row.status = "success" => Real(j)'
    PROVE  RowsGrow /\ RowsTyped'
<1>1. DOMAIN job' = DOMAIN job /\ job'[j] = row /\ \A x \in DOMAIN job \ {j} : job'[x] = job[x]
  BY DEF Put
<1>2. ASSUME NEW x \in DOMAIN job'
      PROVE  /\ x \in DOMAIN job /\ (job[x].closed => job'[x].closed) /\ RowLocal(x, job'[x])
             /\ task[job'[x].task].of = x /\ job'[x].task \in DOMAIN task
             /\ (job'[x].status = "success" => Real(x)')
             /\ job'[x] \in Job /\ x \in JobRequests
  <2>1. CASE x = j
    BY <1>1, <2>1 DEF JobsInv, JobsTypeOK
  <2>2. CASE x # j
    <3>1. job'[x] = job[x] /\ x \in DOMAIN job /\ JobRowOK(x) /\ job[x] \in Job /\ job[x].task \in DOMAIN task
          /\ x \in JobRequests
      BY <1>1, <2>2 DEF JobsInv, JobsTypeOK
    <3>2. Real(x) => Real(x)'
      BY RealStays
    <3> QED BY <3>1, <3>2 DEF JobRowOK
  <2> QED BY <2>1, <2>2
<1>3. RowsGrow
  BY <1>2 DEF RowsGrow
<1>4. RowsTyped'
  BY <1>2 DEF RowsTyped, TasksGrow
<1> QED BY <1>3, <1>4

LEMMA StatusPut ==
    ASSUME JobsInv, TasksGrow, NEW j \in DOMAIN job, NEW s \in JobStatus, job' = Put(job, j, WithStatus(job[j], s)),
           s = "success" => Real(j)'
    PROVE  RowsGrow /\ RowsTyped'
<1> DEFINE row == WithStatus(job[j], s)
<1>1. job[j] \in Job /\ RowLocal(j, job[j]) /\ job[j].task \in DOMAIN task /\ task[job[j].task].of = j
  BY DEF JobsInv, JobsTypeOK, JobRowOK
<1>2. row \in Job /\ row.status = s /\ row.task = job[j].task /\ (row.closed <=> job[j].closed \/ s \in Terminal)
  BY <1>1, StatusRow
<1>3. job' = Put(job, j, row)
  OBVIOUS
<1> HIDE DEF row
<1>4. RowLocal(j, row)
  BY <1>1, <1>2 DEF RowLocal
<1> QED BY <1>1, <1>2, <1>3, <1>4, OneRow

LEMMA LeftRows ==
    ASSUME JobsInv, TasksGrow, NEW K, job' = Drop(job, K)
    PROVE  RowsGrow /\ RowsTyped'
<1>1. \A x \in DOMAIN job' : x \in DOMAIN job /\ job'[x] = job[x]
  BY DEF Drop
<1>2. ASSUME NEW j \in DOMAIN job' PROVE job'[j].status = "success" => Real(j)'
  <2>1. job[j].status = "success" => Real(j)
    BY <1>1 DEF JobsInv, JobRowOK
  <2> QED BY <1>1, <2>1, RealStays
<1>3. RowsGrow
  BY <1>1, <1>2 DEF RowsGrow, JobsInv, JobsTypeOK, JobRowOK
<1>4. RowsTyped'
  BY <1>1 DEF RowsTyped, JobsInv, JobsTypeOK, TasksGrow
<1> QED BY <1>3, <1>4

\* A worker's step, from the record that the task gets.
TaskTurns(t, n) ==
    /\ n \in Task /\ n.of = task[t].of /\ (task[t].computed => n.computed)
    /\ (task[t].at = "done" => n.at = "done") /\ TaskLocal(n)

LEMMA TaskStep ==
    ASSUME JobsInv, NEW t \in DOMAIN task, NEW n, task' = [task EXCEPT ![t] = n], TaskTurns(t, n),
           RowsGrow, RowsTyped', crashes' \in Nat,
           UNCHANGED <<cancelled, statusCache, enqueuer, stored, created, jobPc, jobReq>>
    PROVE  JobsInv'
<1>1. DOMAIN task' = DOMAIN task /\ \A x \in DOMAIN task' : task'[x] \in Task
  BY DEF TaskTurns, JobsInv, JobsTypeOK
<1>2. JobsTypeOK'
  BY <1>1 DEF JobsInv, JobsTypeOK, RowsTyped
<1> QED BY <1>2, TaskMoves DEF TaskTurns

LEMMA TaskGrows ==
    ASSUME NEW t \in DOMAIN task, NEW n, task' = [task EXCEPT ![t] = n], TaskTurns(t, n)
    PROVE  TasksGrow
<1>1. /\ DOMAIN task' = DOMAIN task /\ task'[t] = n
      /\ \A x \in DOMAIN task \ {t} : task'[x] = task[x]
  OBVIOUS
<1> QED BY <1>1 DEF TasksGrow, TaskTurns

LEMMA TaskAlone ==
    ASSUME JobsInv, NEW t \in DOMAIN task, NEW n, task' = [task EXCEPT ![t] = n], TaskTurns(t, n),
           UNCHANGED job, crashes' \in Nat,
           UNCHANGED <<cancelled, statusCache, enqueuer, stored, created, jobPc, jobReq>>
    PROVE  JobsInv'
  BY TaskStep, TaskGrows, SameRows

\* Storing a status: in the job that the task was dispatched for.
LEMMA MarkKeeps ==
    ASSUME JobsInv, NEW t \in DOMAIN task, NEW at, task' = [task EXCEPT ![t].at = at, ![t].found = NoJob],
           at \in {"compute", "succeeded", "failed"}, task[t].at \notin {"queued", "done"},
           at = "succeeded" => task[t].computed,
           NEW s \in {"started", "success", "failure"}, s = "success" => task[t].computed,
           \/ job' = Marked(t, WithStatus(Found(t), s))
           \/ job' = Marked(t, [WithStatus(Found(t), s) EXCEPT !.finished = TRUE]),
           UNCHANGED <<crashes, cancelled, statusCache, enqueuer, stored, created, jobPc, jobReq>>
    PROVE  JobsInv'
<1> DEFINE q == task[t]
           l == [q EXCEPT !.at = at]
           n == [l EXCEPT !.found = NoJob]
<1>j. PICK j : j = q.found
  OBVIOUS
<1>1. q \in Task /\ TaskLocal(q) /\ task' = [task EXCEPT ![t] = n] /\ crashes \in Nat
  BY DEF JobsInv, JobsTypeOK, TaskOK
<1>2. TaskTurns(t, n)
  <2> HIDE DEF q
  <2>1. l \in Task /\ l.at = at /\ l.of = q.of /\ l.computed = q.computed /\ l.state = q.state
    BY <1>1 DEF Task
  <2> HIDE DEF l
  <2>2. n \in Task /\ n.at = at /\ n.of = q.of /\ n.computed = q.computed /\ n.state = q.state /\ n.found = NoJob
    BY <2>1 DEF Task
  <2> HIDE DEF n
  <2> QED BY <1>1, <2>2 DEF TaskTurns, TaskLocal, q
<1> HIDE DEF n
<1>3. TasksGrow
  BY <1>1, <1>2, TaskGrows
<1>4. CASE j \notin DOMAIN job
  <2>1. UNCHANGED job
    BY <1>4, <1>j DEF Marked
  <2> QED BY <1>1, <1>2, <1>3, <2>1, SameRows, TaskStep
<1>5. CASE j \in DOMAIN job
  <2>1. /\ job[j] \in Job /\ RowLocal(j, job[j]) /\ job[j].task \in DOMAIN task /\ task[job[j].task].of = j
        /\ j \in JobRequests /\ s \in JobStatus
    BY <1>5 DEF JobsInv, JobsTypeOK, JobRowOK, JobStatus
  <2>2. q.of = j
    BY <1>1, <1>j, <2>1, JobsAssumption DEF TaskLocal
  <2>3. s = "success" => Real(j)
    BY <2>2 DEF Real
  <2> DEFINE row == IF job' = Marked(t, WithStatus(job[j], s))
                    THEN WithStatus(job[j], s)
                    ELSE [WithStatus(job[j], s) EXCEPT !.finished = TRUE]
  <2>4. job' = Put(job, j, row)
    BY <1>5, <1>j DEF Marked, Found
  <2>5. row \in Job /\ row.status = s /\ row.task = job[j].task /\ (row.closed <=> job[j].closed \/ s \in Terminal)
    BY <2>1, StatusRow
  <2> HIDE DEF row
  <2>6. RowLocal(j, row) /\ (row.status = "success" => Real(j)')
    BY <1>3, <2>1, <2>3, <2>5, RealStays DEF RowLocal
  <2>7. RowsGrow /\ RowsTyped'
    BY <1>3, <1>5, <2>1, <2>4, <2>5, <2>6, OneRow
  <2> QED BY <1>1, <1>2, <2>7, TaskStep
<1> QED BY <1>4, <1>5

\* _get_job: the job found is one that has this task, or none.
LEMMA FoundJob ==
    ASSUME NEW t
    PROVE  JobOf(t) = NoJob \/ (JobOf(t) \in DOMAIN job /\ job[JobOf(t)].task = t)
<1>1. CASE \E i \in DOMAIN job : job[i].task = t
  BY <1>1 DEF JobOf
<1>2. CASE ~ \E i \in DOMAIN job : job[i].task = t
  BY <1>2 DEF JobOf
<1> QED BY <1>1, <1>2

LEMMA RunTaskKeeps ==
    ASSUME JobsInv, NEW t \in DOMAIN task, RunTask(t)
    PROVE  JobsInv'
<1> DEFINE q == task[t]
<1>1. q \in Task /\ TaskLocal(q) /\ crashes \in Nat
  BY DEF JobsInv, JobsTypeOK, TaskOK
<1>2. CASE TaskReceived(t)
  <2> DEFINE st == IF t \in cancelled THEN "REVOKED" ELSE "STARTED"
             at == IF t \in cancelled THEN "done" ELSE "find"
             l == [q EXCEPT !.state = st]
             n == [l EXCEPT !.at = at]
  <2>1. /\ task' = [task EXCEPT ![t] = n] /\ q.at = "queued"
        /\ UNCHANGED <<job, crashes, cancelled, statusCache, enqueuer, stored, created, jobPc, jobReq>>
    BY <1>2 DEF TaskReceived
  <2>2. (st = "REVOKED" /\ at = "done") \/ (st = "STARTED" /\ at = "find")
    OBVIOUS
  <2> HIDE DEF q, st, at
  <2>3. l \in Task /\ l.state = st /\ l.of = q.of /\ l.computed = q.computed /\ l.found = q.found
    BY <1>1, <2>2 DEF Task, CeleryStates
  <2> HIDE DEF l
  <2>4. n \in Task /\ n.at = at /\ n.state = st /\ n.of = q.of /\ n.computed = q.computed /\ n.found = q.found
    BY <2>2, <2>3 DEF Task
  <2> HIDE DEF n
  <2>5. TaskTurns(t, n)
    BY <1>1, <2>1, <2>2, <2>4 DEF TaskTurns, TaskLocal, q
  <2> QED BY <1>1, <2>1, <2>5, TaskAlone
<1>3. CASE GetJob(t)
  <2>1. PICK o \in {"begin", "succeed", "fail"} :
          /\ (q.at = "find" => o = "begin") /\ (q.at # "find" => o # "begin")
          /\ task' = [task EXCEPT ![t].found = JobOf(t), ![t].at = o, ![t].computed = @ \/ o = "succeed"]
    BY <1>3 DEF GetJob
  <2>2. /\ q.at \in {"find", "compute"}
        /\ UNCHANGED <<job, crashes, cancelled, statusCache, enqueuer, stored, created, jobPc, jobReq>>
    BY <1>3 DEF GetJob
  <2> DEFINE f == JobOf(t)
             b == q.computed \/ o = "succeed"
             l == [q EXCEPT !.found = f]
             m == [l EXCEPT !.at = o]
             n == [m EXCEPT !.computed = b]
  <2>3. f = NoJob \/ (f \in JobRequests /\ q.of = f)
    BY FoundJob DEF JobsInv, JobsTypeOK, JobRowOK
  <2>4. task' = [task EXCEPT ![t] = n]
    BY <1>1, <2>1 DEF Task
  <2>5. b \in BOOLEAN /\ (b <=> q.computed \/ o = "succeed")
    BY <1>1 DEF Task
  <2> HIDE DEF q, f, b
  <2>6. l \in Task /\ l.found = f /\ l.of = q.of /\ l.state = q.state
    BY <1>1, <2>3 DEF Task
  <2> HIDE DEF l
  <2>7. m \in Task /\ m.found = f /\ m.of = q.of /\ m.state = q.state /\ m.at = o
    BY <2>6 DEF Task
  <2> HIDE DEF m
  <2>8. n \in Task /\ n.found = f /\ n.of = q.of /\ n.state = q.state /\ n.at = o /\ n.computed = b
    BY <2>5, <2>7 DEF Task
  <2> HIDE DEF n
  <2>9. TaskTurns(t, n)
    BY <1>1, <2>2, <2>3, <2>5, <2>8 DEF TaskTurns, TaskLocal, q
  <2> QED BY <1>1, <2>2, <2>4, <2>9, TaskAlone
<1>4. CASE MarkStarted(t)
  BY <1>1, <1>4, MarkKeeps DEF MarkStarted
<1>5. CASE MarkSuccess(t)
  <2>1. q.computed
    BY <1>1, <1>5 DEF MarkSuccess, TaskLocal
  <2> QED BY <1>1, <1>5, <2>1, MarkKeeps DEF MarkSuccess
<1>6. CASE MarkFailure(t)
  BY <1>1, <1>6, MarkKeeps DEF MarkFailure
<1>7. CASE TaskEnds(t)
  <2>a. /\ q.at \in {"succeeded", "failed"}
        /\ UNCHANGED <<job, crashes, cancelled, statusCache, enqueuer, stored, created, jobPc, jobReq>>
    BY <1>7 DEF TaskEnds
  <2> DEFINE k == q.tries + 1
             l1 == [q EXCEPT !.state = "RETRY"]
             m1 == [l1 EXCEPT !.at = "queued"]
             n1 == [m1 EXCEPT !.tries = k]
             st == IF q.at = "failed" THEN "FAILURE" ELSE "SUCCESS"
             l2 == [q EXCEPT !.state = st]
             n2 == [l2 EXCEPT !.at = "done"]
  <2>1. task' = [task EXCEPT ![t] = n1] \/ task' = [task EXCEPT ![t] = n2]
    BY <1>7 DEF TaskEnds
  <2>2. k \in Nat /\ st \in {"FAILURE", "SUCCESS"} /\ (st = "SUCCESS" => q.at = "succeeded")
    BY <1>1, <2>a DEF Task
  <2> HIDE DEF q, k, st
  <2>3. TaskTurns(t, n1)
    <3>1. l1 \in Task /\ l1.of = q.of /\ l1.computed = q.computed /\ l1.found = q.found /\ l1.state = "RETRY"
      BY <1>1 DEF Task, CeleryStates
    <3> HIDE DEF l1
    <3>2. /\ m1 \in Task /\ m1.of = q.of /\ m1.computed = q.computed /\ m1.found = q.found /\ m1.state = "RETRY"
          /\ m1.at = "queued"
      BY <3>1 DEF Task
    <3> HIDE DEF m1
    <3>3. /\ n1 \in Task /\ n1.of = q.of /\ n1.computed = q.computed /\ n1.found = q.found /\ n1.state = "RETRY"
          /\ n1.at = "queued"
      BY <2>2, <3>2 DEF Task
    <3> HIDE DEF n1
    <3> QED BY <1>1, <2>a, <3>3 DEF TaskTurns, TaskLocal, q
  <2>4. TaskTurns(t, n2)
    <3>1. l2 \in Task /\ l2.of = q.of /\ l2.computed = q.computed /\ l2.found = q.found /\ l2.state = st
      BY <1>1, <2>2 DEF Task, CeleryStates
    <3> HIDE DEF l2
    <3>2. /\ n2 \in Task /\ n2.of = q.of /\ n2.computed = q.computed /\ n2.found = q.found /\ n2.state = st
          /\ n2.at = "done"
      BY <3>1 DEF Task
    <3> HIDE DEF n2
    <3> QED BY <1>1, <2>2, <3>2 DEF TaskTurns, TaskLocal, q
  <2> HIDE DEF n1, n2
  <2> QED BY <1>1, <2>a, <2>1, <2>3, <2>4, TaskAlone
<1>10. CASE TransientFailure(t)
  <2> DEFINE l == [q EXCEPT !.state = "FAILURE"]
             n == [l EXCEPT !.at = "done"]
  <2>1. /\ task' = [task EXCEPT ![t] = n] /\ q.at = "compute"
        /\ UNCHANGED <<job, crashes, cancelled, statusCache, enqueuer, stored, created, jobPc, jobReq>>
    BY <1>10 DEF TransientFailure
  <2> HIDE DEF q
  <2>2. l \in Task /\ l.of = q.of /\ l.computed = q.computed /\ l.found = q.found /\ l.state = "FAILURE"
    BY <1>1 DEF Task, CeleryStates
  <2> HIDE DEF l
  <2>3. /\ n \in Task /\ n.of = q.of /\ n.computed = q.computed /\ n.found = q.found /\ n.state = "FAILURE"
        /\ n.at = "done"
    BY <2>2 DEF Task
  <2> HIDE DEF n
  <2>4. TaskTurns(t, n)
    BY <1>1, <2>1, <2>3 DEF TaskTurns, TaskLocal, q
  <2> QED BY <1>1, <2>1, <2>4, TaskAlone
<1>8. CASE WorkerCrash(t)
  <2> DEFINE l == [q EXCEPT !.at = "queued"]
             n == [l EXCEPT !.found = NoJob]
  <2>1. /\ task' = [task EXCEPT ![t] = n] /\ q.at # "done" /\ crashes' = crashes + 1
        /\ UNCHANGED <<job, cancelled, statusCache, enqueuer, stored, created, jobPc, jobReq>>
    BY <1>8 DEF WorkerCrash
  <2>2. crashes' \in Nat
    BY <1>1, <2>1
  <2> HIDE DEF q
  <2>3. l \in Task /\ l.at = "queued" /\ l.of = q.of /\ l.computed = q.computed /\ l.state = q.state
    BY <1>1 DEF Task
  <2> HIDE DEF l
  <2>4. n \in Task /\ n.at = "queued" /\ n.of = q.of /\ n.computed = q.computed /\ n.state = q.state /\ n.found = NoJob
    BY <2>3 DEF Task
  <2> HIDE DEF n
  <2>5. TaskTurns(t, n)
    BY <1>1, <2>1, <2>4 DEF TaskTurns, TaskLocal, q
  <2> QED BY <2>1, <2>2, <2>5, TaskAlone
<1>9. CASE ResultExpires(t)
  <2> DEFINE n == [q EXCEPT !.state = "PENDING"]
  <2>1. /\ task' = [task EXCEPT ![t] = n] /\ q.at = "done"
        /\ UNCHANGED <<job, crashes, cancelled, statusCache, enqueuer, stored, created, jobPc, jobReq>>
    BY <1>9 DEF ResultExpires
  <2> HIDE DEF q
  <2>2. n \in Task /\ n.at = q.at /\ n.of = q.of /\ n.computed = q.computed /\ n.state = "PENDING" /\ n.found = q.found
    BY <1>1 DEF Task, CeleryStates
  <2> HIDE DEF n
  <2>3. TaskTurns(t, n)
    BY <1>1, <2>1, <2>2 DEF TaskTurns, TaskLocal, q
  <2> QED BY <1>1, <2>1, <2>3, TaskAlone
<1> QED BY <1>2, <1>3, <1>4, <1>5, <1>6, <1>7, <1>8, <1>9, <1>10 DEF RunTask

-----------------------------------------------------------------------------

CacheTyped == DOMAIN statusCache \subseteq JobRequests /\ \A j \in DOMAIN statusCache : statusCache[j] \in JobStatus
CacheReal == \A j \in DOMAIN statusCache : statusCache[j] = "success" => Real(j)

LEMMA RequestStep ==
    ASSUME JobsInv, NEW r \in JobRequests, jobPc[r] # "done", NEW step \in JobSteps, NEW q \in JobLocals,
           jobPc' = [jobPc EXCEPT ![r] = step], jobReq' = [jobReq EXCEPT ![r] = q],
           TasksGrow, OwnTask(r), DOMAIN task' \subseteq JobRequests, \A t \in DOMAIN task' : task'[t] \in Task,
           r \in DOMAIN task' => step \in {"insert", "recommit", "done"},
           RowsGrow, RowsTyped', LockMoves(r), UNCHANGED <<crashes, stored, created>>, cancelled' \subseteq DOMAIN task',
           CacheTyped', CacheReal', JobRequestOK(r, step, q)'
    PROVE  JobsInv'
<1>1. enqueuer' \in JobRequests \cup {NoJob}
  BY DEF LockMoves, JobsInv, JobsTypeOK
<1>2. jobPc' \in [JobRequests -> JobSteps] /\ jobReq' \in [JobRequests -> JobLocals] /\ crashes' \in Nat
  BY DEF JobsInv, JobsTypeOK
<1>3. JobsTypeOK'
  BY <1>1, <1>2 DEF JobsInv, JobsTypeOK, RowsTyped, CacheTyped
<1>4. \A j \in DOMAIN statusCache' : statusCache'[j] = "success" => Real(j)'
  BY DEF CacheReal
<1> QED BY <1>3, <1>4, RequestMoves

LEMMA NoTaskMade ==
    ASSUME JobsInv, UNCHANGED task, NEW r
    PROVE  /\ TasksGrow /\ OwnTask(r) /\ DOMAIN task' \subseteq JobRequests
           /\ \A t \in DOMAIN task' : task'[t] \in Task
           /\ r \in DOMAIN task' => jobPc[r] \in {"insert", "recommit", "done"}
           /\ UNCHANGED statusCache => CacheTyped' /\ CacheReal'
<1>1. TasksGrow /\ OwnTask(r) /\ DOMAIN task' \subseteq JobRequests /\ \A t \in DOMAIN task' : task'[t] \in Task
  BY DEF TasksGrow, OwnTask, JobsInv, JobsTypeOK
<1>2. UNCHANGED statusCache => CacheTyped' /\ CacheReal'
  BY <1>1, RealStays DEF CacheTyped, CacheReal, JobsInv, JobsTypeOK
<1> QED BY <1>1, <1>2 DEF JobsInv, TaskOK

\* A step of a request that makes no task, to a place that relies on nothing.
LEMMA PlainRequest ==
    ASSUME JobsInv, NEW r \in JobRequests, jobPc[r] # "done",
           NEW step \in {"revoke", "cancel", "select", "delete", "done"}, NEW q \in JobLocals,
           jobPc[r] \in {"insert", "recommit"} => step = "done",
           jobPc' = [jobPc EXCEPT ![r] = step], jobReq' = [jobReq EXCEPT ![r] = q],
           UNCHANGED <<task, crashes, statusCache, stored, created>>, RowsGrow, RowsTyped', LockMoves(r),
           cancelled' \subseteq DOMAIN task
    PROVE  JobsInv'
<1>1. JobRequestOK(r, step, q)'
  BY DEF JobRequestOK
<1>2. step \in JobSteps /\ (r \in DOMAIN task' => step = "done")
  BY NoTaskMade DEF JobSteps
<1>3. cancelled' \subseteq DOMAIN task'
  OBVIOUS
<1> QED BY <1>1, <1>2, <1>3, NoTaskMade, RequestStep

LEMMA EndsKeeps ==
    ASSUME JobsInv, NEW r \in JobRequests, jobPc[r] # "done", JobEnd(r),
           UNCHANGED <<task, crashes, statusCache, cancelled, stored, created>>, RowsGrow, RowsTyped', LockMoves(r)
    PROVE  JobsInv'
<1> DEFINE q == NoRequest
<1>1. q \in JobLocals
  BY JobsAssumption DEF NoRequest, JobLocals, JobStatus
<1>2. jobPc' = [jobPc EXCEPT ![r] = "done"] /\ jobReq' = [jobReq EXCEPT ![r] = q]
  BY DEF JobEnd, JobGoto
<1>3. cancelled' \subseteq DOMAIN task
  BY DEF JobsInv, JobsTypeOK
<1> HIDE DEF q
<1> QED BY <1>1, <1>2, <1>3, PlainRequest

\* enqueue_sla_computation
LEMMA SubmitKeeps ==
    ASSUME JobsInv, NEW r \in JobRequests, AdvisoryLock(r) \/ LockTimeout(r) \/ FindInflight(r) \/ SubmitBulk(r)
    PROVE  JobsInv'
<1>q. PICK q : q = jobReq[r]
  OBVIOUS
<1>1. q \in JobLocals /\ jobPc \in [JobRequests -> JobSteps] /\ jobReq \in [JobRequests -> JobLocals]
      /\ JobRequestOK(r, jobPc[r], q) /\ cancelled \subseteq DOMAIN task
  BY <1>q DEF JobsInv, JobsTypeOK
<1>2. UNCHANGED jobReq => jobReq' = [jobReq EXCEPT ![r] = q]
  BY <1>1, <1>q
<1>3. CASE AdvisoryLock(r)
  <2>1. /\ jobPc[r] = "idle" /\ enqueuer = NoJob /\ enqueuer' = r /\ jobPc' = [jobPc EXCEPT ![r] = "enqueue"]
        /\ UNCHANGED <<job, task, crashes, cancelled, statusCache, jobReq, stored, created>>
    BY <1>3 DEF AdvisoryLock, JobIdle, JobGoto
  <2>2. RowsGrow /\ RowsTyped'
    BY <2>1, NoTaskMade, SameRows
  <2>3. LockMoves(r) /\ JobRequestOK(r, "enqueue", q)' /\ "enqueue" \in JobSteps /\ r \notin DOMAIN task'
    BY <2>1, NoTaskMade DEF LockMoves, JobRequestOK, JobSteps
  <2>4. cancelled' \subseteq DOMAIN task'
    BY <1>1, <2>1
  <2>5. jobReq' = [jobReq EXCEPT ![r] = q]
    BY <1>2, <2>1
  <2>6. TasksGrow /\ OwnTask(r) /\ CacheTyped' /\ CacheReal'
        /\ DOMAIN task' \subseteq JobRequests /\ \A t \in DOMAIN task' : task'[t] \in Task
    BY <2>1, NoTaskMade
  <2> QED BY <1>1, <2>1, <2>2, <2>3, <2>4, <2>5, <2>6, RequestStep
<1>4. CASE LockTimeout(r) \/ SubmitBulk(r)
  <2>1. /\ JobEnd(r) /\ jobPc[r] = "idle"
        /\ UNCHANGED <<job, task, crashes, statusCache, cancelled, enqueuer, stored, created>>
    BY <1>4 DEF LockTimeout, SubmitBulk, EnqueueBulk, JobIdle
  <2>2. RowsGrow /\ RowsTyped' /\ LockMoves(r)
    BY <2>1, NoTaskMade, SameRows DEF LockMoves
  <2> QED BY <2>1, <2>2, EndsKeeps
<1>5. CASE FindInflight(r)
  <2>1. /\ jobPc[r] = "enqueue" /\ enqueuer = r
        /\ UNCHANGED <<job, task, crashes, statusCache, cancelled, stored, created>>
    BY <1>1, <1>5 DEF FindInflight, JobRequestOK
  <2>2. RowsGrow /\ RowsTyped'
    BY <2>1, NoTaskMade, SameRows
  <2>3. CASE JobEnd(r) /\ enqueuer' = NoJob
    BY <2>1, <2>2, <2>3, EndsKeeps DEF LockMoves
  <2>4. CASE /\ \A j \in DOMAIN job : InFlight(j) => Crowded(j)
             /\ JobGoto(r, "dispatch") /\ UNCHANGED <<enqueuer, jobReq>>
    <3>1. ASSUME NEW j \in DOMAIN job, Unfinished(j) PROVE Crowded(j)
      <4>1. /\ job[j].status \in {"pending", "started"} /\ job[j].task = j
            /\ task[j].state \in {"PENDING", "STARTED", "RETRY"}
        <5>1. job[j] \in Job /\ RowLocal(j, job[j]) /\ task[j] \in Task /\ TaskLocal(task[j])
          BY DEF JobsInv, JobsTypeOK, JobRowOK, TaskOK
        <5> QED BY <3>1, <5>1 DEF Unfinished, RowLocal, TaskLocal, Job, JobStatus, Terminal, Task, CeleryStates
      <4> QED BY <2>4, <4>1 DEF InFlight
    <3>2. \A j \in DOMAIN job' : Unfinished(j)' => Crowded(j)'
      BY <2>1, <3>1 DEF Unfinished, Crowded
    <3>3. /\ LockMoves(r) /\ jobPc' = [jobPc EXCEPT ![r] = "dispatch"] /\ "dispatch" \in JobSteps
          /\ r \notin DOMAIN task' /\ cancelled' \subseteq DOMAIN task'
      BY <1>1, <2>1, <2>4, NoTaskMade DEF LockMoves, JobGoto, JobSteps
    <3>4. jobReq' = [jobReq EXCEPT ![r] = q]
      BY <1>2, <2>4
    <3>5. JobRequestOK(r, "dispatch", q)'
      BY <2>1, <2>4, <3>2 DEF JobRequestOK
    <3>6. TasksGrow /\ OwnTask(r) /\ CacheTyped' /\ CacheReal'
          /\ DOMAIN task' \subseteq JobRequests /\ \A t \in DOMAIN task' : task'[t] \in Task
      BY <2>1, NoTaskMade
    <3> QED BY <1>1, <2>1, <2>2, <3>3, <3>4, <3>5, <3>6, RequestStep
  <2> QED BY <1>5, <2>3, <2>4 DEF FindInflight
<1> QED BY <1>3, <1>4, <1>5

\* The task r is sent: for the job r itself, or for one that is retried.
LEMMA NewTaskKeeps ==
    ASSUME JobsInv, NEW r \in JobRequests, jobPc[r] \in {"dispatch", "redo"}, NEW j \in JobRequests,
           task' = Put(task, r, NewTask(j)), NEW q \in JobLocals, NEW step \in {"insert", "recommit"},
           jobPc' = [jobPc EXCEPT ![r] = step], jobReq' = [jobReq EXCEPT ![r] = q],
           step = "insert" => j = r /\ enqueuer = r /\ \A x \in DOMAIN job : Unfinished(x) => Crowded(x),
           step = "recommit" => /\ q.job = j /\ jobPc[j] = "done"
                                /\ (j \in DOMAIN job => job[j].closed),
           UNCHANGED <<job, crashes, cancelled, statusCache, enqueuer, stored, created>>
    PROVE  JobsInv'
<1> DEFINE n == NewTask(j)
<1>1. n \in Task /\ n.of = j /\ TaskLocal(n)
  BY JobsAssumption DEF NewTask, Task, TaskLocal, CeleryStates
<1>2. r \notin DOMAIN task
  BY DEF JobsInv, TaskOK
<1>3. DOMAIN task' = DOMAIN task \cup {r} /\ task'[r] = n /\ \A t \in DOMAIN task : task'[t] = task[t]
  BY <1>2 DEF Put
<1> HIDE DEF n
<1>4. TasksGrow /\ OwnTask(r)
  BY <1>1, <1>3 DEF TasksGrow, OwnTask
<1>5. /\ DOMAIN task' \subseteq JobRequests /\ \A t \in DOMAIN task' : task'[t] \in Task
      /\ cancelled' \subseteq DOMAIN task'
  BY <1>1, <1>3 DEF JobsInv, JobsTypeOK
<1>6. RowsGrow /\ RowsTyped' /\ LockMoves(r)
  BY <1>4, SameRows DEF LockMoves
<1>7. CacheTyped' /\ CacheReal'
  BY <1>4, RealStays DEF CacheTyped, CacheReal, JobsInv, JobsTypeOK
<1>8. step = "insert" => \A x \in DOMAIN job' : Unfinished(x)' => Crowded(x)'
  <2> SUFFICES ASSUME step = "insert", NEW x \in DOMAIN job', Unfinished(x)' PROVE Crowded(x)'
    OBVIOUS
  <2> QED BY <1>4, <1>6, UnfinishedBefore DEF Crowded
<1>9. step = "recommit" => jobPc'[j] = "done"
  BY DEF JobsInv, JobsTypeOK
<1>10. JobRequestOK(r, step, q)'
  BY <1>1, <1>3, <1>8, <1>9 DEF JobRequestOK
<1> QED BY <1>4, <1>5, <1>6, <1>7, <1>10, RequestStep DEF JobSteps

LEMMA PollKeeps ==
    ASSUME JobsInv, NEW r \in JobRequests, Poll(r)
    PROVE  JobsInv'
<1>1. ASSUME NEW j \in DOMAIN job, SyncRead(r, j) PROVE JobsInv'
  <2> DEFINE state == JobStatusOf(task[job[j].task].state)
  <2>1. PICK s \in (IF Cached(j) = {} THEN {state} ELSE Cached(j)) :
          /\ statusCache' = Put(statusCache, j, s)
          /\ jobReq' = [jobReq EXCEPT ![r].job = j, ![r].seen = job[j].status, ![r].status = s]
    BY <1>1 DEF SyncRead
  <2>2. /\ jobPc[r] = "idle" /\ jobPc' = [jobPc EXCEPT ![r] = "sync"] /\ r \notin DOMAIN task
        /\ UNCHANGED <<job, task, crashes, cancelled, enqueuer, stored, created>>
    BY <1>1 DEF SyncRead, JobIdle, JobGoto, JobsInv, TaskOK
  <2>3. s \in JobStatus /\ (s = "success" => Real(j))
    <3>1. CASE s = state
      <4>1. /\ job[j].task \in DOMAIN task /\ task[job[j].task] \in Task /\ task[job[j].task].of = j
            /\ TaskLocal(task[job[j].task])
        BY DEF JobsInv, JobsTypeOK, JobRowOK, TaskOK
      <4> DEFINE c == task[job[j].task].state
      <4>2. c \in CeleryStates /\ (c = "SUCCESS" => Real(j))
        BY <4>1 DEF Task, TaskLocal, Real
      <4>3. s = JobStatusOf(c)
        BY <3>1
      <4> HIDE DEF c, state
      <4> QED BY <4>2, <4>3 DEF JobStatusOf, CeleryStates, JobStatus
    <3>2. CASE s \in Cached(j)
      BY <3>2 DEF Cached, JobsInv, JobsTypeOK
    <3> QED BY <2>1, <3>1, <3>2
  <2>4. CacheTyped' /\ CacheReal'
    <3>1. DOMAIN statusCache' = DOMAIN statusCache \cup {j} /\ statusCache'[j] = s
          /\ \A x \in DOMAIN statusCache \ {j} : statusCache'[x] = statusCache[x]
      BY <2>1 DEF Put
    <3>2. \A x \in JobRequests : Real(x)' <=> Real(x)
      BY <2>2 DEF Real
    <3>3. j \in JobRequests
      BY DEF JobsInv, JobsTypeOK
    <3> QED BY <2>3, <3>1, <3>2, <3>3 DEF CacheTyped, CacheReal, JobsInv, JobsTypeOK
  <2>5. PICK w, p : w = job[j].status /\ p = jobReq[r]
    OBVIOUS
  <2>6. w \in JobStatus /\ p \in JobLocals /\ j \in JobRequests
        /\ jobReq' = [jobReq EXCEPT ![r] = [p EXCEPT !.job = j, !.seen = w, !.status = s]]
    BY <2>1, <2>5 DEF JobsInv, JobsTypeOK, Job
  <2> DEFINE l == [p EXCEPT !.job = j]
             m == [l EXCEPT !.seen = w]
             q == [m EXCEPT !.status = s]
  <2>7. jobReq' = [jobReq EXCEPT ![r] = q]
    BY <2>6
  <2>8. l \in JobLocals /\ l.job = j
    BY <2>6 DEF JobLocals
  <2> HIDE DEF l
  <2>9. m \in JobLocals /\ m.job = j
    BY <2>6, <2>8 DEF JobLocals
  <2> HIDE DEF m
  <2>10. q \in JobLocals /\ q.job = j /\ q.status = s
    BY <2>3, <2>9 DEF JobLocals
  <2> HIDE DEF q
  <2>11. Real(j) => Real(j)'
    BY <2>2 DEF Real
  <2>12. PICK k : k = q
    OBVIOUS
  <2>13. JobRequestOK(r, "sync", k)'
    BY <2>3, <2>10, <2>11, <2>12 DEF JobRequestOK
  <2>14. /\ RowsGrow /\ RowsTyped' /\ LockMoves(r) /\ "sync" \in JobSteps /\ r \notin DOMAIN task'
         /\ cancelled' \subseteq DOMAIN task'
    BY <2>2, NoTaskMade, SameRows DEF LockMoves, JobSteps, JobsInv, JobsTypeOK
  <2>15. TasksGrow /\ OwnTask(r)
         /\ DOMAIN task' \subseteq JobRequests /\ \A t \in DOMAIN task' : task'[t] \in Task
    BY <2>2, NoTaskMade
  <2> QED BY <2>2, <2>4, <2>7, <2>10, <2>12, <2>13, <2>14, <2>15, RequestStep
<1>2. CASE SyncWrite(r)
  <2>1. PICK j, s : j = jobReq[r].job /\ s = jobReq[r].status
    OBVIOUS
  <2>2. /\ jobPc[r] = "sync" /\ JobEnd(r) /\ UNCHANGED <<task, crashes, cancelled, statusCache, enqueuer, stored, created>>
        /\ LockMoves(r) /\ TasksGrow
        /\ UNCHANGED job \/ (j \in DOMAIN job /\ job' = Put(job, j, WithStatus(job[j], s)))
    BY <1>2, <2>1, NoTaskMade DEF SyncWrite, LockMoves
  <2>3. s \in JobStatus /\ (s = "success" => Real(j)')
    <3>1. s \in JobStatus /\ (s = "success" => Real(j))
      BY <2>1, <2>2 DEF JobsInv, JobsTypeOK, JobLocals, JobRequestOK
    <3> QED BY <2>2, <3>1, RealStays
  <2>4. RowsGrow /\ RowsTyped'
    BY <2>2, <2>3, SameRows, StatusPut
  <2> QED BY <2>2, <2>4, EndsKeeps
<1> QED BY <1>1, <1>2 DEF Poll

LEMMA CancelKeeps ==
    ASSUME JobsInv, NEW r \in JobRequests, CancelJob(r)
    PROVE  JobsInv'
<1>1. PICK p : p = jobReq[r]
  OBVIOUS
<1>2. p \in JobLocals /\ cancelled \subseteq DOMAIN task
  BY <1>1 DEF JobsInv, JobsTypeOK
<1>3. UNCHANGED <<task, crashes, statusCache, enqueuer, stored, created>> /\ LockMoves(r) /\ TasksGrow
  BY NoTaskMade DEF CancelJob, CancelRead, CancelRevoke, CancelCommit, LockMoves
<1>4. ASSUME NEW j \in DOMAIN job, CancelRead(r, j) PROVE JobsInv'
  <2> DEFINE q == [p EXCEPT !.job = j]
  <2>1. /\ jobPc[r] = "idle" /\ jobPc' = [jobPc EXCEPT ![r] = "revoke"] /\ jobReq' = [jobReq EXCEPT ![r] = q]
        /\ UNCHANGED <<job, cancelled>> /\ j \in JobRequests
    BY <1>1, <1>4 DEF CancelRead, JobIdle, JobGoto, JobsInv, JobsTypeOK
  <2>2. q \in JobLocals
    BY <1>2, <2>1 DEF JobLocals
  <2> HIDE DEF q
  <2>3. RowsGrow /\ RowsTyped' /\ cancelled' \subseteq DOMAIN task
    BY <1>2, <1>3, <2>1, SameRows
  <2> QED BY <1>3, <2>1, <2>2, <2>3, PlainRequest
<1>5. CASE CancelRevoke(r)
  <2>1. jobPc[r] = "revoke" /\ UNCHANGED job
    BY <1>5 DEF CancelRevoke
  <2>2. RowsGrow /\ RowsTyped'
    BY <1>3, <2>1, SameRows
  <2>3. CASE UNCHANGED cancelled /\ JobEnd(r)
    BY <1>3, <2>1, <2>2, <2>3, EndsKeeps
  <2>4. CASE p.job \in DOMAIN job
    <3> DEFINE w == job[p.job].status
               q == [p EXCEPT !.seen = w]
    <3>1. /\ jobPc' = [jobPc EXCEPT ![r] = "cancel"] /\ jobReq' = [jobReq EXCEPT ![r] = q]
          /\ cancelled' = cancelled \cup {job[p.job].task}
      BY <1>1, <1>5, <2>4 DEF CancelRevoke, JobGoto
    <3>2. w \in JobStatus /\ cancelled' \subseteq DOMAIN task
      BY <1>2, <2>4, <3>1 DEF JobsInv, JobsTypeOK, Job
    <3> HIDE DEF w
    <3>3. q \in JobLocals
      BY <1>2, <3>2 DEF JobLocals
    <3> HIDE DEF q
    <3> QED BY <1>3, <2>1, <2>2, <3>1, <3>2, <3>3, PlainRequest
  <2> QED BY <1>1, <1>5, <2>3, <2>4 DEF CancelRevoke
<1>6. CASE CancelCommit(r)
  <2>1. /\ jobPc[r] = "cancel" /\ JobEnd(r) /\ UNCHANGED cancelled
        /\ UNCHANGED job \/ (p.job \in DOMAIN job /\ job' = Put(job, p.job, WithStatus(job[p.job], "revoked")))
    BY <1>1, <1>6 DEF CancelCommit
  <2>2. RowsGrow /\ RowsTyped'
    BY <1>3, <2>1, SameRows, StatusPut DEF JobStatus
  <2> QED BY <1>3, <2>1, <2>2, EndsKeeps
<1> QED BY <1>4, <1>5, <1>6 DEF CancelJob

LEMMA RetryKeeps ==
    ASSUME JobsInv, NEW r \in JobRequests, RetryJob(r)
    PROVE  JobsInv'
<1>1. PICK p : p = jobReq[r]
  OBVIOUS
<1>2. p \in JobLocals /\ cancelled \subseteq DOMAIN task /\ JobRequestOK(r, jobPc[r], p)
  BY <1>1 DEF JobsInv, JobsTypeOK
<1>3. ASSUME NEW j \in DOMAIN job, RetryRead(r, j) PROVE JobsInv'
  <2> DEFINE n == [p EXCEPT !.job = j]
  <2>1. /\ jobPc[r] = "idle" /\ jobPc' = [jobPc EXCEPT ![r] = "redo"] /\ jobReq' = [jobReq EXCEPT ![r] = n]
        /\ UNCHANGED <<job, task, crashes, cancelled, statusCache, enqueuer, stored, created>>
    BY <1>1, <1>3 DEF RetryRead, JobIdle, JobGoto
  <2>2. j \in JobRequests /\ jobPc[j] = "done" /\ job[j].closed
    BY <1>3 DEF RetryRead, JobsInv, JobsTypeOK, JobRowOK, RowLocal, Terminal
  <2>3. n \in JobLocals /\ n.job = j
    BY <1>2, <2>2 DEF JobLocals
  <2> HIDE DEF n
  <2>4. PICK q : q = n
    OBVIOUS
  <2>5. jobPc'[j] = "done"
    BY <2>1, <2>2 DEF JobsInv, JobsTypeOK
  <2>6. JobRequestOK(r, "redo", q)'
    BY <2>1, <2>2, <2>3, <2>4, <2>5 DEF JobRequestOK
  <2>7. /\ RowsGrow /\ RowsTyped' /\ LockMoves(r) /\ "redo" \in JobSteps /\ r \notin DOMAIN task'
        /\ cancelled' \subseteq DOMAIN task'
    BY <1>2, <2>1, NoTaskMade, SameRows DEF LockMoves, JobSteps
  <2>8. TasksGrow /\ OwnTask(r) /\ CacheTyped' /\ CacheReal'
        /\ DOMAIN task' \subseteq JobRequests /\ \A t \in DOMAIN task' : task'[t] \in Task
    BY <2>1, NoTaskMade
  <2> QED BY <2>1, <2>3, <2>4, <2>6, <2>7, <2>8, RequestStep
<1>4. CASE RetryDispatch(r)
  <2>1. /\ jobPc[r] = "redo" /\ UNCHANGED <<job, crashes, cancelled, statusCache, enqueuer, stored, created>>
        /\ p.job \in JobRequests /\ jobPc[p.job] = "done" /\ (p.job \in DOMAIN job => job[p.job].closed)
    BY <1>2, <1>4 DEF RetryDispatch, JobRequestOK
  <2>2. CASE UNCHANGED task /\ JobEnd(r)
    <3>1. RowsGrow /\ RowsTyped' /\ LockMoves(r)
      BY <2>1, <2>2, NoTaskMade, SameRows DEF LockMoves
    <3> QED BY <2>1, <2>2, <3>1, EndsKeeps
  <2>3. CASE p.job \in DOMAIN job
    <3> DEFINE w == job[p.job].status
               k == job[p.job].retries + 1
               l == [p EXCEPT !.retries = k]
               n == [l EXCEPT !.seen = w]
    <3>1. /\ task' = Put(task, r, NewTask(p.job)) /\ jobReq' = [jobReq EXCEPT ![r] = n]
          /\ jobPc' = [jobPc EXCEPT ![r] = "recommit"]
      BY <1>1, <1>4, <2>3 DEF RetryDispatch, JobGoto
    <3>2. k \in Nat /\ w \in JobStatus
      BY <2>3 DEF JobsInv, JobsTypeOK, Job
    <3> HIDE DEF k, w
    <3>3. l \in JobLocals /\ l.job = p.job
      BY <1>2, <3>2 DEF JobLocals
    <3> HIDE DEF l
    <3>4. n \in JobLocals /\ n.job = p.job
      BY <3>2, <3>3 DEF JobLocals
    <3> HIDE DEF n
    <3> QED BY <2>1, <3>1, <3>4, NewTaskKeeps
  <2> QED BY <1>1, <1>4, <2>2, <2>3 DEF RetryDispatch
<1>5. CASE RetryCommit(r)
  <2>1. /\ jobPc[r] = "recommit" /\ JobEnd(r) /\ UNCHANGED <<task, crashes, cancelled, statusCache, enqueuer, stored, created>>
        /\ r \in DOMAIN task /\ task[r].of = p.job /\ (p.job \in DOMAIN job => job[p.job].closed)
    BY <1>2, <1>5 DEF RetryCommit, JobRequestOK
  <2>2. TasksGrow /\ LockMoves(r)
    BY <2>1, NoTaskMade DEF LockMoves
  <2>3. CASE p.job \notin DOMAIN job
    <3>1. UNCHANGED job
      BY <1>1, <1>5, <2>3 DEF RetryCommit
    <3>2. RowsGrow /\ RowsTyped'
      BY <2>2, <3>1, SameRows
    <3> QED BY <2>1, <2>2, <3>2, EndsKeeps
  <2>4. CASE p.job \in DOMAIN job
    <3>1. PICK row : row = job[p.job]
      OBVIOUS
    <3> DEFINE s == IF p.seen = "pending" THEN row.status ELSE "pending"
               f == FALSE
               k == p.retries
               l1 == [row EXCEPT !.status = s]
               l2 == [l1 EXCEPT !.task = r]
               l3 == [l2 EXCEPT !.retries = k]
               n == [l3 EXCEPT !.finished = f]
    <3>2. job' = Put(job, p.job, n)
      BY <1>1, <1>5, <2>4, <3>1 DEF RetryCommit
    <3>3. row \in Job /\ row.closed /\ (row.status = "success" => Real(p.job))
      BY <2>1, <2>4, <3>1 DEF JobsInv, JobsTypeOK, JobRowOK
    <3>4. s \in JobStatus /\ f \in BOOLEAN /\ k \in Nat /\ (s = "success" => row.status = "success")
      BY <1>2, <3>3 DEF Job, JobStatus, JobLocals
    <3> HIDE DEF s, f, k
    <3>5. l1 \in Job /\ l1.status = s /\ l1.closed = row.closed
      BY <3>3, <3>4 DEF Job
    <3> HIDE DEF l1
    <3>6. l2 \in Job /\ l2.status = s /\ l2.closed = row.closed /\ l2.task = r
      BY <3>5 DEF Job
    <3> HIDE DEF l2
    <3>7. l3 \in Job /\ l3.status = s /\ l3.closed = row.closed /\ l3.task = r
      BY <3>4, <3>6 DEF Job
    <3> HIDE DEF l3
    <3>8. n \in Job /\ n.status = s /\ n.closed = row.closed /\ n.task = r
      BY <3>4, <3>7 DEF Job
    <3> HIDE DEF n
    <3>9. n.closed /\ RowLocal(p.job, n)
      BY <3>3, <3>8 DEF RowLocal
    <3>10. n.status = "success" => Real(p.job)'
      BY <2>2, <3>3, <3>4, <3>8, RealStays
    <3>11. RowsGrow /\ RowsTyped'
      BY <2>1, <2>2, <2>4, <3>2, <3>8, <3>9, <3>10, OneRow
    <3> QED BY <2>1, <2>2, <3>11, EndsKeeps
  <2> QED BY <2>3, <2>4
<1> QED BY <1>3, <1>4, <1>5 DEF RetryJob

LEMMA CleanupKeeps ==
    ASSUME JobsInv, NEW r \in JobRequests, CleanupOldJobs(r)
    PROVE  JobsInv'
<1>1. PICK p : p = jobReq[r]
  OBVIOUS
<1>2. p \in JobLocals /\ cancelled \subseteq DOMAIN task /\ DOMAIN job \subseteq JobRequests
  BY <1>1 DEF JobsInv, JobsTypeOK
<1>3. /\ UNCHANGED <<task, crashes, cancelled, statusCache, enqueuer, stored, created>> /\ LockMoves(r) /\ TasksGrow
      /\ jobPc[r] \in {"idle", "select", "delete"} /\ cancelled' \subseteq DOMAIN task
  BY <1>2, NoTaskMade DEF CleanupOldJobs, CleanupStart, SelectJobs, DeleteJobBatch, LockMoves, JobIdle
<1>4. CASE CleanupStart(r)
  <2> DEFINE q == [p EXCEPT !.stage = 1]
  <2>1. jobPc' = [jobPc EXCEPT ![r] = "select"] /\ jobReq' = [jobReq EXCEPT ![r] = q] /\ UNCHANGED job
    BY <1>1, <1>4 DEF CleanupStart, JobGoto
  <2>2. q \in JobLocals
    BY <1>2 DEF JobLocals
  <2> HIDE DEF q
  <2>3. RowsGrow /\ RowsTyped'
    BY <1>3, <2>1, SameRows
  <2> QED BY <1>3, <2>1, <2>2, <2>3, PlainRequest
<1>5. CASE SelectJobs(r)
  <2>1. PICK S \in SUBSET DOMAIN job : jobReq' = [jobReq EXCEPT ![r] = [p EXCEPT !.batch = S]]
    BY <1>1, <1>5 DEF SelectJobs
  <2> DEFINE q == [p EXCEPT !.batch = S]
  <2>2. q \in JobLocals
    BY <1>2 DEF JobLocals
  <2>3. jobPc' = [jobPc EXCEPT ![r] = "delete"] /\ jobReq' = [jobReq EXCEPT ![r] = q] /\ UNCHANGED job
    BY <1>5, <2>1 DEF SelectJobs, JobGoto
  <2> HIDE DEF q
  <2>4. RowsGrow /\ RowsTyped'
    BY <1>3, <2>3, SameRows
  <2> QED BY <1>3, <2>2, <2>3, <2>4, PlainRequest
<1>6. CASE DeleteJobBatch(r)
  <2>1. job' = Drop(job, p.batch)
    BY <1>1, <1>6 DEF DeleteJobBatch
  <2>2. RowsGrow /\ RowsTyped'
    BY <1>3, <2>1, LeftRows
  <2>3. CASE JobEnd(r)
    BY <1>3, <2>2, <2>3, EndsKeeps
  <2>4. CASE p.stage # 3
    <3> DEFINE k == p.stage + 1
               l == [p EXCEPT !.stage = k]
               q == [l EXCEPT !.batch = {}]
    <3>1. k \in 0 .. 3
      BY <1>2, <2>4 DEF JobLocals
    <3>2. jobPc' = [jobPc EXCEPT ![r] = "select"] /\ jobReq' = [jobReq EXCEPT ![r] = q]
      BY <1>1, <1>6, <2>4 DEF DeleteJobBatch, JobGoto
    <3> HIDE DEF k
    <3>3. l \in JobLocals
      BY <1>2, <3>1 DEF JobLocals
    <3> HIDE DEF l
    <3>4. q \in JobLocals
      BY <3>3 DEF JobLocals
    <3> HIDE DEF q
    <3> QED BY <1>3, <2>2, <3>2, <3>4, PlainRequest
  <2> QED BY <1>1, <1>6, <2>3, <2>4 DEF DeleteJobBatch
<1> QED BY <1>4, <1>5, <1>6 DEF CleanupOldJobs

LEMMA JobsInvStep == JobsInv /\ [JobsNext]_jobVars => JobsInv'
<1> SUFFICES ASSUME JobsInv, [JobsNext]_jobVars PROVE JobsInv'
  OBVIOUS
<1>1. ASSUME NEW r \in JobRequests, ApplyAsync(r) PROVE JobsInv'
  <2>1. PICK q : q = jobReq[r]
    OBVIOUS
  <2>2. /\ jobPc[r] = "dispatch" /\ task' = Put(task, r, NewTask(r)) /\ jobPc' = [jobPc EXCEPT ![r] = "insert"]
        /\ UNCHANGED <<job, crashes, cancelled, statusCache, enqueuer, stored, created>> /\ q \in JobLocals
        /\ jobReq' = [jobReq EXCEPT ![r] = q] /\ JobRequestOK(r, jobPc[r], q)
    BY <1>1, <2>1 DEF ApplyAsync, JobGoto, JobsInv, JobsTypeOK
  <2>3. enqueuer = r /\ \A x \in DOMAIN job : Unfinished(x) => Crowded(x)
    BY <2>2 DEF JobRequestOK
  <2> QED BY <2>2, <2>3, NewTaskKeeps
<1>2. ASSUME NEW r \in JobRequests, InsertJob(r) PROVE JobsInv'
  <2>1. JobsTypeOK'
    <3>1. r \in DOMAIN task /\ UNCHANGED <<task, crashes, cancelled, statusCache>>
      BY <1>2 DEF InsertJob, JobsInv, JobRequestOK
    <3>2. NewJob(r) \in Job /\ NewJob(r).task = r
      BY DEF NewJob, Job, JobStatus
    <3>3. DOMAIN job' \subseteq JobRequests /\ \A j \in DOMAIN job' : job'[j] \in Job /\ job'[j].task \in DOMAIN task
      <4>1. DOMAIN job' = DOMAIN job \cup {r} /\ job'[r] = NewJob(r) /\ \A j \in DOMAIN job \ {r} : job'[j] = job[j]
        BY <1>2 DEF InsertJob, Put
      <4> QED BY <3>1, <3>2, <4>1 DEF JobsInv, JobsTypeOK
    <3>4. NoRequest \in JobLocals
      BY JobsAssumption DEF NoRequest, JobLocals, JobStatus
    <3>5. jobPc' \in [JobRequests -> JobSteps] /\ jobReq' \in [JobRequests -> JobLocals]
      BY <1>2, <3>4 DEF InsertJob, JobEnd, JobGoto, JobsInv, JobsTypeOK, JobSteps
    <3>6. enqueuer' \in JobRequests \cup {NoJob}
      BY <1>2 DEF InsertJob, JobsInv, JobsTypeOK
    <3>7. stored' \in Nat /\ created' \in [JobRequests -> Nat]
      BY <1>2 DEF InsertJob, JobsInv, JobsTypeOK
    <3> QED BY <3>1, <3>3, <3>5, <3>6, <3>7 DEF JobsInv, JobsTypeOK
  <2> QED BY <1>2, <2>1, InsertJobKeeps
<1>3. ASSUME NEW r \in JobRequests, Submit(r) PROVE JobsInv'
  BY <1>1, <1>2, <1>3, SubmitKeeps DEF Submit
<1>4. ASSUME NEW r \in JobRequests, JobCrash(r) PROVE JobsInv'
  <2>1. /\ jobPc[r] # "done" /\ JobEnd(r) /\ UNCHANGED <<job, task, crashes, statusCache, cancelled, stored, created>> /\ LockMoves(r)
    BY <1>4 DEF JobCrash, LockMoves
  <2>2. RowsGrow /\ RowsTyped'
    BY <2>1, NoTaskMade, SameRows
  <2> QED BY <2>1, <2>2, EndsKeeps
<1>5. ASSUME UNCHANGED <<job, task, crashes, cancelled, enqueuer, created, jobPc, jobReq>>,
             stored' \in Nat, stored' >= stored,
             \A j \in DOMAIN statusCache' : j \in DOMAIN statusCache /\ statusCache'[j] = statusCache[j]
      PROVE  JobsInv'
  <2>1. JobsTypeOK'
    BY <1>5 DEF JobsInv, JobsTypeOK
  <2>2. /\ \A j \in DOMAIN job' : JobRowOK(j)'
        /\ \A i, j \in DOMAIN job' : Unfinished(i)' /\ Unfinished(j)' /\ i # j => Apart(i, j)'
    BY <1>5 DEF JobsInv, JobRowOK, RowLocal, Real, Unfinished, Apart
  <2>3. \A t \in DOMAIN task' : TaskOK(t)'
    BY <1>5 DEF JobsInv, TaskOK, TaskLocal
  <2>4. \A j \in DOMAIN statusCache' : statusCache'[j] = "success" => Real(j)'
    BY <1>5 DEF JobsInv, Real
  <2>5. ASSUME NEW r \in JobRequests PROVE JobRequestOK(r, jobPc[r], jobReq[r])'
    <3>1. JobRequestOK(r, jobPc[r], jobReq[r])
      BY DEF JobsInv
    <3>2. \A j \in DOMAIN job : Crowded(j) => Crowded(j)'
      BY <1>5, JobsAssumption DEF Crowded, JobsInv, JobsTypeOK
    <3> QED BY <1>5, <3>1, <3>2 DEF JobRequestOK, Real, Unfinished
  <2> QED BY <2>1, <2>2, <2>3, <2>4, <2>5 DEF JobsInv
<1>6. ASSUME NEW j \in DOMAIN statusCache, CacheExpires(j) PROVE JobsInv'
  <2>1. stored \in Nat
    BY DEF JobsInv, JobsTypeOK
  <2> QED BY <1>5, <1>6, <2>1 DEF CacheExpires, Drop
<1>7. CASE UNCHANGED jobVars \/ OtherDeviceJob
  <2>1. stored \in Nat
    BY DEF JobsInv, JobsTypeOK
  <2> QED BY <1>5, <1>7, <2>1 DEF jobVars, OtherDeviceJob
<1> QED BY <1>3, <1>4, <1>6, <1>7, PollKeeps, CancelKeeps, RetryKeeps, CleanupKeeps, RunTaskKeeps DEF JobsNext

LEMMA JobsInvStart == JobsInit => JobsInv
<1> SUFFICES ASSUME JobsInit PROVE JobsInv
  OBVIOUS
<1>1. DOMAIN job = {} /\ DOMAIN task = {} /\ DOMAIN statusCache = {}
  BY DEF JobsInit
<1>2. NoRequest \in JobLocals
  BY JobsAssumption DEF NoRequest, JobLocals, JobStatus
<1>3. JobsTypeOK
  BY <1>1, <1>2 DEF JobsInit, JobsTypeOK, JobSteps
<1>4. ASSUME NEW r \in JobRequests PROVE JobRequestOK(r, jobPc[r], jobReq[r])
  BY DEF JobsInit, JobRequestOK
<1> QED BY <1>1, <1>3, <1>4 DEF JobsInv

\* The invariant of the jobs holds throughout.
LEMMA JobsInvariance == JobsSpec => []JobsInv
  BY JobsInvStart, JobsInvStep, PTL DEF JobsSpec

\* A job that shows success has a task of its own that computed a result,
\* for every number of requests and every limit of retries and crashes.
THEOREM SuccessWasComputed == JobsSpec => []SuccessIsReal
<1>1. JobsInv => SuccessIsReal
  BY DEF JobsInv, JobRowOK, Real, SuccessIsReal
<1> QED BY <1>1, JobsInvariance, PTL

\* Two jobs of one device and period that have never been terminal while
\* their first tasks run were stored more than the query's limit apart, for
\* every limit and every number of requests that submit, poll, cancel, retry,
\* clean up or crash.
THEOREM SubmittedOnce == JobsSpec => []SubmissionsDeduplicated
<1>1. JobsInv => SubmissionsDeduplicated
  BY DEF JobsInv, Apart, SubmissionsDeduplicated
<1> QED BY <1>1, JobsInvariance, PTL

LEMMA JobsTyped == JobsSpec => []JobsTypeOK
<1>1. JobsInv => JobsTypeOK
  BY DEF JobsInv
<1> QED BY <1>1, JobsInvariance, PTL

-----------------------------------------------------------------------------
(* Listing                                                                 *)

\* The page walked to next starts at a cursor or at an offset; an offset walk
\* that goes on has not passed the last id.
WalkTypeOK ==
    /\ ListingTypeOK
    /\ walking \in CursorLists => place \in {<<>>} \cup (SortValues \X RowIds)
    /\ walking \in OffsetLists => \E n \in Nat : place = <<n>> /\ (~ over => n <= MaxRowId)

\* A cursor walk that goes on has answered the unchanged rows up to its
\* cursor, once each, and none behind it.
CursorExact ==
    walking \in {"jobs", "outages_asc"} =>
        IF over THEN \A i \in stayed : answered[i] = 1
        ELSE \A i \in stayed :
               answered[i] = IF place # <<>> /\ ~ AfterCursor(walking, i) THEN 1 ELSE 0

\* A is what LIMIT n answers of the whole list: its n first rows in the order
\* that the lists of outages, wallets and webhooks share.
FirstRows(A, n) ==
    /\ A \subseteq DOMAIN listed
    /\ Cardinality(A) =
         IF Cardinality(DOMAIN listed) < n THEN Cardinality(DOMAIN listed) ELSE n
    /\ \A i \in DOMAIN listed \ A, j \in A : ~ OutageDescOrder(i, j)

\* While nothing changes, the rows an offset walk has answered, once each, are
\* those its offset skips.
OffsetExact ==
    walking \in {"outages", "wallets", "webhooks"} /\ changes = 0 =>
        /\ stayed = DOMAIN listed
        /\ \E A \in SUBSET RowIds :
             /\ FirstRows(A, place[1])
             /\ \A i \in RowIds : answered[i] = IF i \in A THEN 1 ELSE 0
             /\ over => A = DOMAIN listed

WalkInv == WalkTypeOK /\ CursorExact /\ OffsetExact

LEMMA ListFinite ==
    ASSUME ListingTypeOK, NEW S \in SUBSET DOMAIN listed
    PROVE  IsFiniteSet(S) /\ Cardinality(S) \in Nat /\ Cardinality(S) <= MaxRowId
<1>1. IsFiniteSet(RowIds) /\ Cardinality(RowIds) = MaxRowId
  BY FS_Interval, ListingAssumption DEF RowIds
<1>2. S \in SUBSET RowIds
  BY DEF ListingTypeOK
<1>3. IsFiniteSet(S) /\ Cardinality(S) <= Cardinality(RowIds)
  BY <1>1, <1>2, FS_Subset
<1>4. Cardinality(S) \in Nat
  BY <1>3, FS_CardinalityType
<1> QED BY <1>1, <1>3, <1>4

\* The order of the offset lists is strict and total, so LIMIT n has one
\* answer.
LEMMA FirstRowsUnique ==
    ASSUME ListingTypeOK, NEW n, NEW A, NEW B, FirstRows(A, n), FirstRows(B, n)
    PROVE  A = B
<1>1. /\ A \in SUBSET DOMAIN listed /\ B \in SUBSET DOMAIN listed
      /\ Cardinality(A) = Cardinality(B)
  BY DEF FirstRows
<1>2. IsFiniteSet(A) /\ IsFiniteSet(B)
  BY <1>1, ListFinite
<1>3. A \subseteq B \/ B \subseteq A
  <2> SUFFICES ASSUME NEW a \in A \ B, NEW b \in B \ A PROVE FALSE
    OBVIOUS
  <2>1. /\ a \in DOMAIN listed /\ b \in DOMAIN listed /\ a # b
        /\ a \in Nat /\ b \in Nat /\ listed[a] \in Nat /\ listed[b] \in Nat
    BY <1>1 DEF ListingTypeOK, RowIds, SortValues
  <2>2. ~ OutageDescOrder(b, a) /\ ~ OutageDescOrder(a, b)
    BY <2>1 DEF FirstRows
  <2> QED BY <2>1, <2>2 DEF OutageDescOrder, Newest
<1>4. CASE A \subseteq B
  BY <1>1, <1>2, <1>4, FS_Subset
<1>5. CASE B \subseteq A
  BY <1>1, <1>2, <1>5, FS_Subset
<1> QED BY <1>3, <1>4, <1>5

\* The n first rows and the m first of the others are the n + m first rows.
LEMMA FirstRowsGrow ==
    ASSUME ListingTypeOK, NEW n \in Nat, NEW m \in Nat, NEW A, FirstRows(A, n),
           NEW P \in SUBSET (DOMAIN listed \ A),
           Cardinality(P) = IF Cardinality(DOMAIN listed \ A) < m
                            THEN Cardinality(DOMAIN listed \ A) ELSE m,
           \A i \in (DOMAIN listed \ A) \ P, j \in P : ~ OutageDescOrder(i, j)
    PROVE  FirstRows(A \cup P, n + m)
<1> DEFINE D == DOMAIN listed
           d == Cardinality(D)
           a == Cardinality(A)
           p == Cardinality(P)
<1>1. A \in SUBSET D /\ P \in SUBSET D
  BY DEF FirstRows
<1>2. /\ IsFiniteSet(D) /\ IsFiniteSet(A) /\ IsFiniteSet(P)
      /\ d \in Nat /\ a \in Nat /\ p \in Nat
  BY <1>1, ListFinite
<1>3. Cardinality(A \cup P) = a + p
  <2>1. A \cap P = {}
    OBVIOUS
  <2>2. Cardinality(A \cup P) = a + p - Cardinality(A \cap P)
    BY <1>2, FS_Union
  <2>3. Cardinality(A \cap P) = 0
    BY <2>1, FS_EmptySet
  <2> HIDE DEF a, p
  <2> QED BY <1>2, <2>2, <2>3
<1>4. Cardinality(D \ A) = d - a
  <2>1. D \cap A = A
    BY <1>1
  <2> QED BY <1>2, <2>1, FS_Difference
<1>5. a = (IF d < n THEN d ELSE n) /\ p = IF d - a < m THEN d - a ELSE m
  BY <1>4 DEF FirstRows
<1>6. Cardinality(A \cup P) = IF d < n + m THEN d ELSE n + m
  <2> HIDE DEF D, d, a, p
  <2> QED BY <1>2, <1>3, <1>5
<1>7. \A i \in D \ (A \cup P), j \in A \cup P : ~ OutageDescOrder(i, j)
  BY DEF FirstRows
<1> QED BY <1>1, <1>6, <1>7 DEF FirstRows

\* A page that is the whole of what it is taken from, or is full.
LEMMA FirstsAll ==
    ASSUME ListingTypeOK, NEW kind, NEW n \in Nat, NEW S \in SUBSET DOMAIN listed,
           NEW P \in Firsts(kind, S, n)
    PROVE  /\ P \in SUBSET S
           /\ P = S \/ Cardinality(P) = n
<1>1. P \in SUBSET S /\ Cardinality(P) = IF Cardinality(S) < n THEN Cardinality(S) ELSE n
  BY DEF Firsts
<1>2. IsFiniteSet(S)
  BY ListFinite
<1>3. CASE Cardinality(P) = Cardinality(S)
  BY <1>1, <1>2, <1>3, FS_Subset
<1> QED BY <1>1, <1>3

LEMMA WalkInit == ListingInit => WalkInv
<1> SUFFICES ASSUME ListingInit PROVE WalkInv
  OBVIOUS
<1>1. DOMAIN listed = {} /\ place = <<>> /\ changes \in 0 .. MaxChanges
  BY ListingAssumption DEF ListingInit
<1>2. ListingTypeOK
  BY <1>1 DEF ListingInit, ListingTypeOK
<1> QED BY <1>2 DEF ListingInit, WalkInv, WalkTypeOK, CursorExact, OffsetExact, CursorLists, OffsetLists

LEMMA WalkStart ==
    ASSUME WalkInv, NEW kind \in CursorLists \cup OffsetLists, StartWalk(kind)
    PROVE  WalkInv'
<1> USE DEF WalkInv, WalkTypeOK
<1>0. changes' \in 0 .. MaxChanges /\ 0 \in 0 .. MaxRowId + PageLimit
  BY ListingAssumption DEF StartWalk
<1>1. /\ walking' \in CursorLists => place' = <<>>
      /\ walking' \in OffsetLists => place' = <<0>>
      /\ place' = <<>> \/ place' = <<0>>
  BY DEF StartWalk, CursorLists, OffsetLists
<1>2. WalkTypeOK'
  <2>1. place' \in {<<>>} \cup (SortValues \X RowIds) \cup {<<n>> : n \in 0 .. MaxRowId + PageLimit}
    BY <1>0, <1>1
  <2>2. ListingTypeOK'
    BY <1>0, <2>1 DEF StartWalk, ListingTypeOK
  <2> QED BY <1>1, <2>2, ListingAssumption
<1>3. CursorExact'
  BY <1>1 DEF StartWalk, CursorExact, CursorLists, ListingTypeOK
<1>4. OffsetExact'
  <2> SUFFICES ASSUME walking' \in {"outages", "wallets", "webhooks"}
               PROVE  OffsetExact'
    BY DEF OffsetExact
  <2>1. place'[1] = 0 /\ ~ over' /\ stayed' = DOMAIN listed' /\ answered' = [i \in RowIds |-> 0]
    BY <1>1 DEF StartWalk, OffsetLists
  <2>2. FirstRows({}, 0)'
    <3>1. Cardinality({}) = 0
      BY FS_EmptySet
    <3>2. Cardinality(DOMAIN listed') \in Nat
      BY ListFinite DEF StartWalk
    <3> QED BY <3>1, <3>2 DEF FirstRows
  <2>3. FirstRows({}, place[1])'
    BY <2>1, <2>2 DEF FirstRows
  <2> QED BY <2>1, <2>3 DEF OffsetExact
<1> QED BY <1>2, <1>3, <1>4

LEMMA WalkEnd == ASSUME WalkInv, EndWalk PROVE WalkInv'
<1>0. changes' \in 0 .. MaxChanges
  BY ListingAssumption DEF EndWalk
<1>1. ListingTypeOK'
  BY <1>0 DEF EndWalk, WalkInv, WalkTypeOK, ListingTypeOK
<1> QED BY <1>1 DEF EndWalk, WalkInv, WalkTypeOK, CursorExact, OffsetExact, CursorLists, OffsetLists

\* What any write leaves of a row that stayed.
LEMMA WalkChange ==
    ASSUME WalkInv, NEW i \in RowIds, Changed(i),
           DOMAIN listed' \subseteq RowIds,
           \A x \in DOMAIN listed' : listed'[x] \in SortValues,
           \A x \in DOMAIN listed \ {i} : x \in DOMAIN listed' /\ listed'[x] = listed[x]
    PROVE  WalkInv'
<1> USE DEF WalkInv, WalkTypeOK
<1>1. stayed' \subseteq stayed /\ stayed' \subseteq DOMAIN listed'
      /\ \A x \in stayed' : listed'[x] = listed[x]
  BY DEF Changed, ListingTypeOK
<1>2. changes' \in 0 .. MaxChanges
  BY ListingAssumption DEF Changed, ListingTypeOK
<1>3. ListingTypeOK'
  BY <1>1, <1>2 DEF Changed, ListingTypeOK
<1>4. WalkTypeOK'
  BY <1>3 DEF Changed
<1>5. CursorExact'
  BY <1>1 DEF Changed, CursorExact, AfterCursor
<1>6. OffsetExact'
  <2>1. walking' # "none" => changes' # 0
    BY DEF Changed, ListingTypeOK
  <2> QED BY <2>1 DEF OffsetExact
<1> QED BY <1>4, <1>5, <1>6

LEMMA WalkOffset == ASSUME WalkInv, OffsetPage PROVE WalkInv'
<1> USE DEF WalkInv, WalkTypeOK
<1> DEFINE D == DOMAIN listed
<1>1. PICK n \in Nat : place = <<n>> /\ n <= MaxRowId
  BY DEF OffsetPage
<1>2. place[1] = n /\ place' = <<n + PageLimit>>
  BY <1>1 DEF OffsetPage
<1>3. PICK skipped \in Firsts(walking, D, n) :
        \E P \in Firsts(walking, D \ skipped, PageLimit) :
           Seen(P) /\ over' = (skipped \cup P = D)
  BY <1>2 DEF OffsetPage
<1>4. PICK P \in Firsts(walking, D \ skipped, PageLimit) : Seen(P) /\ over' = (skipped \cup P = D)
  BY <1>3
<1>5. UNCHANGED <<listed, walking, stayed, changes>> /\ walking \in OffsetLists /\ walking \notin CursorLists
  BY DEF OffsetPage, OffsetLists, CursorLists
<1>6. /\ skipped \in SUBSET D /\ (skipped = D \/ Cardinality(skipped) = n)
      /\ P \in SUBSET (D \ skipped) /\ (P = D \ skipped \/ Cardinality(P) = PageLimit)
  <2>1. skipped \in SUBSET D /\ (skipped = D \/ Cardinality(skipped) = n)
    BY <1>3, FirstsAll
  <2>2. D \ skipped \in SUBSET D /\ PageLimit \in Nat
    BY ListingAssumption
  <2>3. P \in SUBSET (D \ skipped) /\ (P = D \ skipped \/ Cardinality(P) = PageLimit)
    <3> HIDE DEF D
    <3>1. /\ P \in SUBSET (D \ skipped)
          /\ Cardinality(P) = IF Cardinality(D \ skipped) < PageLimit
                              THEN Cardinality(D \ skipped) ELSE PageLimit
      BY <1>4 DEF Firsts
    <3>2. IsFiniteSet(D \ skipped)
      BY <2>2, ListFinite DEF D
    <3>3. CASE Cardinality(P) = Cardinality(D \ skipped)
      BY <3>1, <3>2, <3>3, FS_Subset
    <3> QED BY <3>1, <3>3
  <2> QED BY <2>1, <2>3
<1>7. n + PageLimit \in 0 .. MaxRowId + PageLimit
  BY <1>1, ListingAssumption
<1>8. ~ over' => n + PageLimit <= MaxRowId
  <2> SUFFICES ASSUME ~ over' PROVE n + PageLimit <= MaxRowId
    OBVIOUS
  <2>1. Cardinality(skipped) = n /\ Cardinality(P) = PageLimit
    BY <1>4, <1>6
  <2>2. IsFiniteSet(skipped) /\ IsFiniteSet(P)
    BY <1>6, ListFinite
  <2>3. skipped \cap P = {} /\ skipped \cup P \in SUBSET D
    BY <1>6
  <2>4. Cardinality(skipped \cup P) = n + PageLimit - Cardinality(skipped \cap P)
    BY <2>1, <2>2, FS_Union
  <2>5. Cardinality(skipped \cup P) <= MaxRowId
    BY <2>3, ListFinite
  <2>6. Cardinality(skipped \cap P) = 0
    BY <2>3, FS_EmptySet
  <2> QED BY <2>4, <2>5, <2>6, ListingAssumption
<1>9. answered' \in [RowIds -> Nat]
  BY <1>4 DEF Seen, ListingTypeOK
<1>10. over' \in BOOLEAN
  BY <1>4
<1>11. ListingTypeOK'
  BY <1>2, <1>5, <1>7, <1>9, <1>10 DEF ListingTypeOK
<1>12. n + PageLimit \in Nat
  BY ListingAssumption
<1>13. WalkTypeOK'
  BY <1>2, <1>5, <1>8, <1>11, <1>12
<1>14. CursorExact'
  BY <1>5 DEF CursorExact, CursorLists
<1>15. OffsetExact'
  <2> SUFFICES ASSUME walking \in {"outages", "wallets", "webhooks"}, changes = 0
               PROVE  OffsetExact'
    BY <1>5 DEF OffsetExact
  <2>1. PICK A \in SUBSET RowIds :
          /\ FirstRows(A, n)
          /\ \A i \in RowIds : answered[i] = IF i \in A THEN 1 ELSE 0
    BY <1>2 DEF OffsetExact
  <2>2. stayed = D
    BY DEF OffsetExact
  <2>3. \A i, j : Precedes(walking, i, j) <=> OutageDescOrder(i, j)
    BY DEF Precedes, OutageDescOrder, WalletOrder, WebhookOrder
  <2>4. FirstRows(skipped, n)
    BY <1>3, <2>3 DEF Firsts, FirstRows
  <2>5. skipped = A
    BY <2>1, <2>4, FirstRowsUnique
  <2>6. FirstRows(A \cup P, n + PageLimit)
    <3>1. /\ Cardinality(P) = IF Cardinality(D \ A) < PageLimit THEN Cardinality(D \ A) ELSE PageLimit
          /\ \A i \in (D \ A) \ P, j \in P : ~ OutageDescOrder(i, j)
      BY <1>4, <2>3, <2>5 DEF Firsts
    <3> QED BY <1>6, <2>1, <2>5, <3>1, FirstRowsGrow, ListingAssumption
  <2>7. FirstRows(A \cup P, place[1])'
    BY <1>2, <1>5, <2>6 DEF FirstRows, OutageDescOrder, Newest
  <2>8. \A i \in RowIds : answered'[i] = IF i \in A \cup P THEN 1 ELSE 0
    BY <1>4, <1>6, <2>1, <2>5 DEF Seen
  <2>9. over' => A \cup P = DOMAIN listed'
    BY <1>4, <1>5, <2>5
  <2>10. A \cup P \in SUBSET RowIds
    BY <1>6, <2>1 DEF ListingTypeOK
  <2> QED BY <1>5, <2>2, <2>7, <2>8, <2>9, <2>10 DEF OffsetExact
<1> QED BY <1>13, <1>14, <1>15

LEMMA WalkCursor == ASSUME WalkInv, CursorPage PROVE WalkInv'
<1> USE DEF WalkInv, WalkTypeOK
<1> DEFINE D == DOMAIN listed
<1>1. PICK S \in Source(walking) :
         \E P \in Firsts(walking, Behind(walking, S), PageLimit) :
            /\ Seen(P)
            /\ IF P = Behind(walking, S)
               THEN over' = TRUE /\ UNCHANGED place
               ELSE /\ \E last \in P : /\ \A i \in P : ~ Precedes(walking, last, i)
                                       /\ place' = <<listed[last], last>>
                    /\ UNCHANGED over
  BY DEF CursorPage
<1> DEFINE rest == Behind(walking, S)
<1>2. PICK P \in Firsts(walking, rest, PageLimit) :
            /\ Seen(P)
            /\ IF P = rest
               THEN over' = TRUE /\ UNCHANGED place
               ELSE /\ \E last \in P : /\ \A i \in P : ~ Precedes(walking, last, i)
                                       /\ place' = <<listed[last], last>>
                    /\ UNCHANGED over
  BY <1>1
<1>3. /\ UNCHANGED <<listed, walking, stayed, changes>>
      /\ walking \in CursorLists /\ walking \notin OffsetLists /\ ~ over
  BY DEF CursorPage, OffsetLists, CursorLists
<1>4. S \subseteq D /\ rest \subseteq S /\ P \subseteq rest
  BY <1>1, <1>2 DEF Source, Firsts, Behind
<1>5. answered' \in [RowIds -> Nat]
  BY <1>2 DEF Seen, ListingTypeOK
<1>6. place' \in {<<>>} \cup (SortValues \X RowIds) /\ over' \in BOOLEAN
  <2>1. CASE P = rest
    BY <1>2, <1>3, <2>1
  <2>2. CASE P # rest
    <3>1. PICK last \in P : place' = <<listed[last], last>>
      BY <1>2, <2>2
    <3>2. last \in D
      BY <1>4
    <3>3. listed[last] \in SortValues /\ last \in RowIds
      BY <3>2 DEF ListingTypeOK
    <3>4. <<listed[last], last>> \in SortValues \X RowIds
      BY <3>3
    <3>5. over' = over
      BY <1>2, <2>2
    <3> QED BY <3>1, <3>4, <3>5 DEF ListingTypeOK
  <2> QED BY <2>1, <2>2
<1>7. ListingTypeOK'
  BY <1>3, <1>5, <1>6 DEF ListingTypeOK
<1>8. WalkTypeOK'
  BY <1>3, <1>6, <1>7
<1>9. OffsetExact'
  BY <1>3 DEF OffsetExact, OffsetLists
<1>10. CursorExact'
  <2> SUFFICES ASSUME walking \in {"jobs", "outages_asc"} PROVE CursorExact'
    BY <1>3 DEF CursorExact
  <2>1. S = D
    BY <1>1 DEF Source
  <2>2. \A i \in stayed : answered[i] = IF i \in rest THEN 0 ELSE 1
    BY <1>3, <2>1 DEF CursorExact, Behind, ListingTypeOK
  <2>3. \A i \in stayed : answered'[i] = IF i \in rest \ P THEN 0 ELSE 1
    BY <1>2, <1>4, <2>2 DEF Seen, ListingTypeOK
  <2>4. CASE P = rest
    BY <1>2, <1>3, <2>3, <2>4 DEF CursorExact
  <2>5. CASE P # rest
    <3>1. PICK last \in P : /\ \A i \in P : ~ Precedes(walking, last, i)
                            /\ place' = <<listed[last], last>>
      BY <1>2, <2>5
    <3>2. ~ over' /\ place' # <<>> /\ place'[1] = listed[last] /\ place'[2] = last
      BY <1>2, <1>3, <2>5, <3>1
    <3>3. \A i \in D : i \in Nat /\ listed[i] \in Nat
      BY DEF ListingTypeOK, RowIds, SortValues
    <3>4. last \in rest /\ last \in D
      BY <1>4
    <3>a. \A i, j \in D :
            Precedes(walking, i, j) <=>
              IF walking = "outages_asc"
              THEN listed[i] < listed[j] \/ (listed[i] = listed[j] /\ i < j)
              ELSE listed[i] > listed[j] \/ (listed[i] = listed[j] /\ i > j)
      BY DEF Precedes, JobOrder, OutageAscOrder, Newest, Oldest
    <3>5. \A i \in D : AfterCursor(walking, i)' <=> Precedes(walking, last, i)
      BY <1>3, <3>2, <3>3, <3>4, <3>a DEF AfterCursor
    <3>6. \A i \in rest \ P : Precedes(walking, last, i)
      <4>1. \A i \in rest \ P : ~ Precedes(walking, i, last) /\ i # last /\ i \in D
        BY <1>2, <1>4, <3>1 DEF Firsts
      <4>2. \A i \in D : i # last => Precedes(walking, i, last) \/ Precedes(walking, last, i)
        BY <3>3, <3>4, <3>a
      <4> QED BY <4>1, <4>2
    <3>7. \A i \in D \ rest : ~ Precedes(walking, last, i)
      <4> SUFFICES ASSUME NEW i \in D \ rest PROVE ~ Precedes(walking, last, i)
        OBVIOUS
      <4>1. place # <<>> /\ ~ AfterCursor(walking, i) /\ AfterCursor(walking, last)
        BY <2>1, <3>4 DEF Behind
      <4>2. place \in SortValues \X RowIds
        BY <1>3, <4>1
      <4>3. place[1] \in Nat /\ place[2] \in Nat
        BY <4>2 DEF SortValues, RowIds
      <4> QED BY <3>3, <3>4, <3>a, <4>1, <4>3 DEF AfterCursor
    <3>8. stayed \subseteq D
      BY DEF ListingTypeOK
    <3>9. \A i \in stayed : answered'[i] = IF ~ AfterCursor(walking, i)' THEN 1 ELSE 0
      BY <2>3, <3>1, <3>5, <3>6, <3>7, <3>8, <1>4
    <3> QED BY <1>3, <3>2, <3>9 DEF CursorExact
  <2> QED BY <2>4, <2>5
<1> QED BY <1>8, <1>9, <1>10

LEMMA WalkStep == WalkInv /\ [ListingNext]_listVars => WalkInv'
<1> SUFFICES ASSUME WalkInv, [ListingNext]_listVars PROVE WalkInv'
  OBVIOUS
<1>1. ASSUME NEW i \in RowIds, NEW v \in SortValues, InsertRow(i, v) PROVE WalkInv'
  <2>1. DOMAIN listed' = DOMAIN listed \cup {i}
        /\ \A x \in DOMAIN listed' : listed'[x] = IF x = i THEN v ELSE listed[x]
    BY <1>1 DEF InsertRow
  <2>2. Changed(i)
    BY <1>1 DEF InsertRow
  <2> QED BY <2>1, <2>2, WalkChange DEF WalkInv, WalkTypeOK, ListingTypeOK
<1>2. ASSUME NEW i \in RowIds, NEW v \in SortValues, UpdateRow(i, v) PROVE WalkInv'
  <2>1. DOMAIN listed' = DOMAIN listed
        /\ \A x \in DOMAIN listed' : listed'[x] = IF x = i THEN v ELSE listed[x]
    BY <1>2 DEF UpdateRow
  <2>2. Changed(i)
    BY <1>2 DEF UpdateRow
  <2> QED BY <2>1, <2>2, WalkChange DEF WalkInv, WalkTypeOK, ListingTypeOK
<1>3. ASSUME NEW i \in RowIds, DeleteRow(i) PROVE WalkInv'
  <2>1. DOMAIN listed' = DOMAIN listed \ {i}
        /\ \A x \in DOMAIN listed' : listed'[x] = listed[x]
    BY <1>3 DEF DeleteRow
  <2>2. Changed(i)
    BY <1>3 DEF DeleteRow
  <2> QED BY <2>1, <2>2, WalkChange DEF WalkInv, WalkTypeOK, ListingTypeOK
<1>4. CASE UNCHANGED listVars
  BY <1>4 DEF listVars, WalkInv, WalkTypeOK, ListingTypeOK, CursorExact, AfterCursor, OffsetExact,
     FirstRows, OutageDescOrder, Newest
<1> QED BY <1>1, <1>2, <1>3, <1>4, WalkStart, WalkCursor, WalkOffset, WalkEnd DEF ListingNext

\* A walk of the job list, or of the outages in ascending order, that runs to
\* its end has each row that did not change meanwhile on exactly one page,
\* whatever was written between the pages; so has an offset walk of outages,
\* wallets or webhooks when nothing was written (list_jobs, list_cursor, list,
\* list_wallets, list_webhooks).
THEOREM WalksAreExact == ListingSpec => []CursorWalkExact
<1>1. WalkInv => CursorWalkExact
  BY DEF WalkInv, WalkTypeOK, ListingTypeOK, CursorExact, OffsetExact, CursorWalkExact, WalkExact
<1> QED BY <1>1, WalkInit, WalkStep, PTL DEF ListingSpec

LEMMA ListingTyped == ListingSpec => []ListingTypeOK
<1>1. WalkInv => ListingTypeOK
  BY DEF WalkInv, WalkTypeOK
<1> QED BY <1>1, WalkInit, WalkStep, PTL DEF ListingSpec

-----------------------------------------------------------------------------
(* SlaReports                                                              *)

\* What the sum of a function over a subset of its domain has to be: nothing
\* of nothing, and otherwise one summand and the sum of the rest.
SumStep(c, g) ==
    [s \in SUBSET DOMAIN c |->
        IF s = {} THEN 0
        ELSE c[CHOOSE x \in s : TRUE] + g[s \ {CHOOSE x \in s : TRUE}]]

LEMMA SumFunctionDef ==
    ASSUME NEW c
    PROVE  SumFunction(c) = (CHOOSE g : g = SumStep(c, g))[DOMAIN c]
  BY DEF SumFunction, SumFunctionOnSet, FoldFunctionOnSet, MapThenFoldSet, SumStep

\* The elements of S, counted class by class: the number of those in the
\* classes T solves SumStep, and nothing else does, by induction on the number
\* of classes.
LEMMA SumOfClasses ==
    ASSUME NEW S, IsFiniteSet(S), NEW class, NEW D, IsFiniteSet(D),
           \A i \in S : class[i] \in D,
           NEW c, c = [d \in D |-> Cardinality({i \in S : class[i] = d})]
    PROVE  SumFunction(c) = Cardinality(S)
<1> DEFINE In(T) == {i \in S : class[i] \in T}
           h == [T \in SUBSET D |-> Cardinality(In(T))]
           G == CHOOSE g : g = SumStep(c, g)
<1>0. DOMAIN c = D /\ \A d \in D : c[d] = Cardinality({i \in S : class[i] = d})
  OBVIOUS
<1>1. \A T \in SUBSET D : IsFiniteSet(In(T)) /\ Cardinality(In(T)) \in Nat
  <2> SUFFICES ASSUME NEW T \in SUBSET D
               PROVE  IsFiniteSet(In(T)) /\ Cardinality(In(T)) \in Nat
    OBVIOUS
  <2>1. In(T) \in SUBSET S
    OBVIOUS
  <2>2. IsFiniteSet(In(T))
    BY <2>1, FS_Subset
  <2> QED BY <2>2, FS_CardinalityType
<1>2. ASSUME NEW T \in SUBSET D, NEW d \in T
      PROVE  h[T] = c[d] + h[T \ {d}]
  <2> DEFINE A == {i \in S : class[i] = d}
             B == In(T \ {d})
  <2>1. In(T) = A \cup B /\ A \cap B = {}
    OBVIOUS
  <2>2. A = In({d}) /\ {d} \in SUBSET D /\ T \ {d} \in SUBSET D
    OBVIOUS
  <2>3. IsFiniteSet(A) /\ IsFiniteSet(B) /\ Cardinality(A) \in Nat /\ Cardinality(B) \in Nat
    BY <1>1, <2>2
  <2>4. Cardinality(A \cup B) = Cardinality(A) + Cardinality(B) - Cardinality(A \cap B)
    BY <2>3, FS_Union
  <2>5. Cardinality(A \cap B) = 0
    BY <2>1, FS_EmptySet
  <2>6. c[d] = Cardinality(A) /\ h[T] = Cardinality(A \cup B) /\ h[T \ {d}] = Cardinality(B)
    BY <1>0, <2>1, <2>2
  <2> HIDE DEF A, B, h
  <2> QED BY <2>3, <2>4, <2>5, <2>6
<1>3. h[{}] = 0
  <2>1. In({}) = {} /\ {} \in SUBSET D
    OBVIOUS
  <2> QED BY <2>1, FS_EmptySet
<1>4. h = SumStep(c, h)
  <2>1. ASSUME NEW T \in SUBSET D
        PROVE  h[T] = IF T = {} THEN 0
                      ELSE c[CHOOSE x \in T : TRUE] + h[T \ {CHOOSE x \in T : TRUE}]
    <3> DEFINE d == CHOOSE x \in T : TRUE
    <3>1. CASE T = {}
      BY <1>3, <3>1
    <3>2. CASE T # {}
      <4>1. d \in T
        BY <3>2
      <4> HIDE DEF d, h
      <4>2. h[T] = c[d] + h[T \ {d}]
        BY <1>2, <4>1
      <4> QED BY <3>2, <4>2 DEF d
    <3> QED BY <3>1, <3>2
  <2>2. DOMAIN h = SUBSET D /\ h = [T \in SUBSET D |-> h[T]]
    OBVIOUS
  <2> HIDE DEF h
  <2> QED BY <1>0, <2>1, <2>2 DEF SumStep
<1>5. G = SumStep(c, G)
  <2> HIDE DEF h
  <2> QED BY <1>4
<1> HIDE DEF G, h
<1>6. \A T \in SUBSET D : G[T] = IF T = {} THEN 0
                      ELSE c[CHOOSE x \in T : TRUE] + G[T \ {CHOOSE x \in T : TRUE}]
  BY <1>0, <1>5 DEF SumStep
<1>7. \A T \in SUBSET D : G[T] = h[T]
  <2> DEFINE Bad == {T \in SUBSET D : G[T] # h[T]}
             N == {n \in Nat : \E T \in Bad : Cardinality(T) = n}
             Less == OpToRel(<, Nat)
  <2> SUFFICES ASSUME Bad # {} PROVE FALSE
    OBVIOUS
  <2>1. \A T \in SUBSET D : IsFiniteSet(T) /\ Cardinality(T) \in Nat
    BY FS_Subset, FS_CardinalityType
  <2>2. N \subseteq Nat /\ N # {}
    BY <2>1
  <2>3. IsWellFoundedOn(Less, Nat)
    BY NatLessThanWellFounded
  <2>4. \A k, m \in Nat : k < m => <<k, m>> \in Less
    BY DEF OpToRel
  <2> HIDE DEF Less
  <2>5. PICK n \in N : \A m \in N : ~ (<<m, n>> \in Less)
    <3> HIDE DEF N
    <3> QED BY <2>2, <2>3, WFMin
  <2>6. PICK T \in Bad : Cardinality(T) = n
    OBVIOUS
  <2>7. T # {}
    BY <1>3, <1>6, <2>6
  <2> DEFINE d == CHOOSE x \in T : TRUE
  <2>8. d \in T
    BY <2>7
  <2>9. G[T] = c[d] + G[T \ {d}]
    BY <1>6, <2>7
  <2> HIDE DEF d
  <2>10. h[T] = c[d] + h[T \ {d}]
    BY <1>2, <2>8
  <2>11. T \ {d} \in SUBSET D /\ Cardinality(T \ {d}) \in Nat /\ Cardinality(T \ {d}) < n
    <3>1. Cardinality(T \ {d}) = Cardinality(T) - 1
      BY <2>1, <2>8, FS_RemoveElement
    <3>2. Cardinality(T \ {d}) \in Nat
      BY <2>1
    <3> QED BY <2>6, <3>1, <3>2
  <2>12. T \ {d} \notin Bad
    BY <2>4, <2>5, <2>11
  <2>13. G[T \ {d}] = h[T \ {d}]
    BY <2>11, <2>12
  <2> QED BY <2>6, <2>9, <2>10, <2>13
<1>8. h[D] = Cardinality(S)
  <2>1. In(D) = S
    OBVIOUS
  <2> QED BY <2>1 DEF h
<1>9. SumFunction(c) = G[D]
  BY <1>0, SumFunctionDef DEF G
<1> QED BY <1>7, <1>8, <1>9

\* A snapshot row and the variables of a request have their fields.
SnapshotRow(x) == x = [stamp |-> x.stamp, kpis |-> x.kpis, avg_mttr |-> x.avg_mttr]
ReportVars(x) == x = [query |-> x.query, row |-> x.row] /\ SnapshotRow(x.row)

\* The results are numbered without a gap; an outage has at most one latest.
ResultsOK ==
    /\ \E n \in Nat : n <= MaxSlaRows /\ DOMAIN slaRows = 1 .. n
    /\ \A i \in DOMAIN slaRows : slaRows[i] \in SlaRow
    /\ \A i, j \in DOMAIN slaRows :
         slaRows[i].latest /\ slaRows[j].latest /\ slaRows[i].outage = slaRows[j].outage => i = j

ReporterOK(r) == ReportVars(repReq[r]) /\ repReq[r].query \in Queries

\* What a key holds was computed for a query that has the key.
FiguresOK == \A k \in DOMAIN figures : figures[k] \in Queries /\ ReportKey(figures[k]) = k

ReportsInv ==
    /\ ResultsOK
    /\ DOMAIN repPc = Reporters /\ DOMAIN repReq = Reporters
    /\ \A r \in Reporters : ReporterOK(r)
    /\ SnapshotRow(snapshot)
    /\ FiguresOK

LEMMA NothingReported == ReportVars(NoReport) /\ NoReport.row = NoSnapshot /\ NoReport.query = Unfiltered
<1> DEFINE z == Totals({})
<1> HIDE DEF z
<1>1. NoSnapshot = [stamp |-> 0, kpis |-> z, avg_mttr |-> 0]
  BY DEF NoSnapshot, z
<1>2. SnapshotRow(NoSnapshot)
  BY <1>1 DEF SnapshotRow
<1> QED BY <1>2 DEF NoReport, ReportVars

LEMMA ReportsInvInit == ReportsInit => ReportsInv
<1> SUFFICES ASSUME ReportsInit PROVE ReportsInv
  OBVIOUS
<1>1. DOMAIN slaRows = 1 .. 0 /\ 0 <= MaxSlaRows /\ \A i \in DOMAIN slaRows : FALSE
  BY ReportsAssumption DEF ReportsInit
<1>2. ResultsOK
  BY <1>1 DEF ResultsOK
<1>3. \A r \in Reporters : repReq[r] = NoReport
  BY DEF ReportsInit
<1>4. \A r \in Reporters : ReporterOK(r)
  BY <1>3, NothingReported, ReportsAssumption DEF ReporterOK
<1>5. SnapshotRow(snapshot)
  BY NothingReported DEF ReportVars, ReportsInit
<1>6. FiguresOK
  BY DEF ReportsInit, FiguresOK
<1> QED BY <1>2, <1>4, <1>5, <1>6 DEF ReportsInv, ReportsInit

LEMMA StoreResults ==
    ASSUME ReportsInv, NEW o \in Reported, NEW m \in Mttrs, NEW d \in Days, StoreSla(o, m, d)
    PROVE  ReportsInv'
<1>1. PICK n \in Nat : DOMAIN slaRows = 1 .. n
  BY DEF ReportsInv, ResultsOK
<1>2. Cardinality(DOMAIN slaRows) = n
  BY <1>1, FS_Interval
<1> DEFINE t == TRUE
           f == FALSE
           new == [outage |-> o, latest |-> t, mttr |-> m, day |-> d, recent |-> t]
<1>0. t \in BOOLEAN /\ f \in BOOLEAN /\ f = FALSE
  OBVIOUS
<1>3. n + 1 <= MaxSlaRows /\ DOMAIN slaRows' = 1 .. n + 1
      /\ slaRows'[n + 1] = new
      /\ \A i \in 1 .. n : slaRows'[i] = IF slaRows[i].outage = o
                                        THEN [slaRows[i] EXCEPT !.latest = f] ELSE slaRows[i]
  BY <1>2 DEF StoreSla
<1> HIDE DEF t, f
<1>4. new \in SlaRow /\ new.outage = o
  BY <1>0 DEF SlaRow
<1> HIDE DEF new
<1>5. ASSUME NEW i \in 1 .. n
      PROVE  /\ slaRows'[i] \in SlaRow /\ slaRows'[i].outage = slaRows[i].outage
             /\ slaRows'[i].latest => slaRows[i].latest /\ slaRows[i].outage # o
  <2>1. slaRows[i] \in SlaRow
    BY <1>1 DEF ReportsInv, ResultsOK
  <2>2. CASE slaRows[i].outage = o
    <3>1. slaRows'[i] = [slaRows[i] EXCEPT !.latest = f]
      BY <1>3, <2>2
    <3>2. slaRows'[i] \in SlaRow /\ slaRows'[i].outage = slaRows[i].outage
          /\ slaRows'[i].latest = f
      BY <1>0, <2>1, <3>1 DEF SlaRow
    <3> QED BY <1>0, <3>2
  <2>3. CASE slaRows[i].outage # o
    BY <1>3, <2>1, <2>3
  <2> QED BY <2>2, <2>3
<1>6. ResultsOK'
  <2>1. \A i \in 1 .. n + 1 : i \in 1 .. n \/ i = n + 1
    OBVIOUS
  <2>2. \A i, j \in 1 .. n :
          slaRows[i].latest /\ slaRows[j].latest /\ slaRows[i].outage = slaRows[j].outage => i = j
    BY <1>1 DEF ReportsInv, ResultsOK
  <2>3. \A i \in DOMAIN slaRows' : slaRows'[i] \in SlaRow
    BY <1>3, <1>4, <1>5, <2>1
  <2>4. \A i, j \in DOMAIN slaRows' :
          slaRows'[i].latest /\ slaRows'[j].latest /\ slaRows'[i].outage = slaRows'[j].outage => i = j
    BY <1>3, <1>4, <1>5, <2>1, <2>2
  <2>5. n + 1 \in Nat
    OBVIOUS
  <2> QED BY <1>3, <2>3, <2>4, <2>5 DEF ResultsOK
<1> QED BY <1>6 DEF StoreSla, ReportsInv, ReporterOK, FiguresOK

LEMMA LeaveResults ==
    ASSUME ReportsInv, NEW i \in DOMAIN slaRows, LeavesScan(i)
    PROVE  ReportsInv'
<1> DEFINE f == FALSE
<1>0. f \in BOOLEAN
  OBVIOUS
<1> DEFINE row == slaRows[i]
           new == [row EXCEPT !.recent = f]
<1>1. slaRows' = [slaRows EXCEPT ![i] = new]
  BY DEF LeavesScan
<1> HIDE DEF f
<1>2. row \in SlaRow
  BY DEF ReportsInv, ResultsOK
<1>3. new \in SlaRow /\ new.latest = row.latest /\ new.outage = row.outage
  <2> HIDE DEF row
  <2> QED BY <1>0, <1>2 DEF SlaRow
<1> HIDE DEF new
<1>4. DOMAIN slaRows' = DOMAIN slaRows
      /\ \A j \in DOMAIN slaRows : slaRows'[j] = IF j = i THEN new ELSE slaRows[j]
  BY <1>1
<1>5. ResultsOK'
  BY <1>3, <1>4 DEF ReportsInv, ResultsOK
<1> QED BY <1>5 DEF LeavesScan, ReportsInv, ReporterOK, FiguresOK

\* A step of one request that writes no result.
LEMMA RequestInv ==
    ASSUME ReportsInv, NEW r \in Reporters, slaRows' = slaRows,
           \A x \in Reporters \ {r} : repReq'[x] = repReq[x] /\ repPc'[x] = repPc[x],
           DOMAIN repPc' = Reporters, DOMAIN repReq' = Reporters,
           ReporterOK(r)', snapshot' = snapshot \/ snapshot' = repReq[r].row, FiguresOK'
    PROVE  ReportsInv'
<1>1. ResultsOK'
  BY DEF ReportsInv, ResultsOK
<1>2. \A x \in Reporters : ReporterOK(x)'
  BY DEF ReportsInv, ReporterOK
<1>3. SnapshotRow(snapshot)'
  BY DEF ReportsInv, ReporterOK, ReportVars
<1> QED BY <1>1, <1>2, <1>3 DEF ReportsInv

\* The request is over.
LEMMA RepEndOK ==
    ASSUME ReportsInv, NEW r \in Reporters, RepEnd(r)
    PROVE  /\ DOMAIN repPc' = Reporters /\ DOMAIN repReq' = Reporters
           /\ \A x \in Reporters \ {r} : repReq'[x] = repReq[x] /\ repPc'[x] = repPc[x]
           /\ ReporterOK(r)'
<1>1. /\ DOMAIN repPc' = Reporters /\ DOMAIN repReq' = Reporters
      /\ \A x \in Reporters \ {r} : repReq'[x] = repReq[x] /\ repPc'[x] = repPc[x]
      /\ repReq'[r] = NoReport
  BY DEF ReportsInv, RepEnd, RepGoto
<1> QED BY <1>1, NothingReported, ReportsAssumption DEF ReporterOK

\* A step of one request to the variables n.
LEMMA RepMovesOK ==
    ASSUME ReportsInv, NEW r \in Reporters, NEW step, NEW n, RepGoto(r, step), repReq' = [repReq EXCEPT ![r] = n],
           ReportVars(n), n.query \in Queries, UNCHANGED <<slaRows, snapshot, figures>>
    PROVE  ReportsInv'
<1>1. /\ DOMAIN repPc' = Reporters /\ DOMAIN repReq' = Reporters
      /\ \A x \in Reporters \ {r} : repReq'[x] = repReq[x] /\ repPc'[x] = repPc[x]
      /\ repReq'[r] = n
  BY DEF ReportsInv, RepGoto
<1>2. ReporterOK(r)' /\ FiguresOK'
  BY <1>1 DEF ReporterOK, ReportsInv, FiguresOK
<1> QED BY <1>1, <1>2, RequestInv

LEMMA ReadInv ==
    ASSUME ReportsInv, NEW r \in Reporters, NEW f \in Queries, ReadReport(r, f)
    PROVE  ReportsInv'
<1>1. CASE RepEnd(r)
  <2>1. slaRows' = slaRows /\ snapshot' = snapshot /\ FiguresOK'
    BY DEF ReadReport, ReportsInv, FiguresOK
  <2> QED BY <1>1, <2>1, RepEndOK, RequestInv
<1>2. CASE RepGoto(r, "read") /\ repReq' = [repReq EXCEPT ![r].query = f]
  <2> DEFINE q == repReq[r]
             n == [q EXCEPT !.query = f]
  <2>1. repReq' = [repReq EXCEPT ![r] = n] /\ ReportVars(q)
    BY <1>2 DEF ReportsInv, ReporterOK
  <2> HIDE DEF q
  <2>2. q = [query |-> q.query, row |-> q.row] /\ SnapshotRow(q.row)
    BY <2>1 DEF ReportVars
  <2>3. ReportVars(n) /\ n.query \in Queries
    BY <2>2 DEF ReportVars
  <2> HIDE DEF n
  <2> QED BY <1>2, <2>1, <2>3, RepMovesOK DEF ReadReport
<1> QED BY <1>1, <1>2 DEF ReadReport

LEMMA KpisInv ==
    ASSUME ReportsInv, NEW r \in Reporters, SnapshotKpis(r)
    PROVE  ReportsInv'
<1> DEFINE K == Kpis(Unfiltered)
           q == repReq[r]
           row == q.row
           row1 == [row EXCEPT !.kpis = K]
           n == [q EXCEPT !.row = row1]
<1>1. ReportVars(q) /\ DOMAIN repReq = Reporters /\ q.query \in Queries
  BY DEF ReportsInv, ReporterOK
<1>2. repReq' = [repReq EXCEPT ![r].row.kpis = K]
  BY DEF SnapshotKpis
<1> HIDE DEF K
<1>3. repReq' = [repReq EXCEPT ![r] = n]
  BY <1>1, <1>2 DEF ReportVars, SnapshotRow
<1>4. SnapshotRow(row1)
  <2>1. SnapshotRow(row)
    BY <1>1 DEF ReportVars
  <2> HIDE DEF row
  <2> QED BY <2>1 DEF SnapshotRow
<1> HIDE DEF row1
<1>5. ReportVars(n) /\ n.query \in Queries
  <2> HIDE DEF q
  <2>1. q = [query |-> q.query, row |-> q.row]
    BY <1>1 DEF ReportVars
  <2> QED BY <1>1, <1>4, <2>1 DEF ReportVars
<1> HIDE DEF n
<1> QED BY <1>3, <1>5, RepMovesOK DEF SnapshotKpis

LEMMA PerfInv ==
    ASSUME ReportsInv, NEW r \in Reporters, SnapshotPerf(r)
    PROVE  ReportsInv'
<1> DEFINE P == Performance(Unfiltered).avg_mttr
           m == stamps + 1
           q == repReq[r]
           row == q.row
           row1 == [row EXCEPT !.avg_mttr = P]
           row2 == [row1 EXCEPT !.stamp = m]
           n == [q EXCEPT !.row = row2]
<1>1. ReportVars(q) /\ DOMAIN repReq = Reporters /\ q.query \in Queries
  BY DEF ReportsInv, ReporterOK
<1>2. repReq' = [repReq EXCEPT ![r].row.avg_mttr = P, ![r].row.stamp = m]
  BY DEF SnapshotPerf
<1> HIDE DEF P, m
<1>3. repReq' = [repReq EXCEPT ![r] = n]
  BY <1>1, <1>2 DEF ReportVars, SnapshotRow
<1>4. SnapshotRow(row2)
  <2>1. SnapshotRow(row)
    BY <1>1 DEF ReportVars
  <2> HIDE DEF row
  <2>2. SnapshotRow(row1)
    BY <2>1 DEF SnapshotRow
  <2> HIDE DEF row1
  <2> QED BY <2>2 DEF SnapshotRow
<1> HIDE DEF row2
<1>5. ReportVars(n) /\ n.query \in Queries
  <2> HIDE DEF q
  <2>1. q = [query |-> q.query, row |-> q.row]
    BY <1>1 DEF ReportVars
  <2> QED BY <1>1, <1>4, <2>1 DEF ReportVars
<1> HIDE DEF n
<1> QED BY <1>3, <1>5, RepMovesOK DEF SnapshotPerf

LEMMA ReportsInvStep == ReportsInv /\ [ReportsNext]_reportVars => ReportsInv'
<1> SUFFICES ASSUME ReportsInv, [ReportsNext]_reportVars PROVE ReportsInv'
  OBVIOUS
<1>1. ASSUME NEW r \in Reporters, CacheReport(r) PROVE ReportsInv'
  <2>1. slaRows' = slaRows /\ snapshot' = snapshot /\ RepEnd(r)
    BY <1>1 DEF CacheReport
  <2>2. PICK q \in Queries : q = repReq[r].query
    BY DEF ReportsInv, ReporterOK
  <2>3. figures' = [x \in DOMAIN figures \cup {ReportKey(q)} |-> IF x = ReportKey(q) THEN q ELSE figures[x]]
    BY <1>1, <2>2 DEF CacheReport
  <2>4. FiguresOK'
    BY <2>2, <2>3 DEF ReportsInv, FiguresOK
  <2> QED BY <2>1, <2>4, RepEndOK, RequestInv
<1>2. ASSUME NEW r \in Reporters, SnapshotCommit(r) PROVE ReportsInv'
  <2>1. /\ slaRows' = slaRows /\ RepEnd(r)
        /\ snapshot' = snapshot \/ snapshot' = repReq[r].row
    BY <1>2 DEF SnapshotCommit
  <2>2. FiguresOK'
    BY <1>2 DEF SnapshotCommit, FiguresOK
  <2> QED BY <2>1, <2>2, RepEndOK, RequestInv
<1>3. ASSUME UNCHANGED <<slaRows, snapshot, repPc, repReq>>, FiguresOK' PROVE ReportsInv'
  BY <1>3 DEF ReportsInv, ResultsOK, ReporterOK
<1>4. ASSUME NEW k \in DOMAIN figures, ReportExpires(k) PROVE ReportsInv'
  <2>1. FiguresOK'
    BY <1>4 DEF ReportExpires, ReportsInv, FiguresOK
  <2> QED BY <1>3, <1>4, <2>1 DEF ReportExpires
<1>5. CASE InvalidateReports
  <2>1. FiguresOK'
    BY <1>5 DEF InvalidateReports, FiguresOK
  <2> QED BY <1>3, <1>5, <2>1 DEF InvalidateReports
<1>6. CASE UNCHANGED reportVars
  <2>1. FiguresOK'
    BY <1>6 DEF reportVars, ReportsInv, FiguresOK
  <2> QED BY <1>3, <1>6, <2>1 DEF reportVars
<1> QED
  BY <1>1, <1>2, <1>4, <1>5, <1>6, StoreResults, LeaveResults, ReadInv, KpisInv, PerfInv DEF ReportsNext

\* The latest results of an outage are one, so ranking them changes nothing.
LEMMA KpisArePerformance ==
    ASSUME ReportsInv, NEW f
    PROVE  KpiRows(f) = PerfRows(f)
<1>1. \A i \in DOMAIN slaRows : i <= i
  BY DEF ReportsInv, ResultsOK
<1> QED BY <1>1 DEF ReportsInv, ResultsOK, KpiRows, PerfRows

\* The buckets of all days partition the results.
LEMMA TrendsAddUp ==
    ASSUME ReportsInv, NEW f
    PROVE  LET t == Trends(f, Cardinality(Days))
           IN  Kpis(f).total = SumFunction([d \in DOMAIN t |-> t[d].total])
<1> DEFINE S == KpiRows(f)
           class == [i \in DOMAIN slaRows |-> slaRows[i].day]
           used == {slaRows[i].day : i \in S}
           t == Trends(f, Cardinality(Days))
           c == [d \in DOMAIN t |-> t[d].total]
<1>1. S \in SUBSET DOMAIN slaRows /\ IsFiniteSet(S)
  <2>1. IsFiniteSet(DOMAIN slaRows)
    BY FS_Interval DEF ReportsInv, ResultsOK
  <2>2. S \in SUBSET DOMAIN slaRows
    BY DEF KpiRows
  <2> QED BY <2>1, <2>2, FS_Subset
<1>2. used \in SUBSET Days /\ IsFiniteSet(used) /\ \A i \in S : class[i] \in used
  <2>1. used \in SUBSET Days
    BY <1>1 DEF ReportsInv, ResultsOK, SlaRow
  <2>2. IsFiniteSet(used)
    BY <2>1, ReportsAssumption, FS_Subset
  <2> QED BY <1>1, <2>1, <2>2
<1>3. \A d \in used : Cardinality({e \in used : e > d}) < Cardinality(Days)
  <2> SUFFICES ASSUME NEW d \in used PROVE Cardinality({e \in used : e > d}) < Cardinality(Days)
    OBVIOUS
  <2> DEFINE L == {e \in used : e > d}
  <2>0. d \in Nat
    <3> HIDE DEF used
    <3> QED BY <1>2, ReportsAssumption
  <2>1. ~ (d > d)
    <3> HIDE DEF used
    <3> QED BY <2>0
  <2>2. L \in SUBSET (Days \ {d}) /\ d \in Days
    BY <1>2, <2>1
  <2>3. /\ IsFiniteSet(Days \ {d}) /\ Cardinality(Days) \in Nat
        /\ Cardinality(Days \ {d}) = Cardinality(Days) - 1
    BY <2>2, ReportsAssumption, FS_RemoveElement, FS_CardinalityType
  <2>4. IsFiniteSet(L) /\ Cardinality(L) <= Cardinality(Days \ {d})
    BY <2>2, <2>3, FS_Subset
  <2>5. Cardinality(L) \in Nat
    BY <2>4, FS_CardinalityType
  <2> QED BY <2>3, <2>4, <2>5
<1>4. t = [d \in used |-> Totals({i \in S : slaRows[i].day = d})]
  <2>1. {d \in used : Cardinality({e \in used : e > d}) < Cardinality(Days)} = used
    BY <1>3
  <2> QED BY <2>1 DEF Trends
<1>5. c = [d \in used |-> Cardinality({i \in S : class[i] = d})]
  <2>1. \A d \in used : {i \in S : slaRows[i].day = d} = {i \in S : class[i] = d}
    BY <1>1
  <2>2. DOMAIN t = used /\ \A d \in used : t[d].total = Cardinality({i \in S : class[i] = d})
    <3>1. \A d \in used : Totals({i \in S : slaRows[i].day = d}).total
                            = Cardinality({i \in S : class[i] = d})
      BY <2>1 DEF Totals
    <3> HIDE DEF S, class, used, t
    <3> QED BY <1>4, <3>1
  <2> HIDE DEF t, S, class
  <2> QED BY <2>2
<1> HIDE DEF S, class, used, c
<1>6. SumFunction(c) = Cardinality(S)
  BY <1>1, <1>2, <1>5, SumOfClasses
<1>7. Kpis(f).total = Cardinality(S)
  BY DEF Kpis, Totals, S
<1> QED BY <1>6, <1>7 DEF c

\* A key that two texts without underscores make is made by no other texts.
LEMMA PlainKeys ==
    ASSUME NEW S, NEW a \in Seq(S), NEW b \in Seq(S), NEW c \in Seq(S), NEW d \in Seq(S),
           Len(a) >= 1, Len(b) >= 1, Len(c) = 1, Len(d) = 1, a \o b = c \o d
    PROVE  a = c /\ b = d
<1>1. /\ Len(a \o b) = Len(a) + Len(b)
      /\ \A i \in 1 .. Len(a) + Len(b) : (a \o b)[i] = IF i <= Len(a) THEN a[i] ELSE b[i - Len(a)]
  BY ConcatProperties
<1>2. /\ Len(c \o d) = Len(c) + Len(d)
      /\ \A i \in 1 .. Len(c) + Len(d) : (c \o d)[i] = IF i <= Len(c) THEN c[i] ELSE d[i - Len(c)]
  BY ConcatProperties
<1>3. Len(a) = 1 /\ Len(b) = 1
  BY <1>1, <1>2
<1>4. a[1] = c[1] /\ b[1] = d[1]
  BY <1>1, <1>2, <1>3
<1> QED BY <1>3, <1>4

LEMMA ShownText ==
    ASSUME NEW v \in Seq(Pieces)
    PROVE  Shown(v) \in Seq(Pieces) /\ Len(Shown(v)) >= 1 /\ (Len(v) <= 1 => Len(Shown(v)) = 1)
<1>1. CASE v = <<>>
  <2>1. PICK n \in Pieces : n = "None"
    BY ReportsAssumption
  <2>2. Shown(v) = <<n>>
    BY <1>1, <2>1 DEF Shown
  <2>3. <<n>> \in Seq(Pieces) /\ Len(<<n>>) = 1
    OBVIOUS
  <2> QED BY <2>2, <2>3
<1>2. CASE v # <<>>
  <2>1. Shown(v) = v
    BY <1>2 DEF Shown
  <2>2. Len(v) \in Nat \ {0}
    BY <1>2, EmptySeq
  <2> QED BY <2>1, <2>2
<1> QED BY <1>1, <1>2

\* The three reports add up the same results, and a query whose texts have no
\* underscore is answered from the cache with the figures of what it shows,
\* for every set of queries and however results, reports, snapshots and
\* invalidations interleave (aggregate_dashboard_kpis, aggregate_performance,
\* aggregate_trends, cache_key).
THEOREM ReportsStayTrue == ReportsSpec => []TotalsAgree /\ []PlainQueriesUnmixed
<1>1. ASSUME ReportsInv PROVE TotalsAgree
  <2>1. \A f \in Queries : Kpis(f) = Performance(f).totals
    BY <1>1, KpisArePerformance DEF Kpis, Performance
  <2> QED BY <1>1, <2>1, TrendsAddUp DEF TotalsAgree
<1>2. ASSUME ReportsInv PROVE PlainQueriesUnmixed
  <2> SUFFICES ASSUME NEW q \in Queries, Plain(q), ReportKey(q) \in DOMAIN figures,
                      NEW p, p = figures[ReportKey(q)]
               PROVE  Shown(p.severity) = Shown(q.severity) /\ Shown(p.site) = Shown(q.site)
    BY DEF PlainQueriesUnmixed
  <2>1. p \in Queries /\ ReportKey(p) = ReportKey(q)
    BY <1>2 DEF ReportsInv, FiguresOK
  <2>2. PICK a \in Seq(Pieces), b \in Seq(Pieces) : a = Shown(p.severity) /\ b = Shown(p.site)
    BY <2>1, ReportsAssumption, ShownText
  <2>3. PICK c \in Seq(Pieces), d \in Seq(Pieces) : c = Shown(q.severity) /\ d = Shown(q.site)
    BY ReportsAssumption, ShownText
  <2>4. Len(a) >= 1 /\ Len(b) >= 1 /\ Len(c) = 1 /\ Len(d) = 1
    BY <2>1, <2>2, <2>3, ReportsAssumption, ShownText DEF Plain
  <2>5. a \o b = c \o d
    BY <2>1, <2>2, <2>3 DEF ReportKey
  <2>6. a = c /\ b = d
    BY <2>4, <2>5, PlainKeys
  <2> QED BY <2>2, <2>3, <2>6
<1> QED BY <1>1, <1>2, ReportsInvInit, ReportsInvStep, PTL DEF ReportsSpec

ReportPcs == {"idle", "read", "kpis", "perf", "done"}

\* A request takes one time stamp at most, when it has read the performance.
MayHaveStamped == {r \in Reporters : repPc[r] \in {"perf", "done"}}

ReportTypes ==
    /\ stamps \in Nat /\ stamps <= Cardinality(MayHaveStamped)
    /\ snapshot.stamp \in 0 .. stamps
    /\ repPc \in [Reporters -> ReportPcs]
    /\ \A r \in Reporters : repReq[r].row.stamp \in 0 .. stamps

LEMMA NoStamp == NoReport.row.stamp = 0 /\ NoSnapshot.stamp = 0
<1> DEFINE z == Totals({})
<1> HIDE DEF z
<1>1. NoSnapshot = [stamp |-> 0, kpis |-> z, avg_mttr |-> 0]
  BY DEF NoSnapshot, z
<1>2. NoSnapshot.stamp = 0
  BY <1>1
<1> QED BY <1>2, NothingReported

LEMMA ReportTypesInit == ReportsInit => ReportTypes
<1> SUFFICES ASSUME ReportsInit PROVE ReportTypes
  OBVIOUS
<1>1. MayHaveStamped = {}
  BY DEF ReportsInit, MayHaveStamped
<1>2. Cardinality(MayHaveStamped) = 0
  BY <1>1, FS_EmptySet
<1> QED BY <1>2, NoStamp DEF ReportsInit, ReportTypes, ReportPcs

LEMMA StampersFinite ==
    IsFiniteSet(MayHaveStamped) /\ Cardinality(MayHaveStamped) \in Nat
    /\ Cardinality(MayHaveStamped) <= Cardinality(Reporters)
<1>1. MayHaveStamped \subseteq Reporters
  BY DEF MayHaveStamped
<1> QED BY <1>1, ReportsAssumption, FS_Subset, FS_CardinalityType

\* A step of one request.
LEMMA ReporterMoves ==
    ASSUME ReportsInv, ReportTypes, NEW r \in Reporters, NEW step \in ReportPcs, NEW q,
           RepGoto(r, step), repReq' = [repReq EXCEPT ![r] = q],
           repPc[r] \in {"perf", "done"} => step = "done",
           stamps' # stamps => stamps' = stamps + 1 /\ step = "perf" /\ repPc[r] = "kpis",
           q.row.stamp \in 0 .. stamps', snapshot'.stamp \in 0 .. stamps'
    PROVE  ReportTypes'
<1>1. /\ repPc' \in [Reporters -> ReportPcs] /\ repPc'[r] = step
      /\ \A x \in Reporters \ {r} : repPc'[x] = repPc[x] /\ repReq'[x] = repReq[x]
      /\ repReq'[r] = q
  BY DEF RepGoto, ReportTypes, ReportsInv
<1>2. stamps' \in Nat /\ stamps <= stamps' /\ stamps \in Nat
  BY DEF ReportTypes
<1>3. \A x \in Reporters : repReq'[x].row.stamp \in 0 .. stamps'
  <2>1. ASSUME NEW x \in Reporters \ {r}
        PROVE  repReq'[x].row.stamp \in 0 .. stamps'
    <3>1. repReq[x].row.stamp \in 0 .. stamps
      BY DEF ReportTypes
    <3> QED BY <1>1, <1>2, <3>1
  <2> QED BY <1>1, <2>1
<1>4. stamps' <= Cardinality(MayHaveStamped')
  <2>1. IsFiniteSet(MayHaveStamped') /\ Cardinality(MayHaveStamped') \in Nat
    <3>1. MayHaveStamped' \subseteq Reporters
      BY DEF MayHaveStamped
    <3> QED BY <3>1, ReportsAssumption, FS_Subset, FS_CardinalityType
  <2>2. CASE stamps' = stamps
    <3>1. MayHaveStamped \subseteq MayHaveStamped'
      BY <1>1 DEF MayHaveStamped
    <3>2. Cardinality(MayHaveStamped) <= Cardinality(MayHaveStamped')
      BY <2>1, <3>1, FS_Subset
    <3> QED BY <1>2, <2>1, <2>2, <3>2, StampersFinite DEF ReportTypes
  <2>3. CASE stamps' = stamps + 1 /\ step = "perf" /\ repPc[r] = "kpis"
    <3>1. MayHaveStamped' = MayHaveStamped \cup {r} /\ r \notin MayHaveStamped
      BY <1>1, <2>3 DEF MayHaveStamped
    <3>2. Cardinality(MayHaveStamped') = Cardinality(MayHaveStamped) + 1
      BY <3>1, StampersFinite, FS_AddElement
    <3> QED BY <1>2, <2>3, <3>2, StampersFinite DEF ReportTypes
  <2> QED BY <2>2, <2>3
<1> QED BY <1>1, <1>2, <1>3, <1>4 DEF ReportTypes

LEMMA ReporterEnds ==
    ASSUME ReportsInv, ReportTypes, NEW r \in Reporters, RepEnd(r), stamps' = stamps,
           snapshot'.stamp \in 0 .. stamps
    PROVE  ReportTypes'
<1> DEFINE d == "done"
<1>3. NoReport.row.stamp \in 0 .. stamps'
  BY NoStamp DEF ReportTypes
<1>4. d = "done" /\ d \in ReportPcs /\ RepGoto(r, d) /\ repReq' = [repReq EXCEPT ![r] = NoReport]
  BY DEF RepEnd, ReportPcs
<1>5. snapshot'.stamp \in 0 .. stamps'
  OBVIOUS
<1> HIDE DEF d
<1> QED BY <1>3, <1>4, <1>5, ReporterMoves

LEMMA RequestTypes ==
    ASSUME ReportsInv, ReportTypes, NEW r \in Reporters,
           \/ CacheReport(r) \/ SnapshotKpis(r) \/ SnapshotPerf(r) \/ SnapshotCommit(r)
           \/ \E f \in Queries : ReadReport(r, f)
    PROVE  ReportTypes'
<1> DEFINE q == repReq[r]
           row == q.row
<1>1. ReportVars(q) /\ q.row.stamp \in 0 .. stamps /\ stamps \in Nat
  BY DEF ReportsInv, ReporterOK, ReportTypes
<1>2. q = [query |-> q.query, row |-> row] /\ SnapshotRow(row)
  BY <1>1 DEF ReportVars
<1>3. snapshot.stamp \in 0 .. stamps
  BY DEF ReportTypes
<1>4. CASE CacheReport(r)
  BY <1>3, <1>4, ReporterEnds DEF CacheReport
<1>5. ASSUME NEW f \in Queries, ReadReport(r, f) PROVE ReportTypes'
  <2>1. UNCHANGED <<snapshot, stamps>> /\ repPc[r] = "idle"
    BY <1>5 DEF ReadReport
  <2>2. CASE RepEnd(r)
    BY <1>3, <2>1, <2>2, ReporterEnds
  <2>3. CASE RepGoto(r, "read") /\ repReq' = [repReq EXCEPT ![r].query = f]
    <3> DEFINE n == [q EXCEPT !.query = f]
               s == "read"
    <3>1. repReq' = [repReq EXCEPT ![r] = n] /\ RepGoto(r, s) /\ s \in ReportPcs /\ s # "perf"
      BY <2>3 DEF ReportPcs
    <3> HIDE DEF q, s
    <3>2. n.row = q.row
      BY <1>2
    <3>3. n.row.stamp \in 0 .. stamps'
      BY <1>1, <2>1, <3>2
    <3> HIDE DEF n
    <3>4. snapshot'.stamp \in 0 .. stamps' /\ stamps' = stamps /\ repPc[r] \notin {"perf", "done"}
      BY <1>3, <2>1
    <3> QED BY <3>1, <3>3, <3>4, ReporterMoves
  <2> QED BY <1>5, <2>2, <2>3 DEF ReadReport
<1>6. CASE SnapshotKpis(r)
  <2> DEFINE k == Kpis(Unfiltered)
             a == [row EXCEPT !.kpis = k]
             n == [q EXCEPT !.row = a]
             s == "kpis"
  <2>1. UNCHANGED <<snapshot, stamps>> /\ repPc[r] = "idle"
    BY <1>6 DEF SnapshotKpis
  <2> HIDE DEF k
  <2>2. repReq' = [repReq EXCEPT ![r].row.kpis = k]
    BY <1>6 DEF SnapshotKpis, k
  <2>3. repReq' = [repReq EXCEPT ![r] = n]
    BY <2>2 DEF ReportsInv
  <2>4. RepGoto(r, s) /\ s \in ReportPcs /\ s # "perf"
    BY <1>6 DEF SnapshotKpis, ReportPcs
  <2> HIDE DEF q, row, s
  <2>5. a.stamp = row.stamp
    BY <1>2 DEF SnapshotRow
  <2> HIDE DEF a
  <2>6. n.row = a
    BY <1>2
  <2>7. row.stamp \in 0 .. stamps
    BY <1>1 DEF row
  <2>8. n.row.stamp \in 0 .. stamps'
    BY <2>1, <2>5, <2>6, <2>7
  <2> HIDE DEF n
  <2>9. snapshot'.stamp \in 0 .. stamps' /\ stamps' = stamps /\ repPc[r] \notin {"perf", "done"}
    BY <1>3, <2>1
  <2> QED BY <2>3, <2>4, <2>8, <2>9, ReporterMoves
<1>7. CASE SnapshotPerf(r)
  <2> DEFINE m == Performance(Unfiltered).avg_mttr
             p == stamps + 1
             a == [row EXCEPT !.avg_mttr = m]
             b == [a EXCEPT !.stamp = p]
             n == [q EXCEPT !.row = b]
             s == "perf"
  <2>1. UNCHANGED snapshot /\ repPc[r] = "kpis" /\ stamps' = p /\ p = stamps + 1
    BY <1>7 DEF SnapshotPerf
  <2> HIDE DEF m, p
  <2>2. repReq' = [repReq EXCEPT ![r].row.avg_mttr = m, ![r].row.stamp = p]
    BY <1>7 DEF SnapshotPerf, m, p
  <2>3. repReq' = [repReq EXCEPT ![r] = n]
    BY <2>2 DEF ReportsInv
  <2>4. RepGoto(r, s) /\ s \in ReportPcs /\ s = "perf"
    BY <1>7 DEF SnapshotPerf, ReportPcs
  <2> HIDE DEF q, row, s
  <2>5. SnapshotRow(a)
    BY <1>2 DEF SnapshotRow
  <2> HIDE DEF a
  <2>6. b.stamp = p
    BY <2>5 DEF SnapshotRow
  <2> HIDE DEF b
  <2>7. n.row = b
    BY <1>2
  <2>8. p \in 0 .. p /\ snapshot.stamp \in 0 .. p
    BY <1>1, <1>3, <2>1
  <2>9. n.row.stamp \in 0 .. stamps' /\ snapshot'.stamp \in 0 .. stamps'
    BY <2>1, <2>6, <2>7, <2>8
  <2> HIDE DEF n
  <2> QED BY <2>1, <2>3, <2>4, <2>9, ReporterMoves
<1>8. CASE SnapshotCommit(r)
  <2>1. RepEnd(r) /\ stamps' = stamps /\ (snapshot' = row \/ snapshot' = snapshot)
    BY <1>8 DEF SnapshotCommit
  <2>2. snapshot'.stamp \in 0 .. stamps
    BY <1>1, <1>3, <2>1
  <2> QED BY <2>1, <2>2, ReporterEnds
<1> QED BY <1>4, <1>5, <1>6, <1>7, <1>8

LEMMA ReportTypesStep == ReportsInv /\ ReportTypes /\ [ReportsNext]_reportVars => ReportTypes'
<1> SUFFICES ASSUME ReportsInv, ReportTypes, [ReportsNext]_reportVars PROVE ReportTypes'
  OBVIOUS
<1>1. ASSUME UNCHANGED <<snapshot, stamps, repPc, repReq>> PROVE ReportTypes'
  BY <1>1 DEF ReportTypes, MayHaveStamped
<1>2. ASSUME NEW o \in Reported, NEW m \in Mttrs, NEW d \in Days, StoreSla(o, m, d) PROVE ReportTypes'
  BY <1>1, <1>2 DEF StoreSla
<1>3. ASSUME NEW i \in DOMAIN slaRows, LeavesScan(i) PROVE ReportTypes'
  BY <1>1, <1>3 DEF LeavesScan
<1>4. ASSUME NEW k \in DOMAIN figures, ReportExpires(k) PROVE ReportTypes'
  BY <1>1, <1>4 DEF ReportExpires
<1>5. CASE UNCHANGED reportVars \/ InvalidateReports
  BY <1>1, <1>5 DEF reportVars, InvalidateReports
<1> QED BY <1>2, <1>3, <1>4, <1>5, RequestTypes DEF ReportsNext

LEMMA ReportsTyped == ReportsSpec => []ReportsTypeOK
<1>1. ASSUME ReportsInv, ReportTypes PROVE ReportsTypeOK
  <2>1. DOMAIN slaRows \subseteq 1 .. MaxSlaRows /\ \A i \in DOMAIN slaRows : slaRows[i] \in SlaRow
    BY <1>1, ReportsAssumption DEF ReportsInv, ResultsOK
  <2>2. stamps \in 0 .. Cardinality(Reporters)
    BY <1>1, StampersFinite, ReportsAssumption, FS_CardinalityType DEF ReportTypes
  <2> QED BY <1>1, <2>1, <2>2 DEF ReportsInv, FiguresOK, ReportTypes, ReportPcs, ReportsTypeOK
<1> QED BY <1>1, ReportsInvInit, ReportsInvStep, ReportTypesInit, ReportTypesStep, PTL DEF ReportsSpec

-----------------------------------------------------------------------------
(* MCOperations: the components side by side                               *)

LEMMA OperationsSteps ==
    [Next]_<<subject, jobVars, importVars, listVars, hookVars, dispVars, polVars, reportVars,
             pageVars, seqVars, indexVars>> =>
        /\ [JobsNext]_jobVars /\ [ImportNext]_importVars /\ [ListingNext]_listVars
        /\ [RegistryNext]_hookVars /\ [DisputesNext]_dispVars /\ [PolicyNext]_polVars
        /\ [ReportsNext]_reportVars /\ [PagePollerNext]_pageVars
        /\ [SequencePollerNext]_seqVars /\ [TxIndexerNext]_indexVars
  BY DEF Next

\* A behaviour of the composition is a behaviour of each component, so that
\* every theorem about one of them holds of the composition as well.
THEOREM OperationsRunComponents ==
    Spec => /\ JobsSpec /\ ImportSpec /\ ListingSpec /\ RegistrySpec /\ DisputesSpec /\ PolicySpec
            /\ ReportsSpec /\ PagePollerSpec /\ SequencePollerSpec /\ TxIndexerSpec
<1>1. Init => /\ JobsInit /\ ImportInit /\ ListingInit /\ RegistryInit /\ DisputesInit /\ PolicyInit
              /\ ReportsInit /\ PagePollerInit /\ SequencePollerInit /\ TxIndexerInit
  BY DEF Init
<1> QED
  BY <1>1, OperationsSteps, PTL
  DEF Spec, JobsSpec, ImportSpec, ListingSpec, RegistrySpec, DisputesSpec, PolicySpec, ReportsSpec,
      PagePollerSpec, SequencePollerSpec, TxIndexerSpec

\* Every component's variables hold what they can hold, in every behaviour,
\* for every value of the constants.
THEOREM OperationsTypesHold == Spec => []TypeOK
<1>1. /\ JobsTypeOK /\ ImportTypeOK /\ ListingTypeOK /\ RegistryTypeOK /\ DisputesTypeOK
      /\ PolicyTypeOK /\ ReportsTypeOK /\ PagePollerTypeOK /\ SequencePollerTypeOK
      /\ TxIndexerTypeOK
      <=> TypeOK
  BY DEF TypeOK
<1> QED
  BY <1>1, OperationsRunComponents, JobsTyped, ImportTyped, ListingTyped, RegistryTyped, DisputesTyped,
     PolicyTyped, ReportsTyped, PagePollerTyped, SequencePollerTyped, TxIndexerTyped, PTL

\* What each component promises holds of the composition: the invariants that
\* the run over all of them checks.
THEOREM OperationsKeepTheirPromises ==
    Spec => /\ []SubmissionsDeduplicated /\ []SuccessIsReal /\ []RolledBackLeavesLost
            /\ []CursorWalkExact /\ []TombstoneGetsNoEvent /\ []LatestWasAwarded
            /\ []PublishedOnSeenVersion /\ []TotalsAgree /\ []PlainQueriesUnmixed
            /\ []CursorPassesHandled /\ []AskedAsDue /\ []CursorLeavesNoneOut
  BY OperationsRunComponents, SubmittedOnce, SuccessWasComputed, RollbackIsComplete, WalksAreExact,
     DeletedGetNothing, OnlyAwardedPromoted, NoVersionOverwritten, ReportsStayTrue, NoLedgerSkipped,
     BlocksInSequence, NoTransactionLeftOut, PTL

=============================================================================
