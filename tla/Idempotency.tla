---------------------------- MODULE Idempotency ----------------------------
(***************************************************************************)
(* The idempotency middleware: a state-changing request with an            *)
(* Idempotency-Key is looked up in Redis, handled, and its answer stored.  *)
(* Nothing marks a key as being handled.  Each worker process skips Redis  *)
(* for a while after an error, and requests then pass through unguarded.   *)
(* An answer is named by the request that was handled to produce it.       *)
(***************************************************************************)
EXTENDS SeqFilter

CONSTANTS
    IdemRequests, \* requests that carry an Idempotency-Key and a JSON body
    Actors,       \* bearer tokens
    Keys,
    Payloads,     \* fingerprints of method, path and body
    Workers,
    MaxCompleted, \* IDEMPOTENCY_MAX_COMPLETED_KEYS
    Nobody

ASSUME IdemAssumption == Nobody \notin IdemRequests /\ MaxCompleted \in Nat

VARIABLES
    answers,   \* the cached responses by cache key
    index,     \* cache keys of the completed index, the oldest first
    disabled,   \* workers whose circuit is open
    idemPc, idem,
    lost       \* actors and keys whose stored answer has expired or was evicted

idemVars == <<answers, index, disabled, idemPc, idem, lost>>

IdemSteps == {"idle", "handle", "store", "track", "count", "range", "delete", "forget", "done"}

\* blind: Redis was not consulted.  before: requests that had stored an answer
\* for the same actor and key.  end: how the client was answered.
NoIdem ==
    [actor |-> Nobody, key |-> Nobody, payload |-> Nobody, worker |-> Nobody,
     blind |-> FALSE, before |-> {}, stored |-> FALSE, overflow |-> 0, oldest |-> <<>>,
     answer |-> Nobody, end |-> "none"]

\* The cache key built from the payload as well.
KeyWithPayload(q) == <<q.actor, q.key, q.payload>>

\* cache_key: the actor's token and the Idempotency-Key.
CacheKey(q) == <<q.actor, q.key>>

IdemTypeOK ==
    /\ \A k \in DOMAIN answers : answers[k].by \in IdemRequests /\ answers[k].payload \in Payloads
    /\ index \in Seq(Actors \X Keys) /\ \A i, j \in DOMAIN index : index[i] = index[j] => i = j
    /\ disabled \subseteq Workers
    /\ idemPc \in [IdemRequests -> IdemSteps]
    /\ \A r \in IdemRequests : idem[r].end \in {"none", "handled", "failed", "replayed", "conflict"}
    /\ lost \subseteq Actors \X Keys

-----------------------------------------------------------------------------

IdemGoto(r, step) == idemPc' = [idemPc EXCEPT ![r] = step]
IdemEnd(r) ==
    /\ IdemGoto(r, "done")
    /\ idem' = [idem EXCEPT ![r].overflow = 0, ![r].oldest = <<>>]

\* _circuit_open, _trip_circuit: the call is skipped, or it fails.
Reachable(w) == w \notin disabled
TripCircuit(w) == disabled' = disabled \cup {w}

\* Requests of q's actor and key that have stored a successful answer.
Finished(q) ==
    {p \in IdemRequests : idemPc[p] = "done" /\ idem[p].stored
                          /\ idem[p].actor = q.actor /\ idem[p].key = q.key}

Begun(q) == [q EXCEPT !.before = Finished(q)]

\* dispatch, up to the answer that was found or the call of the handler.
Lookup(r, q) ==
    /\ idemPc[r] = "idle"
    /\ \/ /\ Reachable(q.worker) /\ CacheKey(q) \in DOMAIN answers
          /\ LET found == answers[CacheKey(q)]
             IN  idem' = [idem EXCEPT ![r] =
                            [Begun(q) EXCEPT !.answer = found.by,
                                !.end = IF found.payload = q.payload THEN "replayed" ELSE "conflict"]]
          /\ IdemGoto(r, "done") /\ UNCHANGED disabled
       \/ /\ Reachable(q.worker) /\ CacheKey(q) \notin DOMAIN answers
          /\ idem' = [idem EXCEPT ![r] = Begun(q)]
          /\ IdemGoto(r, "handle") /\ UNCHANGED disabled
       \/ /\ TripCircuit(q.worker)
          /\ idem' = [idem EXCEPT ![r] = [Begun(q) EXCEPT !.blind = TRUE]]
          /\ IdemGoto(r, "handle")
    /\ UNCHANGED <<answers, index, lost>>

\* call_next: a response with a 2xx status, or another one that is not stored.
Handle(r) ==
    /\ idemPc[r] = "handle"
    /\ \/ IdemGoto(r, "store") /\ idem' = [idem EXCEPT ![r].end = "handled"]
       \/ IdemGoto(r, "done") /\ idem' = [idem EXCEPT ![r].end = "failed"]
    /\ UNCHANGED <<answers, index, disabled, lost>>

\* A Redis call that was skipped or failed; the helpers after it are still called.
Unreached(r, step) ==
    /\ TripCircuit(idem[r].worker)
    /\ IF step = "done" THEN IdemEnd(r) ELSE IdemGoto(r, step) /\ UNCHANGED idem
    /\ UNCHANGED <<answers, index, lost>>

\* _redis_setex
Store(r) ==
    LET k == CacheKey(idem[r]) IN
    /\ idemPc[r] = "store"
    /\ \/ /\ Reachable(idem[r].worker)
          /\ answers' = [x \in DOMAIN answers \cup {k} |->
                           IF x = k THEN [by |-> r, payload |-> idem[r].payload] ELSE answers[x]]
          /\ idem' = [idem EXCEPT ![r].stored = TRUE]
          /\ IdemGoto(r, "track")
          /\ UNCHANGED <<index, disabled, lost>>
       \/ Unreached(r, "track")

\* _track_completed_key: ZADD gives a key that is indexed already a new time.
Track(r) ==
    LET k == CacheKey(idem[r]) IN
    /\ idemPc[r] = "track"
    /\ \/ /\ Reachable(idem[r].worker)
          /\ index' = Append(Without(index, {k}), k)
          /\ IdemGoto(r, "count")
          /\ UNCHANGED <<answers, disabled, idem, lost>>
       \/ Unreached(r, "count")

\* _enforce_completed_key_cap: ZCARD, ZRANGE, a DELETE for each, and ZREM.
CountCompleted(r) ==
    /\ idemPc[r] = "count"
    /\ \/ /\ Reachable(idem[r].worker)
          /\ IF Len(index) <= MaxCompleted
             THEN IdemGoto(r, "done") /\ UNCHANGED idem
             ELSE IdemGoto(r, "range") /\ idem' = [idem EXCEPT ![r].overflow = Len(index) - MaxCompleted]
          /\ UNCHANGED <<answers, index, disabled, lost>>
       \/ Unreached(r, "done")

RangeOldest(r) ==
    LET n == IF idem[r].overflow < Len(index) THEN idem[r].overflow ELSE Len(index) IN
    /\ idemPc[r] = "range"
    /\ \/ /\ idem' = [idem EXCEPT ![r].oldest = SubSeq(index, 1, n), ![r].overflow = n]
          /\ IdemGoto(r, IF n = 0 THEN "done" ELSE "delete")
          /\ UNCHANGED <<answers, index, disabled, lost>>
       \/ Unreached(r, "done")

Gone(k) ==
    /\ answers' = [x \in DOMAIN answers \ {k} |-> answers[x]]
    /\ lost' = lost \cup {<<k[1], k[2]>>}

\* overflow counts down the members still to delete.
Evict(r) ==
    LET n == idem[r].overflow IN
    /\ idemPc[r] = "delete"
    /\ \/ /\ Gone(idem[r].oldest[Len(idem[r].oldest) + 1 - n])
          /\ idem' = [idem EXCEPT ![r].overflow = n - 1]
          /\ IdemGoto(r, IF n = 1 THEN "forget" ELSE "delete")
          /\ UNCHANGED <<index, disabled>>
       \/ Unreached(r, "done")

Forget(r) ==
    /\ idemPc[r] = "forget"
    /\ \/ /\ index' = Without(index, Entries(idem[r].oldest))
          /\ IdemEnd(r)
          /\ UNCHANGED <<answers, disabled, lost>>
       \/ Unreached(r, "done")

IdemCrash(r) ==
    /\ idemPc[r] \notin {"idle", "done"}
    /\ IdemEnd(r)
    /\ UNCHANGED <<answers, index, disabled, lost>>

AnswerExpires(k) ==
    /\ k \in DOMAIN answers /\ Gone(k)
    /\ UNCHANGED <<index, disabled, idemPc, idem>>

\* _CIRCUIT_OPEN_TTL seconds have passed.
CircuitCloses(w) ==
    /\ w \in disabled /\ disabled' = disabled \ {w}
    /\ UNCHANGED <<answers, index, idemPc, idem, lost>>

IdemInit ==
    /\ answers = [k \in {} |-> Nobody] /\ index = <<>> /\ disabled = {}
    /\ idemPc = [r \in IdemRequests |-> "idle"] /\ idem = [r \in IdemRequests |-> NoIdem]
    /\ lost = {}

IdemStep(r) ==
    \/ \E a \in Actors, k \in Keys, p \in Payloads, w \in Workers :
         Lookup(r, [NoIdem EXCEPT !.actor = a, !.key = k, !.payload = p, !.worker = w])
    \/ Handle(r) \/ Store(r) \/ Track(r) \/ CountCompleted(r) \/ RangeOldest(r) \/ Evict(r) \/ Forget(r) \/ IdemCrash(r)

IdemNext ==
    \/ \E r \in IdemRequests : IdemStep(r)
    \/ \E k \in DOMAIN answers : AnswerExpires(k)
    \/ \E w \in Workers : CircuitCloses(w)

IdemSpec == IdemInit /\ [][IdemNext]_idemVars

-----------------------------------------------------------------------------

\* A client that repeats a request with its key, after an answer to it was
\* stored, has it handled a second time only if Redis could not be asked or
\* has lost the answer; and an answer that is replayed was produced for the
\* same actor, key and payload (dispatch).
RetryNotHandledAgain ==
    \A r \in IdemRequests :
        LET q == idem[r] IN
        /\ q.before # {} /\ q.end \in {"handled", "failed"} => q.blind \/ <<q.actor, q.key>> \in lost
        /\ q.end = "replayed" =>
              /\ idem[q.answer].payload = q.payload
              /\ idem[q.answer].actor = q.actor /\ idem[q.answer].key = q.key

=============================================================================
