---------------------------- MODULE AttemptLimits ----------------------------
(***************************************************************************)
(* What stands in front of the password check: the persistent ledger of    *)
(* attempts, the Redis counters of the credential-stuffing detector, the   *)
(* rate limiter with its circuit, and its in-process fallback.  The        *)
(* requests come from one client address and try one account with the      *)
(* passwords of a set of prefixes.  Entries leave the sliding windows in   *)
(* any order.                                                              *)
(***************************************************************************)
EXTENDS Naturals, FiniteSets

CONSTANTS
    Attempts,       \* concurrent requests of the client
    Prefixes,       \* the first four characters of the passwords it tries
    NoPrefix,
    RequestLimit,   \* AUTH_RATE_LIMIT_REQUESTS
    Entropy,        \* AUTH_LOCKOUT_ENTROPY_THRESHOLD
    MaxAttempts     \* bound on the requests made

ASSUME LimitsAssumption ==
    /\ IsFiniteSet(Attempts) /\ IsFiniteSet(Prefixes)
    /\ NoPrefix \notin Prefixes
    /\ RequestLimit \in Nat \ {0} /\ Entropy \in Nat \ {0}
    /\ MaxAttempts \in Nat

VARIABLES
    hits,       \* rows of AuthAttemptLedger in the window, per limited key
    prefixRows, \* prefixes in AuthAttemptLedger
    pairSet,    \* prefixes in the sorted set of the (address, account) pair
    luaHits,    \* members of the limiter's sorted set
    memHits,    \* length of the fallback's list
    tripped,    \* the limiter's circuit is open
    tried,      \* in pairSet, and passed the detector in this window
    made,       \* requests made
    limitPc, limitReq

limitVars == <<hits, prefixRows, pairSet, luaHits, memHits, tripped, tried, made,
               limitPc, limitReq>>

\* login has a key of its own; register, refresh, profile update and
\* impersonation only ask the ledger, each with theirs.
LimitKeys == {"login_ip", "other"}

LimitSteps == {"idle", "prefix", "writePrefix", "record", "detect", "ledger",
    "insert", "second", "memStore", "memAppend"}

LimitLocals == [key : LimitKeys, prefix : Prefixes \cup {NoPrefix}, found : BOOLEAN, mem : Nat]

NoAttempt == [key |-> "other", prefix |-> NoPrefix, found |-> FALSE, mem |-> 0]

LimitTypeOK ==
    /\ hits \in [LimitKeys -> Nat]
    /\ prefixRows \subseteq Prefixes /\ pairSet \subseteq Prefixes
    /\ luaHits \in Nat /\ memHits \in Nat /\ made \in Nat
    /\ tripped \in BOOLEAN
    /\ tried \subseteq pairSet
    /\ limitPc \in [Attempts -> LimitSteps]
    /\ limitReq \in [Attempts -> LimitLocals]

-----------------------------------------------------------------------------

LimitGoto(w, step) == limitPc' = [limitPc EXCEPT ![w] = step]
LimitEnd(w) == LimitGoto(w, "idle") /\ limitReq' = [limitReq EXCEPT ![w] = NoAttempt]

Login(w, p) ==
    /\ limitPc[w] = "idle" /\ made < MaxAttempts
    /\ made' = made + 1
    /\ LimitGoto(w, "prefix")
    /\ limitReq' = [limitReq EXCEPT ![w].key = "login_ip", ![w].prefix = p]
    /\ UNCHANGED <<hits, prefixRows, pairSet, luaHits, memHits, tripped, tried>>

OtherLimited(w) ==
    /\ limitPc[w] = "idle" /\ made < MaxAttempts
    /\ made' = made + 1
    /\ LimitGoto(w, "ledger") /\ UNCHANGED limitReq
    /\ UNCHANGED <<hits, prefixRows, pairSet, luaHits, memHits, tripped, tried>>

-----------------------------------------------------------------------------
(* record_attempt and detect_stuffing *)

\* record_credential_prefix looks the prefix up, and counts if it is new; at
\* Entropy + 1 rows nothing more is recorded.
PrefixLookup(w) ==
    LET p == limitReq[w].prefix IN
    /\ limitPc[w] = "prefix"
    /\ limitReq' = [limitReq EXCEPT ![w].found = p \in prefixRows]
    /\ LimitGoto(w, IF p \in prefixRows \/ Cardinality(prefixRows) < Entropy + 1
                    THEN "writePrefix" ELSE "record")
    /\ UNCHANGED <<made, hits, prefixRows, pairSet, luaHits, memHits, tripped, tried>>

\* Updating a row that is gone, and inserting one that is there, both fail the
\* request (a stale row, the unique constraint on scope and attempt).
PrefixWrite(w) ==
    LET l == limitReq[w] IN
    /\ limitPc[w] = "writePrefix"
    /\ IF l.found = (l.prefix \in prefixRows)
       THEN prefixRows' = prefixRows \cup {l.prefix} /\ LimitGoto(w, "record") /\ UNCHANGED limitReq
       ELSE UNCHANGED prefixRows /\ LimitEnd(w)
    /\ UNCHANGED <<made, hits, pairSet, luaHits, memHits, tripped, tried>>

\* A failing Redis is logged and passed over.
RecordAttempt(w, up) ==
    /\ limitPc[w] = "record"
    /\ pairSet' = IF up THEN pairSet \cup {limitReq[w].prefix} ELSE pairSet
    /\ LimitGoto(w, "detect") /\ UNCHANGED limitReq
    /\ UNCHANGED <<made, hits, prefixRows, luaHits, memHits, tripped, tried>>

\* Lets the threshold itself pass.
SprayedBeyond == Cardinality(pairSet) > Entropy

Sprayed == Cardinality(pairSet) >= Entropy

\* The account-wide and the address-wide signals are only logged.
DetectStuffing(w, up) ==
    /\ limitPc[w] = "detect"
    /\ IF up /\ Sprayed
       THEN UNCHANGED tried /\ LimitEnd(w)
       ELSE /\ tried' = IF up THEN tried \cup ({limitReq[w].prefix} \cap pairSet) ELSE tried
            /\ LimitGoto(w, "ledger") /\ UNCHANGED limitReq
    /\ UNCHANGED <<made, hits, prefixRows, pairSet, luaHits, memHits, tripped>>

-----------------------------------------------------------------------------
(* The rate limiter *)

\* Refuses only above the limit.
AboveLimit(k) == hits[k] > RequestLimit

AtLimit(k) == hits[k] >= RequestLimit

\* record_rate_limit_attempt counts, then inserts: two statements.
LedgerCount(w) ==
    /\ limitPc[w] = "ledger"
    /\ IF AtLimit(limitReq[w].key)
       THEN LimitEnd(w)
       ELSE LimitGoto(w, "insert") /\ UNCHANGED limitReq
    /\ UNCHANGED <<made, hits, prefixRows, pairSet, luaHits, memHits, tripped, tried>>

\* With a database session is_allowed then calls a method that does not exist,
\* which trips the circuit and lets the request pass.
LedgerInsert(w) ==
    LET k == limitReq[w].key IN
    /\ limitPc[w] = "insert"
    /\ hits' = [hits EXCEPT ![k] = @ + 1]
    /\ tripped' = TRUE
    /\ IF k = "login_ip" THEN LimitGoto(w, "second") /\ UNCHANGED limitReq ELSE LimitEnd(w)
    /\ UNCHANGED <<made, prefixRows, pairSet, luaHits, memHits, tried>>

\* login asks a second time, without the session: the script in Redis, after
\* its retries, or the list in memory.
EvalScript(w) ==
    /\ limitPc[w] = "second" /\ ~tripped
    /\ luaHits' = IF luaHits >= RequestLimit THEN luaHits ELSE luaHits + 1
    /\ LimitEnd(w)
    /\ UNCHANGED <<made, hits, prefixRows, pairSet, memHits, tripped, tried>>

\* The fallback filters the list into a new one, ...
FallbackFilter(w, up) ==
    /\ limitPc[w] = "second" /\ (tripped \/ ~up)
    /\ tripped' = TRUE
    /\ LimitGoto(w, "memStore")
    /\ limitReq' = [limitReq EXCEPT ![w].mem = memHits]
    /\ UNCHANGED <<made, hits, prefixRows, pairSet, luaHits, memHits, tried>>

\* ... stores it over what other threads have appended, ...
FallbackStore(w) ==
    /\ limitPc[w] = "memStore"
    /\ memHits' = limitReq[w].mem
    /\ IF limitReq[w].mem >= RequestLimit
       THEN LimitEnd(w) ELSE LimitGoto(w, "memAppend") /\ UNCHANGED limitReq
    /\ UNCHANGED <<made, hits, prefixRows, pairSet, luaHits, tripped, tried>>

\* ... and appends.
FallbackAppend(w) ==
    /\ limitPc[w] = "memAppend"
    /\ memHits' = memHits + 1
    /\ LimitEnd(w)
    /\ UNCHANGED <<made, hits, prefixRows, pairSet, luaHits, tripped, tried>>

-----------------------------------------------------------------------------
(* Windows and the circuit *)

PruneScope(k) ==
    /\ hits[k] > 0
    /\ hits' = [hits EXCEPT ![k] = @ - 1]
    /\ UNCHANGED <<made, prefixRows, pairSet, luaHits, memHits, tripped, tried, limitPc, limitReq>>

PrunePrefix(p) ==
    /\ p \in prefixRows
    /\ prefixRows' = prefixRows \ {p}
    /\ UNCHANGED <<made, hits, pairSet, luaHits, memHits, tripped, tried, limitPc, limitReq>>

PrunePair(p) ==
    /\ p \in pairSet
    /\ pairSet' = pairSet \ {p}
    /\ tried' = tried \ {p}
    /\ UNCHANGED <<made, hits, prefixRows, luaHits, memHits, tripped, limitPc, limitReq>>

WindowSlides ==
    /\ \/ luaHits > 0 /\ luaHits' = luaHits - 1 /\ UNCHANGED memHits
       \/ memHits > 0 /\ memHits' = memHits - 1 /\ UNCHANGED luaHits
    /\ UNCHANGED <<made, hits, prefixRows, pairSet, tripped, tried, limitPc, limitReq>>

CircuitResets ==
    /\ tripped
    /\ tripped' = FALSE
    /\ UNCHANGED <<made, hits, prefixRows, pairSet, luaHits, memHits, tried, limitPc, limitReq>>

-----------------------------------------------------------------------------

LimitInit ==
    /\ hits = [k \in LimitKeys |-> 0]
    /\ prefixRows = {} /\ pairSet = {} /\ tried = {}
    /\ luaHits = 0 /\ memHits = 0 /\ made = 0
    /\ tripped = FALSE
    /\ limitPc = [w \in Attempts |-> "idle"]
    /\ limitReq = [w \in Attempts |-> NoAttempt]

EnforceLoginRateLimits(w) ==
    \/ PrefixLookup(w) \/ PrefixWrite(w)
    \/ \E up \in BOOLEAN : RecordAttempt(w, up) \/ DetectStuffing(w, up)

IsAllowed(w) ==
    \/ LedgerCount(w) \/ LedgerInsert(w) \/ EvalScript(w)
    \/ \E up \in BOOLEAN : FallbackFilter(w, up)
    \/ FallbackStore(w) \/ FallbackAppend(w)

LimitNext ==
    \/ \E w \in Attempts :
          \/ \E p \in Prefixes : Login(w, p)
          \/ OtherLimited(w) \/ EnforceLoginRateLimits(w) \/ IsAllowed(w)
    \/ \E k \in LimitKeys : PruneScope(k)
    \/ \E p \in Prefixes : PrunePrefix(p) \/ PrunePair(p)
    \/ WindowSlides
    \/ CircuitResets

LimitSpec == LimitInit /\ [][LimitNext]_limitVars

-----------------------------------------------------------------------------
(* Properties *)

\* The ledger counts and inserts without a lock, so the limit can be exceeded:
\* by no more than the requests in flight beyond the first, for the attempts
\* of every key and for the prefixes recorded.
LedgersBounded ==
    /\ \A k \in LimitKeys : hits[k] <= RequestLimit + Cardinality(Attempts) - 1
    /\ Cardinality(prefixRows) <= Entropy + 1 + Cardinality(Attempts) - 1

\* The ledgers stay within their bounds.  And an attempt is recorded before the
\* detector counts, so however the requests interleave, fewer than Entropy
\* prefixes of a window reach the password check while Redis answers, and an
\* outage only exempts the attempts made during it (record_rate_limit_attempt,
\* record_credential_prefix, detect_stuffing).
AttemptsLimited == LedgersBounded /\ Cardinality(tried) < Entropy

=============================================================================
