----------------------------- MODULE TxIndexer -----------------------------
(***************************************************************************)
(* Ingest of Horizon's payment stream into payment_transactions: passes of *)
(* several workers, the cursor each returns, and the heartbeat they share  *)
(* in Redis for the probe of the API.  A record's paging token is its      *)
(* position; several payments of one transaction have the same hash.       *)
(***************************************************************************)
EXTENDS Naturals, Sequences

CONSTANTS
    IndexWorkers,     \* Celery workers that run passes
    Hashes,           \* transaction hashes
    MaxPayments,      \* bound on the stream
    IndexBatch,       \* TX_INDEXER_BATCH_SIZE
    IndexAttempts     \* TX_INDEXER_MAX_ATTEMPTS

ASSUME TxIndexerAssumption ==
    MaxPayments \in Nat /\ IndexBatch \in Nat \ {0} /\ IndexAttempts \in Nat \ {0}

VARIABLES
    stream,      \* Horizon's payments so far
    ledgerRows,  \* payment_transactions by transaction_hash
    returned,    \* cursors that passes returned, 0 for None
    heartbeat,   \* tx_indexer:state
    idxPc, idxReq

indexVars == <<stream, ledgerRows, returned, heartbeat, idxPc, idxReq>>

\* parses: parse_horizon_record accepts it (a hash, an amount, a date).
Payment == [hash : Hashes, parses : BOOLEAN]

\* What the probe tells apart: last_success_at is set, failures since then.
Heartbeat == [succeeded : BOOLEAN, failing : BOOLEAN]
NoHeartbeat == [succeeded |-> FALSE, failing |-> FALSE]

NoPass == [from |-> 0, to |-> 0, attempts |-> 0, loaded |-> NoHeartbeat]

TxIndexerTypeOK ==
    /\ stream \in Seq(Payment) /\ Len(stream) <= MaxPayments
    /\ DOMAIN ledgerRows \subseteq Hashes
    /\ \A h \in DOMAIN ledgerRows : ledgerRows[h] \in {"indexed", "settlement"}
    /\ returned \subseteq 0 .. Len(stream)
    /\ heartbeat \in Heartbeat
    /\ idxPc \in [IndexWorkers -> {"idle", "fetch", "parse", "upsert", "succeed", "fail", "saveOk", "saveFailed"}]
    /\ idxReq \in [IndexWorkers -> [from : 0 .. MaxPayments, to : 0 .. MaxPayments,
                                    attempts : 0 .. IndexAttempts, loaded : Heartbeat]]

-----------------------------------------------------------------------------

IdxGoto(w, step) == idxPc' = [idxPc EXCEPT ![w] = step]
IdxEnd(w) == IdxGoto(w, "idle") /\ idxReq' = [idxReq EXCEPT ![w] = NoPass]

Pay(h, good) ==
    /\ Len(stream) < MaxPayments
    /\ stream' = Append(stream, [hash |-> h, parses |-> good])
    /\ UNCHANGED <<ledgerRows, returned, heartbeat, idxPc, idxReq>>

\* The settlement stores its own row of the transaction first.
SettlementRow(h) ==
    /\ h \notin DOMAIN ledgerRows
    /\ ledgerRows' = [x \in DOMAIN ledgerRows \cup {h} |-> IF x = h THEN "settlement" ELSE ledgerRows[x]]
    /\ UNCHANGED <<stream, returned, heartbeat, idxPc, idxReq>>

\* index_transactions, run_once: from the start or from any cursor a pass
\* returned, an operator may replay one.
StartPass(w) ==
    /\ idxPc[w] = "idle"
    /\ \E c \in returned \cup {0} : idxReq' = [idxReq EXCEPT ![w].from = c]
    /\ IdxGoto(w, "fetch")
    /\ UNCHANGED <<stream, ledgerRows, returned, heartbeat>>

\* fetch_payments: up to a batch of records; an empty page keeps the cursor.
PageEnd(c) == IF c + IndexBatch < Len(stream) THEN c + IndexBatch ELSE Len(stream)

FetchPage(w) ==
    /\ idxPc[w] = "fetch"
    /\ idxReq' = [idxReq EXCEPT ![w].to = PageEnd(idxReq[w].from), ![w].attempts = 0]
    /\ IdxGoto(w, "parse")
    /\ UNCHANGED <<stream, ledgerRows, returned, heartbeat>>

\* RetryPolicy.call: a transient failure with attempts left.
FetchAgain(w) ==
    /\ idxPc[w] = "fetch" /\ idxReq[w].attempts + 1 < IndexAttempts
    /\ idxReq' = [idxReq EXCEPT ![w].attempts = @ + 1]
    /\ UNCHANGED <<stream, ledgerRows, returned, heartbeat, idxPc>>

\* Another failure, or the last attempt.
FetchGivesUp(w) ==
    /\ idxPc[w] = "fetch"
    /\ IdxGoto(w, "fail") /\ idxReq' = [idxReq EXCEPT ![w] = NoPass]
    /\ UNCHANGED <<stream, ledgerRows, returned, heartbeat>>

Page(w) == {stream[i] : i \in idxReq[w].from + 1 .. idxReq[w].to}

\* Parses the page without its unusable records.
ParseSkipping(w) ==
    /\ idxPc[w] = "parse"
    /\ IdxGoto(w, "upsert")
    /\ UNCHANGED <<stream, ledgerRows, returned, heartbeat, idxReq>>

\* One unusable record fails the batch.
ParsePage(w) ==
    /\ idxPc[w] = "parse"
    /\ IF \A p \in Page(w) : p.parses
       THEN IdxGoto(w, "upsert") /\ UNCHANGED idxReq
       ELSE IdxGoto(w, "fail") /\ idxReq' = [idxReq EXCEPT ![w] = NoPass]
    /\ UNCHANGED <<stream, ledgerRows, returned, heartbeat>>

\* upsert_many: one INSERT ... ON CONFLICT (transaction_hash) DO NOTHING.
\* The statement, or the commit, may fail.
UpsertMany(w) ==
    LET new == {p.hash : p \in {p \in Page(w) : p.parses}} \ DOMAIN ledgerRows IN
    /\ idxPc[w] = "upsert"
    /\ \/ /\ ledgerRows' = [h \in DOMAIN ledgerRows \cup new |->
                              IF h \in new THEN "indexed" ELSE ledgerRows[h]]
          /\ IdxGoto(w, "succeed") /\ UNCHANGED idxReq
       \/ /\ IdxGoto(w, "fail") /\ idxReq' = [idxReq EXCEPT ![w] = NoPass]
          /\ UNCHANGED ledgerRows
    /\ UNCHANGED <<stream, returned, heartbeat>>

\* TxIndexerStateStore.load: an unreadable state reads as an empty one.
LoadState(w) ==
    /\ idxPc[w] \in {"succeed", "fail"}
    /\ \E s \in {heartbeat, NoHeartbeat} : idxReq' = [idxReq EXCEPT ![w].loaded = s]
    /\ IdxGoto(w, IF idxPc[w] = "succeed" THEN "saveOk" ELSE "saveFailed")
    /\ UNCHANGED <<stream, ledgerRows, returned, heartbeat>>

\* record_success, and the pass returns its cursor.  The write may be lost, and
\* a TxIndexer built without a state recorder, as the task's is, makes none.
SaveSuccess(w) ==
    /\ idxPc[w] = "saveOk"
    /\ heartbeat' \in {heartbeat, [succeeded |-> TRUE, failing |-> FALSE]}
    /\ returned' = returned \cup {idxReq[w].to}
    /\ IdxEnd(w)
    /\ UNCHANGED <<stream, ledgerRows>>

SaveFailure(w) ==
    /\ idxPc[w] = "saveFailed"
    /\ heartbeat' \in {heartbeat, [idxReq[w].loaded EXCEPT !.failing = TRUE]}
    /\ IdxEnd(w)
    /\ UNCHANGED <<stream, ledgerRows, returned>>

\* The key's TTL passes.
StateExpires ==
    /\ heartbeat' = NoHeartbeat
    /\ UNCHANGED <<stream, ledgerRows, returned, idxPc, idxReq>>

\* A worker dies.
IndexCrash(w) ==
    /\ idxPc[w] # "idle"
    /\ IdxEnd(w)
    /\ UNCHANGED <<stream, ledgerRows, returned, heartbeat>>

TxIndexerInit ==
    /\ stream = <<>> /\ ledgerRows = [h \in {} |-> "indexed"] /\ returned = {}
    /\ heartbeat = NoHeartbeat
    /\ idxPc = [w \in IndexWorkers |-> "idle"]
    /\ idxReq = [w \in IndexWorkers |-> NoPass]

IndexPass(w) ==
    \/ StartPass(w) \/ FetchPage(w) \/ FetchAgain(w) \/ FetchGivesUp(w) \/ ParsePage(w)
    \/ UpsertMany(w) \/ LoadState(w) \/ SaveSuccess(w) \/ SaveFailure(w) \/ IndexCrash(w)

TxIndexerNext ==
    \/ \E h \in Hashes, good \in BOOLEAN : Pay(h, good)
    \/ \E h \in Hashes : SettlementRow(h)
    \/ \E w \in IndexWorkers : IndexPass(w)
    \/ StateExpires

TxIndexerSpec == TxIndexerInit /\ [][TxIndexerNext]_indexVars

\* A scheduler keeps running passes, and Horizon and the database answer again
\* and again.
TxIndexerFairSpec ==
    /\ TxIndexerSpec
    /\ \A w \in IndexWorkers :
         /\ SF_indexVars(StartPass(w)) /\ SF_indexVars(FetchPage(w)) /\ SF_indexVars(ParsePage(w))
         /\ SF_indexVars(UpsertMany(w) /\ IdxGoto(w, "succeed"))
         /\ SF_indexVars(LoadState(w) /\ IdxGoto(w, "saveOk")) /\ SF_indexVars(SaveSuccess(w))
         /\ SF_indexVars(LoadState(w) /\ IdxGoto(w, "saveFailed")) /\ SF_indexVars(SaveFailure(w))

-----------------------------------------------------------------------------

\* Behind every cursor a pass has returned, each payment's transaction is in
\* the table, although passes overlap, repeat, fail and die: carrying the
\* cursor forward leaves no transaction out (run_once, upsert_many).
CursorLeavesNoneOut ==
    \A c \in returned : \A i \in 1 .. c : stream[i].hash \in DOMAIN ledgerRows

\* Every payment of the stream is behind a returned cursor sooner or later:
\* "records that cannot be keyed or scaled are skipped and counted" and the
\* cursor advances past them (tests/test_tx_indexer_ingest.py).  In run_once
\* such a record fails its batch, in every pass that meets it.
CursorAdvances ==
    \A i \in 1 .. MaxPayments : Len(stream) >= i ~> \E c \in returned : c >= i

=============================================================================
