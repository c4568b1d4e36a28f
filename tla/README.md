# Verification of the ApexChainx backend

The backend records network outages, settles each one against a service-level
agreement (a reward or a penalty), records the payment, and tells subscribers
about violations by webhook. Around that core stand sessions and credentials,
limits, an audit log, background jobs, imports, disputes, reports and pollers of
the ledger. This directory holds TLA+ models of them, the TLC runs that check them on small instances, and TLAPS proofs for every value
of the constants. Every definition is translated from the code under `src/`;
`PROJECT.json` maps each one to the lines it models.

## 1. Inventory

| Part | State | Operations | Who it talks to | What is hard | Correct means |
|---|---|---|---|---|---|
| SLA calculation, contract adapter (`services/sla`, `services/contracts`) | none | calculate, encode, decode | called by settlement | boundaries, integer division | a slower repair never pays more; the re-coding loses nothing |
| Settlement (`api/v1/endpoints/outages.py`, outage, SLA and payment repositories) | tables `outages`, `outage_events`, `sla_results`, `payment_transactions`; advisory and row locks | create, PUT/PATCH, delete, resolve, recompute-sla | calculator, webhooks | each handler is several transactions; locks end at the first commit; crashes in between | one latest result, one payment per result and direction, results are history, MTTR written once |
| Circuit breaker (`services/webhook_breaker.py`) | per process: state, failure times, probe flag; a Redis marker | allow_request, on_success, on_failure | webhook delivery | late answers, several processes, restarts, Redis failures | never refuses a host for ever |
| Webhook delivery (`services/webhook_service.py`, `tasks/webhook_tasks.py`, webhook endpoints) | `webhook_deliveries`, the Celery queue | trigger, task, sweep, retry, replay, dispatch | breaker, Celery, receivers | a task, a sweep and the endpoints on one delivery; crashes; redelivery | one sender, bounded attempts, delivered is final, retries are made |
| Payment lifecycle (`api/v1/endpoints/payments.py`) | `payment_transactions.status`, retry count, nonces in Redis | reconcile, retry, provider callback | payment provider | read-validate-write without a row lock | confirmed is final, retries bounded |
| Authentication (`services/auth_store.py`, session, family and user repositories, `tasks/auth_tasks.py`) | users, sessions, token families, a revocation list in Redis | register, login, access, refresh, logout, impersonation, erasure, clean-up | audit log, attempt limits | concurrent refresh, reuse detection, clean-up against login, read-modify-write of the failure count | a dead token stays dead, a rotated one is gone, a login does not clear a newer lock |
| Attempt limits (`services/auth_attempt_ledger.py`, `credential_stuffing_detector.py`, `rate_limiter.py`) | ledger rows, sorted sets in Redis, an in-process list | count, record, detect | login | count-then-insert, Redis failures | limits are exceeded by the requests in flight at most |
| API keys, OAuth states (`services/api_key_store.py`, `services/oauth_session.py`) | `api_keys`, states in Redis | create, use, revoke; authorize, callback, prune | – | GET then DELETE, expiry at the boundary | what was retired admits nobody later |
| Idempotency middleware (`middleware/idempotency.py`) | answers and an index in Redis, a circuit per worker | look up, handle, store, evict | every state-changing request | check-then-act, eviction, Redis failures | a retry is not handled again, a replay is the answer to the same request |
| Wallets (`services/wallet_registry.py`) | `wallets` | create, link, fetch | Stellar | check-then-insert, failures after the commit | all answers about a user name one wallet |
| Audit log (`services/audit_log.py`, `tasks/audit_tasks.py`) | hash chain, archive file | append, archive, verify | every handler | concurrent appends, a retention task the database refuses | one unforked chain that verifies |
| Jobs (`api/v1/endpoints/jobs.py`, `tasks/sla_tasks.py`) | job rows, task states, a status cache | submit, run, poll, cancel, retry, clean up | Celery | dispatch before commit, a limited query for open jobs, polls over newer rows | one open job per device and period, success is real |
| Outage creation and import (`api/v1/endpoints/outages.py`) | `outages` | create, bulk, import | settlement | row-by-row commits with compensation, failures after a commit | "rolled back" leaves no row |
| List endpoints (the repositories' `list*`, `utils/cursor.py`) | none | page by cursor or offset | clients | rows that move between pages | no unchanged row is missed or repeated |
| Webhook registry and fan-out (`api/v1/endpoints/webhooks.py`, `webhook_service.py`) | `webhooks`, secrets, event counters in Redis | create, update, rotate, delete, trigger | delivery | edits without row locks, deletion against fan-out | a deleted webhook gets no later event |
| Disputes (`api/v1/endpoints/sla_dispute.py`) | disputes, their log, proposed results | flag, propose, resolve | `sla_results` | check-then-insert, promotion against recompute | only an awarded result is promoted |
| SLA configuration (`services/sla/config.py`) | history table, three per-process caches | read, publish | calculator | caches of several processes, restarts | a publication replaces the version its author saw |
| SLA reports and snapshots (`repositories/sla_repository.py`, analytics services) | results, snapshots, a cache per process | KPIs, trends, performance, snapshot, reconcile | dashboards | several statements, filters and windows over one table; cache keys joined from free texts | the reports agree, a cached one answers its query |
| Block pollers, indexer (`services/block_poller.py`, `block_poller_hardening.py`, `tx_indexer.py`) | cursors, health, indexed rows, a heartbeat in Redis | poll, fetch with retry, handle, index | Horizon | failure between fetch and cursor, several threads and workers | nothing on chain is skipped |
| Device SLA (`services/sla_service.py`) | a cache | compute | jobs | – | not modelled, see section 5 |
| Exports, metrics, health, logging, cryptography, start-up guards | none a decision depends on | formatting, counters, pure functions | – | – | not modelled |

## 2. Modules

| Module | Models |
|---|---|
| `SlaCalculator` | `SLACalculator.calculate`, the contract adapter and `translate_contract_result`, as operators |
| `Settlement` (extends `SlaCalculator`) | the outage handlers as sequences of transactions, run concurrently |
| `CircuitBreaker` | the breaker of one host in every process, and the Redis marker |
| `SeqFilter` | the entries of a sequence that are in a set, in their order: the sweep's query, `ZREM` on the index |
| `WebhookDelivery` (extends `CircuitBreaker`) | delivery records, tasks, sweep, retry and replay, composed with the breaker |
| `PaymentLifecycle` | reconcile, retry and the provider callback on payment rows, with the nonce store |
| `TokenLife` | what the session store promises, without families and rows |
| `AuthSessions` | accounts, families and sessions; implements `TokenLife` |
| `Credentials`, `AttemptLimits`, `Idempotency`, `Wallets`, `AuditChain` | the other components between a client and the handlers |
| `Jobs`, `OutageImport`, `Listing`, `WebhookRegistry`, `Disputes`, `PolicyConfig`, `SlaReports` | the components that handle outages and their results |
| `PagePoller`, `SequencePoller`, `TxIndexer` | the components that follow the ledger |
| `MCSettlement`, `MCWebhookDelivery`, `MCPaymentLifecycle`, `MCAccess`, `MCOperations` | instances for TLC |
| `SlaCalculatorProofs`, `SettlementProofs`, `SeqFilterProofs`, `WebhookDeliveryProofs`, `PaymentLifecycleProofs`, `AuthSessionsProofs`, `AccessProofs`, `OperationsProofs` | theorems and proofs |

All models follow one convention: a request is named by a member of a set, has a
program counter and a record of local variables, and performs one operation; a
row it inserts carries its name. A step is a statement, commit or Redis command
at which the handler can be overtaken. Time is a choice: windows slide, entries
expire and locks run out whenever they may. The ORM loads a row once per
transaction, writes the changed columns only, and does so at commit
(`autoflush=False`); PostgreSQL runs at READ COMMITTED.

At this commit the package cannot be imported as a whole (names such as
`with_rate_limit_responses`, `build_block_poller` and `HorizonClient` are used
and defined nowhere). The handlers are modelled as their bodies are written.

### SlaCalculator

`Calculate` is `calculate` (violation test, penalty, ratio, rating, reward),
`ContractResult` is the adapter's re-coding, `Translate` the decoding, and
`SettledResult` what both handlers store. Python's `//` and TLA+'s `\div` agree.
The configuration is a constant constrained only by the field validators.

### Settlement

The tables are partial functions from ids to rows; a row of `sla` or `payment`
is named by the request that inserted it, since a request inserts at most one of
each. `pc` and `req` are the program counter and local variables of a handler.
One step is one statement at which the handler can be overtaken:

| Steps of resolve | Steps of recompute-sla |
|---|---|
| `ResolveBegin`: advisory lock, first read | `RecomputeBegin`: read, status check, advisory lock |
| `ResolveOutage`: `OutageRepository.resolve` and its commit | `RecomputeRow`: `get_orm_locked` |
| `ResolvedEvent` | |
| `FindByComputeHash`, `LockLatest`, `LatestUnlocked`, `InsertResult`: `create_if_changed` | the same |
| `ComputedEvent` | |
| `WriteSlaStatus`, `FindPayment`, `InsertPayment`, `Notify` | the same |
| | `RecomputedEvent` |

`CreateOutage`, `UpdateOutage` and `DeleteOutage` are the editing endpoints.
PostgreSQL is external: its locks are `lock`, released by `Release` at commit or
rollback; `LatestUnlocked` is its re-check of a row after a wait, and
`BreakDeadlock` its deadlock detector. `Crash` ends a request anywhere.

Facts of the code the model keeps although they look unintended: the advisory
locks are transaction-scoped, so they end with the handler's first commit; a
contended lock ends the request as 500, because constructing
`ConcurrencyLockError` raises a `TypeError`; a resolve of a resolved outage ends
as 503, because the model class has no `mttr_minutes`; errors raised under the
lock, a 404 included, come out as 503; the comparison with the latest result in
`create_if_changed` never succeeds, since a stored row has an id; a second
payment in the direction an outage was already paid in fails with 503, after
the new result was stored.

The tables are those of the ORM with the constraints of the migrations. The two
have drifted: no migration adds `policy_version`, `threshold_source`,
`reason_code` and `decision_trace` to `sla_results`, nor `dead_lettered_at` and
the last two statuses to `webhook_deliveries`.

### CircuitBreaker

`breaker[p]` is the state, the number of failures in the window and the probe
flag of process `p`; `redis_open` the shared marker; `sending` the callers whose
request was allowed and has not been answered. Calls hold a mutex and are atomic.
Clocks are choices: a failure keeps any number of the earlier ones in the window,
an open breaker may or may not have waited long enough, the marker may expire.
A call to Redis may fail, in which case the breaker goes on without it.

### WebhookDelivery

Each worker (Celery worker, sweep, API thread) runs one operation at a time.
Its steps are the commits and the HTTP request: `Claim` is the conditional
UPDATE, `Attempt` the reload, URL validation and breaker, `Delivered` and
`Failed` the report to the breaker and the write of the outcome. The breaker's
actions are conjoined where the code calls it. `next_retry_at` is kept as an
order: `scheduled` while it lies ahead, `due` (oldest first) afterwards.
`TakeTask`, `ValidationFails` and `Crash` carry Celery's retry counter and the
redelivery of unacknowledged tasks. `Replayers` is the set of API threads that
replay: with one, replays do not overlap; with two, they may. A replay by event
and context is a series of these by one thread.

### PaymentLifecycle

A row is its status, retry count and whether it has a time of confirmation.
`PaymentRepository` reads, validates and writes without locking the row, so
`ReconcileRead` and `ReconcileWrite`, `RetryRead` and `RetryWrite` are separate
steps; the row read is kept in `req[h].seen`. A write changes only the columns
the code assigns, and a retry writes the count it read plus one.
`ProviderCallback` consumes the nonce (`ConsumeRedis`, or `ConsumeFallback` when
Redis fails or failed recently), `CallbackLookup` and `AutoRetry` are the rest of
the callback. A client may ask for any status, so reconcile can also return a
failed payment to pending without counting a retry. Nonces expire once no request
uses them: the window of five minutes is longer than a request. Handlers serve
requests for ever, so the model has no bound but the constants.

### AuthSessions and TokenLife

One account, its families and its sessions. `LoginStep`, `RefreshStep`,
`LogoutStep`, `LogoutAllStep`, `EraseStep` and `CleanupStep` are the handlers as
sequences of transactions, `AccessStep` is `get_current_user` with its revocation
list and family gate. A refresh reads the session, checks reuse, increments the
family's sequence, stores the new session and deletes the old one in separate
transactions. `TokenLife` says that a token that was handed out lives, dies and
stays dead, and that a request is admitted only if its token was alive when it
arrived. The refinement mapping takes a token as dead when its session is gone or
expired or its family is compromised or deleted. It covers the tokens issued with a
family: a session from before families existed is adopted on refresh, and two
adoptions can overlap, the later one taking the session out of a family that a
reuse has just compromised (`auth_store.py:298-305`).

Kept although they look unintended: `UserORM` has no `user_id`, so a failed login
of a known user is counted and then answered 500, and a refresh stores its new
session and is then answered 500; concurrent failures are lost from the count;
a login overtaken by erasure and a new registration of the address clears the
new account's lock.

### The other components in front of the handlers

- `Credentials`: API keys and OAuth states with their time before, at or after
  expiry. `GetState` and `DeleteState` are two commands, so two overlapping
  callbacks can both be accepted; the list calls a key expired at the instant at
  which authentication still accepts it.
- `AttemptLimits`: the ledger, the detector's sorted set of password prefixes, the
  limiter's script, its circuit and the in-process fallback. Counting and
  inserting are separate statements. `is_allowed` calls a missing method, so it
  always trips the circuit.
- `Idempotency`: lookup, handling, storing, and the index of completed keys with
  its enforcement. Nothing marks a key as being handled, so overlapping requests
  are both handled; the property is about a retry after an answer was stored.
- `Wallets`: creation as its check, the insert and commit, the refresh, and the read
  of the winner's row after a violated constraint; lookups by user and by address. An
  address is generated by its request and named by it. `link_wallet` calls a
  repository method that is defined nowhere and fails before it reads a row. No
  endpoint passes a cache and none is ever constructed, so the cache branches of the
  registry never run and are left out.
- `AuditChain`: writers take the timestamp, then the advisory lock, read the tail
  and insert; the retention task selects a batch, appends it to the file and asks for
  its deletion, which the trigger of migration 0020 refuses: the task fails there, and
  its next run begins with the same batch. `VerifyChain` is `verify_chain`.

### Outages, results, clients

- `Jobs`: the jobs of one device and period, their Celery tasks, the status cache.
  The task is sent before its row is committed; a poll writes the state it read
  over whatever the row has become; a retry replaces the task of a job. The query for
  open jobs takes the newest 50 of all devices: `stored` counts the jobs stored,
  `created` places a job among them, and one that more than `InflightLimit` jobs were
  stored after may be missed (`Crowded`). Whether those jobs are still open is not
  kept, so the model misses a job in some states in which the code finds it. A
  transient error leaves the job as it is and ends the task for good, since the task
  names no exceptions to retry on.
- `OutageImport`: single creation, bulk, dry run, atomic and partial import against
  settlement and deletion. Compensation deletes rows that another client may have
  been told are duplicates, and stops at a settled row. The commit of a row and the
  refresh after which its id is noted are two steps; `lost` has the rows that a failure
  in between leaves committed and not noted.
- `Listing`: one client walks any of the lists while rows change. In descending
  order the outage list compares ids against the order of its ties
  (`outage_repository.py:154-168`) and skips rows; `CursorWalkExact` is stated of
  the lists whose filter and order agree. The retry queue shows one page of 20.
- `WebhookRegistry`: edits that load a row and write the changed columns later,
  rotation and clean-up of secrets, deletion, and the fan-out of an event with the
  per-subscriber limiter. Overlapping rotations lose a version, and an edit can
  set a deleted webhook active again; the filter on `deleted_at` protects it.
- `Disputes`: flag, propose, resolve and the recomputation that stores results of
  the same outage. Two disputes may be pending at once, and a proposal can be
  written on a decided one. The order in which a flush demotes and promotes rows is
  not kept: where the partial unique index would refuse it the model goes on, so it has
  more behaviours than the code.
- `PolicyConfig`: the ledger of versions, whose last row is locked and whose unique
  index refuses the second publisher on one base, and in every process the three
  assignments after the commit. They are not atomic and can go
  backwards; a restarted process holds the defaults again.
- `SlaReports`: the aggregates as sets of results, the cache and its invalidation,
  and snapshots. A snapshot takes two statements and may mix two states. A text is a
  sequence of pieces that underscores separate, and the key of a report is the
  concatenation of its texts, an absent one as `None`. Two queries of which one has
  an underscore in a text can have one key, and then one is answered with the other's
  figures; a query without the parameter shares its key with one for the text `None`.

### Following the ledger

- `PagePoller`: run, stop, fetch with retries, handler, cursor. The cursor is in
  memory only, so a restart begins anew; `_stop_event` is never cleared.
- `SequencePoller`: background thread and callers of `poll_once` under one lock,
  request budget, validation. A payload is rejected, which stalls the poller at its
  sequence, or accepted with any sequence number, from which the poller goes on.
- `TxIndexer`: overlapping passes over pages of Horizon's payments; one unusable
  record fails its batch, so the cursor that is returned never passes it. The task
  builds its indexer without a state recorder, so the heartbeat's writes may be left out.

## 3. Runs

| Run | Result | Shows |
|---|---|---|
| `settlement` | pass | eight properties of settlement: one outage, three requests of either kind, one edit, two severities, MTTRs at and one above a threshold, crashes anywhere |
| `settlement_liveness` | pass | `EveryRequestEnds` under `FairSpec` |
| `recompute_rerun` | violation | two recomputes with the same inputs store two results once `resolved_at` was cleared, against the docstring of recompute-sla |
| `webhook_delivery` | pass | five properties: two deliveries, three workers in two processes, one crash, one retry per delivery, a breaker that opens at two failures |
| `webhook_liveness` | pass | `EveryRetryIsMade` when a sweep has room for every delivery |
| `webhook_starvation` | violation | with room for one, a delivery deferred by the breaker blocks the sweep for ever: the sweep selects it, the claim refuses it, and it stays the oldest |
| `webhook_replay_race` | violation | two replays of one dead letter send a delivered webhook again |
| `payment_lifecycle` | pass | three properties: one payment, two handlers of one process, three nonces, two retries, a fallback map that evicts at two entries, Redis failures and crashes |
| `payment_race` | violation | two handlers that read a pending payment: the later write turns confirmed into failed |
| `access` | pass | ten properties of the six components in front of the handlers, the refinement of `TokenLife` among them |
| `operations` | pass | twelve properties of the ten components that handle outages, results and the ledger |
| `import_atomicity` | violation | a row committed before its refresh failed stays after "batch rolled back", against the test of the import |

The violations are disagreements between the code and its documents, docstrings or
tests; `findings` in `PROJECT.json` quotes both sides of each. Eight more have no run of
their own. Their claims are formulas of the modules, and TLC refutes each under the
specification given, on small instances:

| Claim | Specification | What the source says, and what happens |
|---|---|---|
| `ResolveReplayAccepted` | `Settlement`'s `Spec` | "resolved -> resolved (idempotent if mttr_minutes matches)" (`outages.py:508`): the replay branch reads an attribute the class lacks (526), and every replay is answered 503 |
| `AttemptsAsDocumented` | `WebhookDelivery`'s `Spec` | "3 total attempts, then dead-letter" (`docs/WEBHOOK_INTEGRATION.md:308`, `:592`): the budget is compared with one attempt fewer (`webhook_service.py:394`), and a failing delivery is sent four times. The guide also says that a 4xx is dead-lettered at once; the code retries on any answer but a 2xx |
| `LinkIsServed` | `WalletsSpec` | four outcomes of a link (`wallet_registry.py:154-158`): a repository method that does not exist is called (165), and every link is answered 500 |
| `ArchivedIsDeleted` | `AuditFairSpec` | "then delete them" (`audit_tasks.py:23`): the trigger of migration 0020 refuses the deletion, every run writes the same batch again and deletes nothing |
| `OneUnfinished` | `JobsSpec` | "must not enqueue two Celery tasks for it" (`sla_tasks.py:335-337`): the query sees the 50 newest open jobs of all devices (352), and an older one does not stop a second submission |
| `ColdStartAtLatest` | `PagePollerSpec` | a cold start "reads the latest ledger" and "seeds the cursor there" (`docs/BLOCK_POLLER.md:20-22`, `:96-98`): without a cursor, so after every restart, `block_poller.py:130` asks for the first page of the chain |
| `SequentialBlocks` | `SequencePollerSpec` | "Poll sequential blocks" (`block_poller_hardening.py:319`): the payload's own number is never compared with the one asked for (400), and blocks are passed over or repeated |
| `CursorAdvances` | `TxIndexerFairSpec` | records that cannot be used "are skipped and counted" and the cursor passes them (`tests/test_tx_indexer_ingest.py:7-8`, `:165-175`): one such record fails its batch in every pass (`tx_indexer.py:380`), and the cursor stands still for ever. These tests are written for another version of the indexer: they import names it does not define |

Where a document is refuted, what does hold is a property of a passing run:
`AttemptsBounded` (one more than the budget), `RolledBackLeavesLost` (up to the rows lost
in a failure), `SubmissionsDeduplicated` (within the query's limit), `AskedAsDue` (what is
asked for, not what is answered), `CursorLeavesNoneOut` (nothing is left out, at the price
of standing still) and `CursorPassesHandled` (a replay from the beginning skips nothing).

`access` and `operations` hold several components each. These share no state, so a
product of their state spaces would show nothing more: the variable `subject`
picks the component of a behaviour in `Init`, and the others stay as they begin.
Model values are shared between the components, so that one symmetry set serves
all of them; no definition CHOOSEs from a symmetric set.

What `access` shows, component by component: a dead token opens nothing
(`TokensLiveOnce`), a rotated token's session is gone (`RotatedTokenGone`), a lock
survives the logins in flight (`LockSurvivesLogin`); retired credentials are
refused (`RetiredIsRefused`); a retry after a stored answer is handled again only
when Redis failed or lost it (`RetryNotHandledAgain`); limits hold up to the
requests in flight (`AttemptsLimited`); all answers about a user name one wallet
(`AnswersNameOneWallet`); the audit chain does not fork (`AppendsFollowTail`), and
the table verifies whatever the retention task tries (`ChainVerifies`).

What `operations` shows: two open jobs of one device and period only when more jobs than
the query's limit lie between them (`SubmissionsDeduplicated`), success only after a
computation (`SuccessIsReal`); a rolled-back import leaves nothing but what a failing
database had committed (`RolledBackLeavesLost`); walks are exact
(`CursorWalkExact`); no event reaches a deleted webhook (`TombstoneGetsNoEvent`);
only awarded results are promoted (`LatestWasAwarded`); publications replace what
their author saw (`PublishedOnSeenVersion`); a query
without underscores gets its own figures from the cache (`PlainQueriesUnmixed`); the page
poller and the indexer skip nothing (`CursorPassesHandled`, `CursorLeavesNoneOut`), and
the hardened poller asks for each successor once (`AskedAsDue`).

Bounds. Three requests are needed for the cases that matter in settlement (two
writers of the next latest row and one that settles what they left), and outages
share nothing but the tables, so one is enough. The MTTRs straddle the threshold
of one severity, so a pair of results can be a reward and a penalty, or two of
one kind. One edit can clear `resolved_at`, change the severity or delete; the
requests in flight meet it at every step. In delivery one retry reaches the
budget, two failures reach the threshold, and one crash meets every step. The
liveness runs are smaller, use no symmetry, and have no crashes in delivery.
Of payments, two handlers are enough for a lost
update, which concerns one row; processes meet only in Redis, where a nonce is
used once whoever sent it. In settlement and delivery deadlock is not checked:
requests, edits and deliveries are finite in number, so the model ends. The
payment handlers never stop, and their run checks it.

In `access` and `operations` three overlapping requests let two race while a third
acts on what they left; disputes need a fourth (flag, propose, decide, recompute).
The lock-out comes at two failures, a limit of one attempt and two prefixes is
reached by two clients, the index of completed keys holds none, so that every
enforcement evicts. Two audit rows and batches of one let two archivers meet on a
row and on its successor. A job and a task are retried once, a worker dies once, and with a
limit of one a second stored job can hide the first; jobs have the most states, so
there are only two requests of them: a retry that races a submission after a failure takes
three and is covered by the proof (`SubmittedOnce`); a walk
takes two pages of four rows and meets one change; two ids and two keys let an import
repeat an id, a key, or neither. Ledgers come in two pages, payloads carry any of a few
sequence numbers to three polling threads, two payments may share a hash, and every
retry loop can use up its attempts. Texts of one and two pieces, one of them `None`, make
report keys collide. Requests are finite in number, so deadlock is
not checked, and these runs assume no fairness. The runs that end in a violation
have the smallest instance that shows it.

Fairness. In settlement a worker goes on with the request it has begun, and
PostgreSQL grants a released lock and breaks deadlocks: `WF` on `Step(r)`.
Clients and crashes have no fairness. In delivery, workers finish what they began
(the HTTP client has a timeout), Celery hands out tasks, beat starts a sweep
every minute, and retry times come: `WF` on each. Triggers, retries, replays,
marker expiry and crashes have none. In `AuditFairSpec` beat starts the task again and
again (`WF`), and its worker is not killed before the same step every time (`SF`). In
`TxIndexerFairSpec` a scheduler keeps running passes, and Horizon, the database and Redis
answer again and again (`SF` on the step and its success): the stall is not theirs.

Every property of a passing run has a mutant in `PROJECT.json`: a plausible bug
in one mapped definition that makes TLC find the property violated.

## 4. Theorems

**Calculator.** `SlowerNeverPaysMore`: for every configuration, a longer MTTR
never yields a higher amount, across the threshold, the rating boundaries and
rounding. `TranslationLossless`: decoding the contract's answer gives back the
calculated result. Assumption: `ConfigAssumption`.

**Settlement.** The eight properties of the `settlement` run and two more
(`NeverPaidTwicePerDirection`, `OneResultPerHash`), for any sets of
outages, requests, MTTRs and times and any number of edits, from
`SettlementAssumption` and `ConfigAssumption`. They follow from one inductive
invariant `IInv`, in two parts. `TablesOK` relates the tables: a result belongs
to an existing outage, a payment to the result and outage it settles, an open
outage has no MTTR, a notification has its payment. `RequestOK(r)` relates a
handler's locals to the tables at each program counter: its row name is unused
until it inserts, the locals it will use are set, the locks it relies on are
held (a recompute keeps the outage row locked, a writer that found a latest row
keeps it locked), and what it has stored is still there. It is needed because
the properties alone are not inductive: that a second latest row is impossible
depends on the lock taken steps earlier. There is one lemma per action; frame
lemmas say that a step which keeps the locks and rows another request relies on
keeps that request's part. The action properties follow from `IInv`.

**Breaker** (`WebhookDeliveryProofs`). `BreakerNeverWedged`, for any processes, callers and threshold. The
strengthening says that a closed breaker has no probe outstanding.
`DeliveriesDriveBreaker` shows that `WebhookDelivery` implements `BreakerSpec`,
so `NeverWedged` holds of the composed system without a new induction.
`HalfOpenIsAwaited` ties it to the workers: the requests the breaker counts are
exactly those a worker awaits the answer of, so a half-open breaker will be told.

**Delivery.** `AtMostOneSender`, `BoundedAttempts` and `DeliveredStaysDelivered`,
under `OneReplayer` (at most one thread replays; the `webhook_replay_race` run
shows that this is needed). The invariant `DInv` adds to `OneSender` that a
thread about to replay has a dead letter nobody else can move, that attempts are
bounded according to status, and that a sender's copy of the attempt count is
the row's. `DeliveryTypesHold` has no such hypothesis. It rests on what the sweep's
query returns: `FilterKeeps` and `WithoutKeeps` (`SeqFilterProofs`) say which entries
filtering a sequence keeps, `FilterKeepsOrder` that their order stays. `Filter` gives
each match its rank, since the prover knows nothing of `SelectSeq`; TLC checks that
the two agree on sequences of up to five entries (`FilterIsSelectSeq`).

**Payments.** `PaymentTypeCorrect` (which bounds the retry count),
`ConfirmationTimed` (checked by no run), `RepeatsRefused` and `PolicyFollowed`, from
`PaymentAssumption`, for any handlers, processes, payments and nonces. The
invariant `PInv` adds that the nonce of a callback under way is registered in the
store that admitted it, which eviction, expiry and crashes respect, and that a
writer's copy passed its validation. That a confirmed payment stays confirmed is not a
theorem: `payment_race` refutes it.

**Sessions** (`AuthSessionsProofs`). `RotatedStaysGone`, `LockOutlivesLogins` and
`TokensLiveOnlyOnce`, from `AuthAssumption`, for any number of overlapping requests. The
invariant `AuthInv` says that only an existing account is locked; that the token and
the family named after a request are not in use before it inserts them (`NamesFresh`);
that only the legacy token has no family; and of a request that a refresh between
deleting the old session and storing its successor, or done, finds the old one gone,
that a login about to reset the failures read no lock in force, and that a request at
the family gate either arrived with a live token or has a family the gate refuses
(`AccessOK`). Every step is brought into one form, `Effect(R)`: sessions and families
only fade, except under names that are fresh, the requests in R move, the others wait.
What an effect keeps is proved once and cited by every action. For the refinement, a
token handed out is dead when its session is gone or expired or its family is closed;
each step of the code issues one, lets some die, or has a request arrive, be admitted
or leave, which are the steps of `TokenLife`, or it changes none of this.

**In front of the handlers** (`AccessProofs`), each of its component's own
specification, and then of the run's:
- `ChainNeverForks` and `ChainAlwaysVerifies`, from `AuditAssumption`. The invariant
  `AuditInv` adds that a writer past the lock is its only holder, that the tail
  it has read is the last row committed, and that every row is in the table, which is
  where the trigger is needed. `GreatestOf` shows that a bounded set has the
  maximum `Greatest` chooses.
- `WalletAnswersAgree`: `WalletInv` adds that an answer which names a wallet names a
  row of the table, rows being never changed or removed, and that the address a
  request has generated is in no row before it inserts it.
- `RetiredStaysRefused`: `CredInv` adds that keys and states are named by requests
  that have ended and never by the same one, that a retired name is a revoked key
  or an absent state, and that a request about to retire one has made it so.
- `RacesStayBounded`: `LimitInv` counts, besides the rows of a ledger, the attempts
  that have been let through and not been recorded yet; rows and these together never
  exceed the bound, since an attempt is let through only below the limit. A prefix
  that reaches the password check was recorded before it was counted.
- `RetriesAreReplayed`: `IdemInv` says that a key with a stored answer is in the store
  or among those Redis has lost, that a request which began after it and is past the
  lookup without a replay or a conflict was blind or met the loss, and that an answer in
  the store was produced for the actor, key and payload it is filed under.
- `WalletTypesHold`, `CredentialTypesHold` and `IdempotencyTypesHold`. That an address
  has one owner needs that a generated address is new; that the index of completed keys
  repeats none rests on `WithoutKeeps`.
- `AccessRunsComponents`: a behaviour of the specification `access` checks, in which
  one component runs, is a behaviour of each of the six. `AccessTypesHold` and
  `AccessKeepsItsPromises` conclude its type invariant and its other nine properties.

**Outages and the ledger** (`OperationsProofs`), likewise:
- `NoLedgerSkipped`: `PageInv` says that the page being handled continues the cursor.
- `BlocksInSequence`: `SequenceInv` says that only the lock's holder is in a cycle,
  that it has asked for the next sequence, and that the next sequence is the successor
  of the last block's own number except while a thread is between the handler and its
  assignment.
- `NoTransactionLeftOut`: `IndexInv` says for each step of a pass what part of its
  page is in the table; rows are never removed.
- `NoVersionOverwritten`: `PolicyInv` says that a publisher past the check either
  expects the token of the version it is based on or is based on a version that is no
  longer the last, which the unique index refuses, and that a process holds the
  default token until there is a version.
- `OnlyAwardedPromoted`: `DisputeInv` says that rows are named by requests that have
  ended, that a dispute's proposal was computed for it, and that a decision under
  way applies the proposal of its own dispute.
- `DeletedGetNothing`: `FanOutInv` says that none of the subscribers a fan-out has still
  to serve, has let pass its limiter, or has served was deleted before the event.
- `RollbackIsComplete`: `ImportInv` says that every row an import has inserted and that
  is still there is on its list of rows to undo until it ends, is being refreshed, or was
  lost in a failure, and that an import which ends with a row that was not lost does not
  answer `rolled_back`.
- `SuccessWasComputed` and `SubmittedOnce`: `JobsInv` says that a task's success, and one
  in the cache, has its computation; that a submission between its check and its
  insert holds the advisory lock, and the unfinished jobs there are meanwhile lie more
  than the limit back; and that a job that is retried is closed.
- `WalksAreExact`: `WalkInv` says that a cursor walk has answered, once each, exactly the
  unchanged rows up to its cursor, and that an offset walk of an unchanged list has
  answered exactly the rows its offset skips. The order is total, so LIMIT has one
  answer (`FirstRowsUnique`), and the first n rows with the next m are the first n + m
  (`FirstRowsGrow`).
- `ReportsStayTrue`: `ReportsInv` says that an outage has at most one latest result, so
  the ranking in the performance report drops none, and that figures are cached under the
  key of their query. `PlainKeys` shows that a key of two pieces which is the
  concatenation of two non-empty texts determines them, from `SequenceTheorems`.
  `SumOfClasses` shows that the buckets add up: counting the elements in a set of
  classes solves the recursion of `SumFunction`, and by a least counterexample nothing
  else does.
- A type lemma for each component (`JobsTyped`, `ImportTyped`, ...). Their
  strengthenings say that what a request has loaded is still a row when it uses it:
  a webhook is only marked deleted, an import has a row left while it inserts, and one
  that passed the checks; a fetch of the page poller has an attempt left. The stamps
  of reports suffice because a request takes at most one, which counts on finitely many
  requests (`ReportsAssumption`).
- `OperationsRunComponents`, `OperationsTypesHold` and `OperationsKeepTheirPromises`: as
  for `access`, for the ten components and the invariants of `operations`, and `TotalsAgree`.

The larger inductive invariants were checked by TLC before they were proved, on instances
of the size of the runs or larger (`AuthInv` on 132 777 states, `LimitInv` on 2 232 319,
`WalkInv` on 88 818).

Only model-checked: the two liveness properties, since fairness is outside the prover's
reach, and that `Filter` is `SelectSeq`. Every invariant and every action property of a
passing run is a theorem.

## 5. Plan, and what is not modelled

Next: the composition of `Disputes` with `Settlement`, where an overlapping
recomputation can leave an outage without a latest result.

Not modelled:

- Device SLA: `compute_device_sla` uses four undefined names and raises on every
  call; `Jobs` takes its outcome as arbitrary.
- The device-SLA cache and its single flight, for the same reason; the cache of
  subscriber ids, which is written and never read; the wallet cache, which nothing
  constructs.
- The reconciliation of snapshots, a read that compares one with figures computed anew.
- In `Settlement`, `RecomputeBegin` has the first, unlocked read and the advisory lock in
  one step; what it reads there, the status, is checked before the lock as in the code.
- Code that nothing calls: `stale_job_reaper`, the audit chain roots and
  commitments, `block_poller_pagination`, the stream and bulk persistence of
  outages, `is_revoked_cached`, `update_status` of payments, the dispatch limiter.
- Profile updates, signatures, password hashing, encryption, exports, metrics,
  health, logging and start-up guards: pure functions, or counters no decision
  depends on.
- The calls of the audit log inside other handlers: `AuditChain` has its writers.
