----------------------------- MODULE SlaReports -----------------------------
(***************************************************************************)
(* The analytics endpoints: dashboard KPIs and trends behind the cache of  *)
(* a process, performance, and snapshots that can be compared with the     *)
(* live figures later.  Every aggregate is one statement over the SLA      *)
(* results; a snapshot needs two.  The reward of a result that is met and  *)
(* the penalty of one that is violated are one.  A text that a query gives *)
(* is the sequence of its pieces between underscores, and <<>> is None.    *)
(***************************************************************************)
EXTENDS Naturals, Sequences, FiniteSets, Functions

CONSTANTS
    Pieces,        \* texts without an underscore
    Reported,      \* outages, with their severity and site
    Queries,       \* filters on the severity and the site
    Mttrs,
    Threshold,     \* a longer repair is violated
    Days,          \* buckets of the trends
    Reporters,     \* requests of the analytics endpoints
    MaxSlaRows     \* bound on the results stored

Unfiltered == [severity |-> <<>>, site |-> <<>>]

ASSUME ReportsAssumption ==
    /\ "None" \in Pieces
    /\ Unfiltered \in Queries /\ Queries \subseteq [severity : Seq(Pieces), site : Seq(Pieces)]
    /\ Mttrs \subseteq Nat /\ MaxSlaRows \in Nat
    /\ Days \subseteq Nat /\ IsFiniteSet(Days) /\ IsFiniteSet(Reporters)

VARIABLES
    slaRows,    \* sla_results, in the order of their ids
    snapshot,   \* the latest analytics snapshot
    stamps,     \* time stamps given to snapshots
    figures,    \* _dashboard_cache: the query whose figures each key holds
    repPc, repReq

reportVars == <<slaRows, snapshot, stamps, figures, repPc, repReq>>

SlaRow == [outage : Reported, latest : BOOLEAN, mttr : Mttrs, day : Days, recent : BOOLEAN]

-----------------------------------------------------------------------------

Violated(i) == slaRows[i].mttr > Threshold
Passes(i, q) ==
    /\ q.severity # <<>> => slaRows[i].outage.severity = q.severity
    /\ q.site # <<>> => slaRows[i].outage.site = q.site

Totals(S) ==
    [total |-> Cardinality(S), rewards |-> Cardinality({i \in S : ~ Violated(i)}),
     penalties |-> Cardinality({i \in S : Violated(i)})]

\* aggregate_dashboard_kpis: the latest results of the scanned year.
KpiRows(q) == {i \in DOMAIN slaRows : slaRows[i].latest /\ slaRows[i].recent /\ Passes(i, q)}
Kpis(q) == Totals(KpiRows(q))

\* aggregate_performance ranks the latest results of an outage and counts the
\* first of them; the mean is rounded to hundredths.
PerfRows(q) ==
    {i \in DOMAIN slaRows :
        /\ slaRows[i].recent /\ Passes(i, q) /\ slaRows[i].latest
        /\ \A j \in DOMAIN slaRows : slaRows[j].recent /\ slaRows[j].latest
                                     /\ slaRows[j].outage = slaRows[i].outage => j <= i}
AvgMttr(S) ==
    IF S = {} THEN 0 ELSE (100 * SumFunction([i \in S |-> slaRows[i].mttr])) \div Cardinality(S)
Performance(q) == [totals |-> Totals(PerfRows(q)), avg_mttr |-> AvgMttr(PerfRows(q))]

\* aggregate_trends: the last n buckets that have results.
Trends(q, n) ==
    LET used == {slaRows[i].day : i \in KpiRows(q)}
    IN  [d \in {d \in used : Cardinality({e \in used : e > d}) < n} |->
           Totals({i \in KpiRows(q) : slaRows[i].day = d})]

NoSnapshot == [stamp |-> 0, kpis |-> Totals({}), avg_mttr |-> 0]
NoReport == [query |-> Unfiltered, row |-> NoSnapshot]

-----------------------------------------------------------------------------

\* One key for every query.
OneKey(q) == <<"None", "None">>

Shown(v) == IF v = <<>> THEN <<"None">> ELSE v

\* cache_key: the texts are joined by underscores.  The key of the trends also
\* names their window, bucket and time zone.
ReportKey(q) == Shown(q.severity) \o Shown(q.site)

ReportsTypeOK ==
    /\ DOMAIN slaRows \subseteq 1 .. MaxSlaRows /\ \A i \in DOMAIN slaRows : slaRows[i] \in SlaRow
    /\ snapshot.stamp \in 0 .. stamps /\ stamps \in 0 .. Cardinality(Reporters)
    /\ \A k \in DOMAIN figures : figures[k] \in Queries
    /\ repPc \in [Reporters -> {"idle", "read", "kpis", "perf", "done"}]

-----------------------------------------------------------------------------

\* SLARepository.create: the insert and the demotion are one transaction.
StoreSla(o, m, d) ==
    LET n == Cardinality(DOMAIN slaRows) + 1 IN
    /\ n <= MaxSlaRows
    /\ slaRows' = [i \in 1 .. n |->
                     IF i = n
                     THEN [outage |-> o, latest |-> TRUE, mttr |-> m, day |-> d, recent |-> TRUE]
                     ELSE IF slaRows[i].outage = o THEN [slaRows[i] EXCEPT !.latest = FALSE] ELSE slaRows[i]]
    /\ UNCHANGED <<snapshot, stamps, figures, repPc, repReq>>

\* A year has passed since the result was created (DEFAULT_SCAN_DAYS).
LeavesScan(i) ==
    /\ slaRows[i].recent
    /\ slaRows' = [slaRows EXCEPT ![i].recent = FALSE]
    /\ UNCHANGED <<snapshot, stamps, figures, repPc, repReq>>

RepGoto(r, step) == repPc' = [repPc EXCEPT ![r] = step]
RepEnd(r) == RepGoto(r, "done") /\ repReq' = [repReq EXCEPT ![r] = NoReport]

\* get_sla_dashboard_kpis, get_sla_trends: a hit is answered at once; the
\* figures of a miss are stored later, whatever was invalidated meanwhile.
ReadReport(r, q) ==
    /\ repPc[r] = "idle"
    /\ IF ReportKey(q) \in DOMAIN figures
       THEN RepEnd(r)
       ELSE RepGoto(r, "read") /\ repReq' = [repReq EXCEPT ![r].query = q]
    /\ UNCHANGED <<slaRows, snapshot, stamps, figures>>

CacheReport(r) ==
    LET k == ReportKey(repReq[r].query) IN
    /\ repPc[r] = "read"
    /\ figures' = [x \in DOMAIN figures \cup {k} |-> IF x = k THEN repReq[r].query ELSE figures[x]]
    /\ RepEnd(r)
    /\ UNCHANGED <<slaRows, snapshot, stamps>>

ReportExpires(k) ==
    /\ figures' = [x \in DOMAIN figures \ {k} |-> figures[x]]
    /\ UNCHANGED <<slaRows, snapshot, stamps, repPc, repReq>>

\* _invalidate_analytics_cache, after a result was stored by this process.
InvalidateReports ==
    /\ figures' = [k \in {} |-> NoReport]
    /\ UNCHANGED <<slaRows, snapshot, stamps, repPc, repReq>>

\* create_snapshot and rebuild_snapshot: the KPIs, then the performance and
\* the time, then the commit, after which the endpoint clears the cache.
SnapshotKpis(r) ==
    /\ repPc[r] = "idle"
    /\ RepGoto(r, "kpis")
    /\ repReq' = [repReq EXCEPT ![r].row.kpis = Kpis(Unfiltered)]
    /\ UNCHANGED <<slaRows, snapshot, stamps, figures>>

SnapshotPerf(r) ==
    /\ repPc[r] = "kpis"
    /\ RepGoto(r, "perf") /\ stamps' = stamps + 1
    /\ repReq' = [repReq EXCEPT ![r].row.avg_mttr = Performance(Unfiltered).avg_mttr,
                               ![r].row.stamp = stamps + 1]
    /\ UNCHANGED <<slaRows, snapshot, figures>>

\* get_latest_snapshot orders by the time, so a late commit may not count.
SnapshotCommit(r) ==
    /\ repPc[r] = "perf"
    /\ snapshot' = IF repReq[r].row.stamp > snapshot.stamp THEN repReq[r].row ELSE snapshot
    /\ figures' = [k \in {} |-> NoReport]
    /\ RepEnd(r)
    /\ UNCHANGED <<slaRows, stamps>>

ReportsInit ==
    /\ slaRows = [i \in 1 .. 0 |-> 0] /\ snapshot = NoSnapshot /\ stamps = 0
    /\ figures = [k \in {} |-> NoReport]
    /\ repPc = [r \in Reporters |-> "idle"] /\ repReq = [r \in Reporters |-> NoReport]

ReportsNext ==
    \/ \E o \in Reported, m \in Mttrs, d \in Days : StoreSla(o, m, d)
    \/ \E i \in DOMAIN slaRows : LeavesScan(i)
    \/ \E r \in Reporters :
         \/ CacheReport(r) \/ SnapshotKpis(r) \/ SnapshotPerf(r) \/ SnapshotCommit(r)
         \/ \E q \in Queries : ReadReport(r, q)
    \/ \E k \in DOMAIN figures : ReportExpires(k)
    \/ InvalidateReports

ReportsSpec == ReportsInit /\ [][ReportsNext]_reportVars

-----------------------------------------------------------------------------

\* The dashboard, the performance report and the trends over all buckets give
\* the same totals of the same results, however often an outage was recomputed
\* (the reason given for the is_latest filter of aggregate_dashboard_kpis).
TotalsAgree ==
    \A q \in Queries :
        /\ Kpis(q) = Performance(q).totals
        /\ LET t == Trends(q, Cardinality(Days))
           IN  Kpis(q).total = SumFunction([d \in DOMAIN t |-> t[d].total])

\* A query whose texts have no underscore.
Plain(q) == Len(q.severity) <= 1 /\ Len(q.site) <= 1

\* A query whose texts have no underscore is never answered from the cache
\* with the figures of a query that shows another severity or site, whatever
\* queries, also with underscores, run and are cached at the same time
\* (get_sla_dashboard_kpis, get_sla_trends).
PlainQueriesUnmixed ==
    \A q \in Queries : Plain(q) /\ ReportKey(q) \in DOMAIN figures =>
        LET p == figures[ReportKey(q)]
        IN  Shown(p.severity) = Shown(q.severity) /\ Shown(p.site) = Shown(q.site)

=============================================================================
