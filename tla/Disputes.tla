------------------------------ MODULE Disputes ------------------------------
(***************************************************************************)
(* Disputes about one SLA result (the baseline) of one outage: engineers   *)
(* flag and propose, administrators decide, and a decision may make the    *)
(* proposed result the outage's latest one.  A dispute and a proposed      *)
(* result are named by the request that created them.  The database is     *)
(* PostgreSQL at READ COMMITTED, without autoflush: a handler reads, and   *)
(* all its writes happen when it commits.                                  *)
(***************************************************************************)
EXTENDS Naturals, FiniteSets

CONSTANTS
    DisputeRequests,  \* API requests, each performing one operation
    Baseline,         \* the disputed result
    NoResult

ASSUME DisputeAssumption == Baseline \notin DisputeRequests /\ NoResult \notin DisputeRequests \cup {Baseline}

VARIABLES
    dispute,    \* sla_disputes, a function from ids to rows
    history,    \* dispute_audit_logs, the actions recorded for each dispute
    proposal,   \* the dispute each proposed result was computed for
    recomputed, \* results the settlement stored
    latest,     \* the results with is_latest
    dispPc, dispReq

dispVars == <<dispute, history, proposal, recomputed, latest, dispPc, dispReq>>

Results == DisputeRequests \cup {Baseline}
DisputeStatus == {"pending", "resolved", "rejected"}
Decisions == DisputeStatus \ {"pending"}
DisputeSteps == {"idle", "flag", "propose", "find", "wait", "decide", "done"}

\* existing: the row the FOR UPDATE query asked for, then what it returned.
\* wasLatest: is_latest of the proposed result when it was loaded.
DispLocals == [on : DisputeRequests \cup {NoResult}, decision : Decisions, apply : BOOLEAN,
    proposed : Results \cup {NoResult}, wasLatest : BOOLEAN, existing : SUBSET Results]

NoDispReq == [on |-> NoResult, decision |-> "rejected", apply |-> FALSE,
    proposed |-> NoResult, wasLatest |-> FALSE, existing |-> {}]

\* Types, and the partial unique index on the latest result of an outage.
DisputesTypeOK ==
    /\ DOMAIN dispute \subseteq DisputeRequests
    /\ \A d \in DOMAIN dispute :
         dispute[d] \in [status : DisputeStatus, proposed : DOMAIN proposal \cup {NoResult}]
    /\ history \in [DOMAIN dispute -> SUBSET ({"flagged", "proposed"} \cup Decisions)]
    /\ DOMAIN proposal \subseteq DisputeRequests
    /\ \A p \in DOMAIN proposal : proposal[p] \in DOMAIN dispute
    /\ recomputed \subseteq DisputeRequests
    /\ latest \subseteq Results /\ Cardinality(latest) <= 1
    /\ dispPc \in [DisputeRequests -> DisputeSteps]
    /\ dispReq \in [DisputeRequests -> DispLocals]

-----------------------------------------------------------------------------

DispPut(f, k, v) == [x \in DOMAIN f \cup {k} |-> IF x = k THEN v ELSE f[x]]
DispGoto(r, step) == dispPc' = [dispPc EXCEPT ![r] = step]
DispEnd(r) == DispGoto(r, "done") /\ dispReq' = [dispReq EXCEPT ![r] = NoDispReq]
DispIdle(r) == dispPc[r] = "idle"

Pending == {d \in DOMAIN dispute : dispute[d].status = "pending"}

\* flag_dispute: the check for a pending dispute.
FlagRead(r) ==
    /\ DispIdle(r)
    /\ IF Pending # {} THEN DispEnd(r) ELSE DispGoto(r, "flag") /\ UNCHANGED dispReq
    /\ UNCHANGED <<dispute, history, proposal, recomputed, latest>>

FlagCommit(r) ==
    /\ dispPc[r] = "flag"
    /\ dispute' = DispPut(dispute, r, [status |-> "pending", proposed |-> NoResult])
    /\ history' = DispPut(history, r, {"flagged"})
    /\ DispEnd(r)
    /\ UNCHANGED <<proposal, recomputed, latest>>

\* create_proposed_sla: any of the pending disputes, the query has no order.
ProposeRead(r) ==
    /\ DispIdle(r)
    /\ \E d \in Pending : dispReq' = [dispReq EXCEPT ![r].on = d]
    /\ DispGoto(r, "propose")
    /\ UNCHANGED <<dispute, history, proposal, recomputed, latest>>

\* The dispute may have been decided since: only its proposal is written.
ProposeCommit(r) ==
    LET d == dispReq[r].on IN
    /\ dispPc[r] = "propose"
    /\ proposal' = DispPut(proposal, r, d)
    /\ dispute' = [dispute EXCEPT ![d].proposed = r]
    /\ history' = [history EXCEPT ![d] = @ \cup {"proposed"}]
    /\ DispEnd(r)
    /\ UNCHANGED <<recomputed, latest>>

\* resolve_dispute: loads a pending dispute and sets the decision on it.
ResolveRead(r) ==
    /\ DispIdle(r)
    /\ \E d \in Pending, c \in Decisions, a \in BOOLEAN :
         dispReq' = [dispReq EXCEPT ![r].on = d, ![r].decision = c, ![r].apply = a,
                                    ![r].proposed = dispute[d].proposed]
    /\ DispGoto(r, "find")
    /\ UNCHANGED <<dispute, history, proposal, recomputed, latest>>

\* Applies a proposal whatever the decision.
AppliesAlways(q) == q.apply

Applies(q) == q.apply /\ q.decision = "resolved"

\* Loads the proposed result and asks for the latest one FOR UPDATE.
FindProposed(r) ==
    LET q == dispReq[r] IN
    /\ dispPc[r] = "find" /\ Applies(q) /\ q.proposed # NoResult
    /\ dispReq' = [dispReq EXCEPT ![r].wasLatest = q.proposed \in latest,
                                  ![r].existing = latest]
    /\ DispGoto(r, "wait")
    /\ UNCHANGED <<dispute, history, proposal, recomputed, latest>>

NothingToApply(r) ==
    /\ dispPc[r] = "find" /\ Applies(dispReq[r]) /\ dispReq[r].proposed = NoResult
    /\ DispEnd(r)
    /\ UNCHANGED <<dispute, history, proposal, recomputed, latest>>

LockedRows(r) == UNION {dispReq[s].existing : s \in {s \in DisputeRequests \ {r} : dispPc[s] = "decide"}}

\* A row that stopped being the latest during the wait is not returned.
LockLatest(r) ==
    /\ dispPc[r] = "wait" /\ dispReq[r].existing \cap LockedRows(r) = {}
    /\ dispReq' = [dispReq EXCEPT ![r].existing = @ \cap latest]
    /\ DispGoto(r, "decide")
    /\ UNCHANGED <<dispute, history, proposal, recomputed, latest>>

SkipApply(r) ==
    /\ dispPc[r] = "find" /\ ~ Applies(dispReq[r])
    /\ DispGoto(r, "decide")
    /\ UNCHANGED <<dispute, history, proposal, recomputed, latest, dispReq>>

\* The is_latest flags after the commit.  A proposed result loaded as the
\* latest is not written: the ORM sees no change of it.
LatestAfter(q) ==
    LET promoted == IF q.wasLatest THEN {} ELSE {q.proposed}
        demoted  == IF q.wasLatest THEN q.existing \ {q.proposed} ELSE q.existing
    IN  IF Applies(q) THEN (latest \ demoted) \cup promoted ELSE latest

\* A second latest result breaks the unique index: nothing is stored.
DecideCommit(r) ==
    LET q == dispReq[r] IN
    /\ dispPc[r] = "decide"
    /\ Applies(q) => q.proposed \notin LockedRows(r)
    /\ IF Cardinality(LatestAfter(q)) > 1
       THEN UNCHANGED <<dispute, history, latest>>
       ELSE /\ dispute' = [dispute EXCEPT ![q.on].status = q.decision]
            /\ history' = [history EXCEPT ![q.on] = @ \cup {q.decision}]
            /\ latest' = LatestAfter(q)
    /\ DispEnd(r)
    /\ UNCHANGED <<proposal, recomputed>>

\* The settlement stores a result of the outage: the latest row is locked,
\* demoted and replaced in one transaction.
StoreResult(r) ==
    /\ DispIdle(r) /\ latest \cap LockedRows(r) = {}
    /\ recomputed' = recomputed \cup {r}
    /\ latest' = {r}
    /\ DispEnd(r)
    /\ UNCHANGED <<dispute, history, proposal>>

DisputesInit ==
    /\ dispute = [d \in {} |-> NoDispReq] /\ history = [d \in {} |-> {}]
    /\ proposal = [p \in {} |-> NoResult]
    /\ recomputed = {} /\ latest = {Baseline}
    /\ dispPc = [r \in DisputeRequests |-> "idle"]
    /\ dispReq = [r \in DisputeRequests |-> NoDispReq]

Flag(r) == FlagRead(r) \/ FlagCommit(r)
Propose(r) == ProposeRead(r) \/ ProposeCommit(r)
Resolve(r) ==
    ResolveRead(r) \/ FindProposed(r) \/ NothingToApply(r) \/ LockLatest(r) \/ SkipApply(r) \/ DecideCommit(r)

DisputesNext == \E r \in DisputeRequests : Flag(r) \/ Propose(r) \/ Resolve(r) \/ StoreResult(r)

DisputesSpec == DisputesInit /\ [][DisputesNext]_dispVars

-----------------------------------------------------------------------------

\* A proposed result is the outage's latest one only when the dispute it was
\* computed for was resolved by somebody, however flags, proposals, decisions
\* and recomputations overlap (resolve_dispute).
LatestWasAwarded ==
    \A p \in latest \cap DOMAIN proposal : "resolved" \in history[proposal[p]]

=============================================================================
