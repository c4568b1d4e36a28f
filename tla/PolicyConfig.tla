---------------------------- MODULE PolicyConfig ----------------------------
(***************************************************************************)
(* The SLA policy of one severity: the persisted ledger of versions and    *)
(* the copy each API process keeps for the calculation.  A version's       *)
(* values and its publish token are named by the request that published    *)
(* it.                                                                     *)
(***************************************************************************)
EXTENDS Naturals, Sequences

CONSTANTS
    Publishers,  \* requests that publish one version each
    Processes,   \* API processes
    Unconditional, \* expected_token is None
    Defaults     \* the values and the token a process starts with

ASSUME PolicyAssumption ==
    /\ Unconditional \notin Publishers /\ Defaults \notin Publishers \cup {Unconditional}
    /\ Processes # {}

VARIABLES
    ledger,   \* sla_config_history: ledger[i] is policy_version i + 1
    held,     \* _policy_versions, _publish_tokens and SLA_CONFIG of each process
    polPc, polReq

polVars == <<ledger, held, polPc, polReq>>

PublishTokens == Publishers \cup {Defaults}
PolicySteps == {"idle", "fetched", "lock", "insert", "version", "values", "token", "done"}

PolicyTypeOK ==
    /\ ledger \in Seq([token : Publishers, expected : PublishTokens \cup {Unconditional}])
    /\ held \in [Processes -> [version : Nat, values : PublishTokens, token : PublishTokens]]
    /\ polPc \in [Publishers -> PolicySteps]
    /\ polReq \in [Publishers -> [expected : PublishTokens \cup {Unconditional}, base : Nat,
                                  process : Processes]]

-----------------------------------------------------------------------------

PolGoto(r, step) == polPc' = [polPc EXCEPT ![r] = step]

\* publish_token of the row at a position, or the process's own before the
\* first publication.
TokenAt(i, p) == IF i = 0 THEN held[p].token ELSE ledger[i].token

\* get_current_token: what the author of the change sees.
FetchToken(r) ==
    /\ polPc[r] = "idle"
    /\ \E p \in Processes : polReq' = [polReq EXCEPT ![r].expected = TokenAt(Len(ledger), p)]
    /\ PolGoto(r, "fetched")
    /\ UNCHANGED <<ledger, held>>

\* publish_config_for_severity: the latest row is read FOR UPDATE; a request
\* that waits for it still gets this row, not the one inserted meanwhile.
\* update_config_for_severity comes here without a token.
SelectLatest(r) ==
    /\ polPc[r] \in {"idle", "fetched"}
    /\ \E p \in Processes :
         polReq' = [polReq EXCEPT ![r].base = Len(ledger), ![r].process = p]
    /\ PolGoto(r, "lock")
    /\ UNCHANGED <<ledger, held>>

RowLocked(r) ==
    /\ polReq[r].base > 0
    /\ \E s \in Publishers \ {r} : polPc[s] = "insert" /\ polReq[s].base = polReq[r].base

\* The token the expected one is compared with.
CachedToken(r) == held[polReq[r].process].token

CurrentToken(r) == TokenAt(polReq[r].base, polReq[r].process)

CheckToken(r) ==
    /\ polPc[r] = "lock" /\ ~ RowLocked(r)
    /\ PolGoto(r, IF polReq[r].expected \in {Unconditional, CurrentToken(r)} THEN "insert" ELSE "done")
    /\ UNCHANGED <<ledger, held, polReq>>

\* (severity, policy_version) is unique: a duplicate is a conflict.
InsertVersion(r) ==
    /\ polPc[r] = "insert"
    /\ IF Len(ledger) = polReq[r].base
       THEN /\ ledger' = Append(ledger, [token |-> r, expected |-> polReq[r].expected])
            /\ PolGoto(r, "version")
       ELSE PolGoto(r, "done") /\ UNCHANGED ledger
    /\ UNCHANGED <<held, polReq>>

\* The three assignments after the commit, other threads between them.
RefreshVersion(r) ==
    /\ polPc[r] = "version"
    /\ held' = [held EXCEPT ![polReq[r].process].version = polReq[r].base + 2]
    /\ PolGoto(r, "values")
    /\ UNCHANGED <<ledger, polReq>>

RefreshValues(r) ==
    /\ polPc[r] = "values"
    /\ held' = [held EXCEPT ![polReq[r].process].values = r]
    /\ PolGoto(r, "token")
    /\ UNCHANGED <<ledger, polReq>>

RefreshToken(r) ==
    /\ polPc[r] = "token"
    /\ held' = [held EXCEPT ![polReq[r].process].token = r]
    /\ PolGoto(r, "done")
    /\ UNCHANGED <<ledger, polReq>>

FreshProcess == [version |-> 1, values |-> Defaults, token |-> Defaults]

\* A restarted process starts from the defaults; its requests are lost.
RestartProcess(p) ==
    /\ held' = [held EXCEPT ![p] = FreshProcess]
    /\ polPc' = [r \in Publishers |->
         IF polPc[r] \in {"lock", "insert", "version", "values", "token"} /\ polReq[r].process = p
         THEN "done" ELSE polPc[r]]
    /\ UNCHANGED <<ledger, polReq>>

PolicyInit ==
    /\ ledger = <<>>
    /\ held = [p \in Processes |-> FreshProcess]
    /\ polPc = [r \in Publishers |-> "idle"]
    /\ polReq = [r \in Publishers |->
                   [expected |-> Unconditional, base |-> 0, process |-> CHOOSE p \in Processes : TRUE]]

Publish(r) ==
    \/ FetchToken(r) \/ SelectLatest(r) \/ CheckToken(r) \/ InsertVersion(r)
    \/ RefreshVersion(r) \/ RefreshValues(r) \/ RefreshToken(r)

PolicyNext == (\E r \in Publishers : Publish(r)) \/ (\E p \in Processes : RestartProcess(p))

PolicySpec == PolicyInit /\ [][PolicyNext]_polVars

-----------------------------------------------------------------------------

\* A version published against a token replaces exactly the version its
\* author had seen: no publication, on any process and across restarts, came
\* between (the optimistic concurrency of publish_config_for_severity).
PublishedOnSeenVersion ==
    \A i \in DOMAIN ledger : ledger[i].expected # Unconditional =>
        ledger[i].expected = IF i = 1 THEN Defaults ELSE ledger[i - 1].token

=============================================================================
