---------------------------- MODULE MCOperations ----------------------------
(***************************************************************************)
(* The components that run outages, their SLA results and the ledger,      *)
(* instantiated for TLC.  They share no state in these models, so a        *)
(* behaviour is one of one component, while the others stay as they begin. *)
(***************************************************************************)
EXTENDS Jobs, OutageImport, Listing, WebhookRegistry, Disputes, PolicyConfig, SlaReports,
        PagePoller, SequencePoller, TxIndexer, TLC

VARIABLE subject   \* the component of this behaviour

Init ==
    /\ JobsInit
    /\ ImportInit
    /\ ListingInit
    /\ RegistryInit
    /\ DisputesInit
    /\ PolicyInit
    /\ ReportsInit
    /\ PagePollerInit
    /\ SequencePollerInit
    /\ TxIndexerInit
    /\ subject \in {"jobs", "import", "lists", "registry", "disputes", "policy", "reports",
                    "pages", "sequence", "indexer"}
    \* The registry's choice of a first state is made only in its behaviours.
    /\ subject = "registry" \/ hooks[FirstHook].active

Next ==
    \/ /\ subject = "jobs" /\ JobsNext
       /\ UNCHANGED <<subject, importVars, listVars, hookVars, dispVars, polVars, reportVars,
                    pageVars, seqVars, indexVars>>
    \/ /\ subject = "import" /\ ImportNext
       /\ UNCHANGED <<subject, jobVars, listVars, hookVars, dispVars, polVars, reportVars,
                    pageVars, seqVars, indexVars>>
    \/ /\ subject = "lists" /\ ListingNext
       /\ UNCHANGED <<subject, jobVars, importVars, hookVars, dispVars, polVars, reportVars,
                    pageVars, seqVars, indexVars>>
    \/ /\ subject = "registry" /\ RegistryNext
       /\ UNCHANGED <<subject, jobVars, importVars, listVars, dispVars, polVars, reportVars,
                    pageVars, seqVars, indexVars>>
    \/ /\ subject = "disputes" /\ DisputesNext
       /\ UNCHANGED <<subject, jobVars, importVars, listVars, hookVars, polVars, reportVars,
                    pageVars, seqVars, indexVars>>
    \/ /\ subject = "policy" /\ PolicyNext
       /\ UNCHANGED <<subject, jobVars, importVars, listVars, hookVars, dispVars, reportVars,
                    pageVars, seqVars, indexVars>>
    \/ /\ subject = "reports" /\ ReportsNext
       /\ UNCHANGED <<subject, jobVars, importVars, listVars, hookVars, dispVars, polVars,
                    pageVars, seqVars, indexVars>>
    \/ /\ subject = "pages" /\ PagePollerNext
       /\ UNCHANGED <<subject, jobVars, importVars, listVars, hookVars, dispVars, polVars,
                    reportVars, seqVars, indexVars>>
    \/ /\ subject = "sequence" /\ SequencePollerNext
       /\ UNCHANGED <<subject, jobVars, importVars, listVars, hookVars, dispVars, polVars,
                    reportVars, pageVars, indexVars>>
    \/ /\ subject = "indexer" /\ TxIndexerNext
       /\ UNCHANGED <<subject, jobVars, importVars, listVars, hookVars, dispVars, polVars,
                    reportVars, pageVars, seqVars>>

Spec ==
    Init /\ [][Next]_<<subject, jobVars, importVars, listVars, hookVars, dispVars, polVars,
                       reportVars, pageVars, seqVars, indexVars>>

TypeOK ==
    /\ JobsTypeOK
    /\ ImportTypeOK
    /\ ListingTypeOK
    /\ RegistryTypeOK
    /\ DisputesTypeOK
    /\ PolicyTypeOK
    /\ ReportsTypeOK
    /\ PagePollerTypeOK
    /\ SequencePollerTypeOK
    /\ TxIndexerTypeOK

\* The last two queries have one cache key.
MCReported == {[id |-> 1, severity |-> <<"high">>, site |-> <<"a">>],
               [id |-> 2, severity |-> <<"low">>, site |-> <<"a", "b">>]}
MCQueries == {Unfiltered,
              [severity |-> <<"high">>, site |-> <<"a">>],
              [severity |-> <<>>, site |-> <<"a", "b">>],
              [severity |-> <<"None", "a">>, site |-> <<"b">>]}

MCSymmetry == Permutations(JobRequests) \cup Permutations(Importers) \cup Permutations(OutageIds)

=============================================================================
