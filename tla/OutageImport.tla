---------------------------- MODULE OutageImport ----------------------------
(***************************************************************************)
(* Creation of outages: one, in bulk, or from a file with dry run, atomic  *)
(* and partial consistency.  Each row is committed on its own and read     *)
(* back; an atomic import that fails deletes the rows it knows it stored.  *)
(* An outage is its id, its key (site, time and description) and the rest  *)
(* of its content.                                                         *)
(***************************************************************************)
EXTENDS Naturals, Sequences, FiniteSets

CONSTANTS
    Importers,    \* requests, each importing one batch
    OutageIds, OutageKeys, Contents,
    Invalid,      \* a row that fails validation
    NoOne,        \* the creator of rows that exist already
    MaxBatch      \* bound on the rows of a batch

ASSUME ImportAssumption == MaxBatch \in Nat \ {0} /\ NoOne \notin Importers

VARIABLES
    outages,   \* the table by id, with the request that inserted each row
    settled,   \* ids with SLA results or payments
    lost,      \* the rows of each request that were committed when the database
               \* failed, before their ids were noted
    impPc, impReq

importVars == <<outages, settled, lost, impPc, impReq>>

OutageCreate == [id : OutageIds, key : OutageKeys, content : Contents]
ImportModes == {"create", "bulk", "dry_run", "atomic", "partial"}

\* rest: rows still to do.  mine: rows_persisted_this_batch.
NoImport == [mode |-> "create", rest |-> <<>>, mine |-> {}, answer |-> "none"]

ImportTypeOK ==
    /\ DOMAIN outages \subseteq OutageIds
    /\ \A i \in DOMAIN outages :
         outages[i] \in [key : OutageKeys, content : Contents, by : Importers \cup {NoOne}]
    /\ settled \subseteq DOMAIN outages
    /\ lost \in [Importers -> SUBSET OutageIds]
    /\ impPc \in [Importers -> {"idle", "check", "insert", "refresh", "commit", "undo", "done"}]
    /\ \A r \in Importers :
         /\ impReq[r].mode \in ImportModes /\ impReq[r].mine \subseteq OutageIds
         /\ impReq[r].rest \in Seq(OutageCreate \cup {Invalid}) /\ Len(impReq[r].rest) <= MaxBatch
         /\ impReq[r].answer \in {"none", "ok", "refused", "failed", "rolled_back"}

-----------------------------------------------------------------------------

Answer(r, a) ==
    /\ impPc' = [impPc EXCEPT ![r] = "done"]
    /\ impReq' = [impReq EXCEPT ![r] = [NoImport EXCEPT !.answer = a]]

Batches == UNION {[1 .. n -> OutageCreate \cup {Invalid}] : n \in 1 .. MaxBatch}

\* A single outage or a bulk body is validated before the handler runs; an
\* atomic import validates every row first; the other modes row by row.
Accepts(mode, batch) ==
    mode \in {"create", "bulk", "atomic"} => \A i \in DOMAIN batch : batch[i] # Invalid

BeginImport(r, mode, batch) ==
    /\ impPc[r] = "idle"
    /\ mode = "create" => Len(batch) = 1
    /\ IF Accepts(mode, batch)
       THEN /\ impPc' = [impPc EXCEPT ![r] = "check"]
            /\ impReq' = [impReq EXCEPT ![r].mode = mode, ![r].rest = batch]
       ELSE Answer(r, "refused")
    /\ UNCHANGED <<outages, settled, lost>>

\* _find_duplicate_orm: the rows with the payload's key.
SameKey(p) == {i \in DOMAIN outages : outages[i].key = p.key}

\* check_duplicate: the row it returns, none, or the conflict it raises.
CheckDuplicate(p) ==
    IF p.id \in DOMAIN outages
    THEN IF outages[p.id].key = p.key /\ outages[p.id].content = p.content THEN {"duplicate"} ELSE {"conflict"}
    ELSE IF SameKey(p) = {} THEN {"new"}
    ELSE {IF outages[i].content = p.content THEN "duplicate" ELSE "conflict" : i \in SameKey(p)}

\* The row is done, well or with an error of its own; ids are those it added
\* to rows_persisted_this_batch.  An atomic import ends with a commit.
NextRow(r, ids) ==
    IF Len(impReq[r].rest) = 1 /\ impReq[r].mode # "atomic"
    THEN Answer(r, "ok")
    ELSE /\ impPc' = [impPc EXCEPT ![r] = IF Len(impReq[r].rest) = 1 THEN "commit" ELSE "check"]
         /\ impReq' = [impReq EXCEPT ![r].rest = Tail(@), ![r].mine = impReq[r].mine \cup ids]

\* Leaves the rows of a batch that failed on its content.
NoUndo(r) == Answer(r, "rolled_back")

\* An exception in an atomic import: its rows are to be deleted.
Undo(r) == impPc' = [impPc EXCEPT ![r] = "undo"] /\ UNCHANGED impReq

\* A ValueError: a conflict, or a row that is not valid.
RowConflict(r) ==
    CASE impReq[r].mode = "atomic"               -> Undo(r)
      [] impReq[r].mode \in {"dry_run", "partial"} -> NextRow(r, {})
      [] OTHER                                   -> Answer(r, "failed")

CheckRow(r) ==
    LET p == Head(impReq[r].rest) IN
    /\ impPc[r] = "check"
    /\ \/ p = Invalid /\ RowConflict(r)
       \/ /\ p # Invalid
          /\ \/ "duplicate" \in CheckDuplicate(p) /\ NextRow(r, {})
             \/ "conflict" \in CheckDuplicate(p) /\ RowConflict(r)
             \/ /\ "new" \in CheckDuplicate(p) /\ impReq[r].mode # "dry_run"
                /\ impPc' = [impPc EXCEPT ![r] = "insert"] /\ UNCHANGED impReq
             \/ "new" \in CheckDuplicate(p) /\ impReq[r].mode = "dry_run" /\ NextRow(r, {})
    /\ UNCHANGED <<outages, settled, lost>>

\* The INSERT and its COMMIT.
InsertOutage(r) ==
    LET p == Head(impReq[r].rest) IN
    /\ impPc[r] = "insert" /\ p.id \notin DOMAIN outages
    /\ outages' = [i \in DOMAIN outages \cup {p.id} |->
                     IF i = p.id THEN [key |-> p.key, content |-> p.content, by |-> r] ELSE outages[i]]
    /\ impPc' = [impPc EXCEPT ![r] = "refresh"]
    /\ UNCHANGED <<settled, lost, impReq>>

\* A database error, which only the atomic mode catches.
DatabaseFails(r) == IF impReq[r].mode = "atomic" THEN Undo(r) ELSE Answer(r, "failed")

\* An id that another request took since the check is an IntegrityError, or
\* the database fails.
InsertFails(r) ==
    /\ impPc[r] = "insert"
    /\ DatabaseFails(r)
    /\ UNCHANGED <<outages, settled, lost>>

\* The committed row is read back and its id noted.
RefreshOutage(r) ==
    /\ impPc[r] = "refresh"
    /\ NextRow(r, {Head(impReq[r].rest).id})
    /\ UNCHANGED <<outages, settled, lost>>

\* The row is committed, and the commit's answer is lost, or the refresh
\* fails or finds the row deleted.
RefreshFails(r) ==
    /\ impPc[r] = "refresh"
    /\ DatabaseFails(r)
    /\ lost' = [lost EXCEPT ![r] = @ \cup {Head(impReq[r].rest).id}]
    /\ UNCHANGED <<outages, settled>>

\* The commit of an atomic import, which has nothing left to write.
CommitImport(r) ==
    /\ impPc[r] = "commit"
    /\ Answer(r, "ok") \/ Undo(r)
    /\ UNCHANGED <<outages, settled, lost>>

Without(i) == [x \in DOMAIN outages \ {i} |-> outages[x]]

\* repo.delete of a row of the batch, if it still exists; a settled outage
\* raises, and the rows after it are left.
UndoRow(r) ==
    /\ impPc[r] = "undo"
    /\ \E i \in impReq[r].mine :
         \/ /\ i \in settled
            /\ Answer(r, "failed") /\ UNCHANGED outages
         \/ /\ i \notin settled
            /\ outages' = Without(i)
            /\ impReq' = [impReq EXCEPT ![r].mine = @ \ {i}]
            /\ UNCHANGED impPc
    /\ UNCHANGED <<settled, lost>>

UndoDone(r) ==
    /\ impPc[r] = "undo" /\ impReq[r].mine = {}
    /\ Answer(r, "rolled_back")
    /\ UNCHANGED <<outages, settled, lost>>

ImportCrash(r) ==
    /\ impPc[r] \notin {"idle", "done"}
    /\ Answer(r, "none")
    /\ UNCHANGED <<outages, settled, lost>>

\* Resolution stores an SLA result of an outage.
Settle(i) ==
    /\ settled' = settled \cup {i}
    /\ UNCHANGED <<outages, lost, impPc, impReq>>

\* delete_outage: refused for a settled one.
DeleteOutage(i) ==
    /\ i \notin settled
    /\ outages' = Without(i)
    /\ UNCHANGED <<settled, lost, impPc, impReq>>

ImportInit ==
    /\ outages = [i \in {} |-> NoOne] /\ settled = {}
    /\ lost = [r \in Importers |-> {}]
    /\ impPc = [r \in Importers |-> "idle"]
    /\ impReq = [r \in Importers |-> NoImport]

Import(r) ==
    \/ \E mode \in ImportModes, batch \in Batches : BeginImport(r, mode, batch)
    \/ CheckRow(r) \/ InsertOutage(r) \/ InsertFails(r) \/ RefreshOutage(r) \/ RefreshFails(r)
    \/ CommitImport(r) \/ UndoRow(r) \/ UndoDone(r) \/ ImportCrash(r)

ImportNext ==
    \/ \E r \in Importers : Import(r)
    \/ \E i \in DOMAIN outages : Settle(i) \/ DeleteOutage(i)

ImportSpec == ImportInit /\ [][ImportNext]_importVars

-----------------------------------------------------------------------------

\* The rows of the table that r inserted.
RowsOf(r) == {i \in DOMAIN outages : outages[i].by = r}

\* An atomic import that answers "batch rolled back" has left none of its rows
\* in the table but those the database had committed when it failed, although
\* rows are committed one by one while other requests import, settle and
\* delete outages (import_outages).
RolledBackLeavesLost ==
    \A r \in Importers : impReq[r].answer = "rolled_back" => RowsOf(r) \subseteq lost[r]

\* "Atomic outage import must be all-or-nothing"
\* (tests/test_outage_import_atomicity.py): a batch that is answered with
\* "batch rolled back" has left no row.  A row whose refresh fails is
\* committed and its id not noted, so the undo does not delete it.
AllOrNothing ==
    \A r \in Importers : impReq[r].answer = "rolled_back" => RowsOf(r) = {}

=============================================================================
