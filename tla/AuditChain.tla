----------------------------- MODULE AuditChain -----------------------------
(***************************************************************************)
(* The hash-chained audit log: concurrent writers (AuditLogService), the   *)
(* retention task that archives old rows to a file and asks the database   *)
(* to delete them, and the verification.  A row is named by its id and     *)
(* stands for its hash; ids are handed out in the order of the commits,    *)
(* because the insertion is made under the advisory lock "audit_chain".    *)
(***************************************************************************)
EXTENDS Naturals, Sequences, FiniteSets

CONSTANTS
    AuditWriters,   \* requests and tasks that log an event
    Archivers,      \* runs of archive_old_audit_entries
    NoWriter,
    MaxEntries,     \* bound on the rows ever inserted
    AuditBatch      \* _BATCH_SIZE

ASSUME AuditAssumption ==
    /\ NoWriter \notin AuditWriters
    /\ MaxEntries \in Nat
    /\ AuditBatch \in Nat \ {0}

VARIABLES
    auditLog,   \* every row ever committed, by id
    live,       \* ids of the rows in the table
    archive,    \* ids written to the archive file
    chainLock,  \* holder of the advisory lock
    clock,      \* number of timestamps taken
    horizon,    \* rows with a timestamp up to this one exceed the retention
    auditPc, auditReq,
    archivePc, batch, cutoff

auditVars == <<auditLog, live, archive, chainLock, clock, horizon, auditPc, auditReq,
               archivePc, batch, cutoff>>

AuditIds == 1 .. Len(auditLog)

\* prev is the id whose hash was stored in prev_hash, 0 for NULL.
AuditLogORM == [prev : Nat, stamp : Nat]

AuditTypeOK ==
    /\ \A i \in AuditIds : auditLog[i] \in AuditLogORM
    /\ live \subseteq AuditIds /\ archive \subseteq AuditIds
    /\ chainLock \in AuditWriters \cup {NoWriter}
    /\ clock \in Nat /\ horizon \in Nat
    /\ auditPc \in [AuditWriters -> {"idle", "lock", "tail", "insert"}]
    /\ auditReq \in [AuditWriters -> AuditLogORM]
    /\ archivePc \in [Archivers -> {"idle", "select", "write", "delete"}]
    /\ batch \in [Archivers -> SUBSET AuditIds]
    /\ cutoff \in [Archivers -> Nat]

-----------------------------------------------------------------------------
(* log_event *)

Greatest(S) == CHOOSE x \in S \cup {0} : \A y \in S : y <= x

\* created_at is taken before the lock is asked for.
LogStart(w) ==
    /\ auditPc[w] = "idle" /\ clock < MaxEntries
    /\ clock' = clock + 1
    /\ auditReq' = [auditReq EXCEPT ![w].stamp = clock + 1]
    /\ auditPc' = [auditPc EXCEPT ![w] = "lock"]
    /\ UNCHANGED <<auditLog, live, archive, chainLock, horizon, archivePc, batch, cutoff>>

\* Reads the tail without waiting for the lock.
UnlockedLock(w) ==
    /\ auditPc[w] = "lock"
    /\ auditPc' = [auditPc EXCEPT ![w] = "tail"]
    /\ UNCHANGED <<auditLog, live, archive, chainLock, clock, horizon, auditReq,
                   archivePc, batch, cutoff>>

BlockingAdvisoryLock(w) ==
    /\ auditPc[w] = "lock" /\ chainLock = NoWriter
    /\ chainLock' = w
    /\ auditPc' = [auditPc EXCEPT ![w] = "tail"]
    /\ UNCHANGED <<auditLog, live, archive, clock, horizon, auditReq, archivePc,
                   batch, cutoff>>

\* The last row by id, of those in the table.
ReadTail(w) ==
    /\ auditPc[w] = "tail"
    /\ auditReq' = [auditReq EXCEPT ![w].prev = Greatest(live)]
    /\ auditPc' = [auditPc EXCEPT ![w] = "insert"]
    /\ UNCHANGED <<auditLog, live, archive, chainLock, clock, horizon, archivePc,
                   batch, cutoff>>

\* The commit releases the transaction's lock.
Unlocked(w) == chainLock' = IF chainLock = w THEN NoWriter ELSE chainLock

InsertEntry(w) ==
    /\ auditPc[w] = "insert"
    /\ auditLog' = Append(auditLog, auditReq[w])
    /\ live' = live \cup {Len(auditLog) + 1}
    /\ Unlocked(w)
    /\ auditPc' = [auditPc EXCEPT ![w] = "idle"]
    /\ UNCHANGED <<archive, clock, horizon, auditReq, archivePc, batch, cutoff>>

\* The connection goes, and with it the transaction.
WriterCrash(w) ==
    /\ auditPc[w] # "idle"
    /\ Unlocked(w)
    /\ auditPc' = [auditPc EXCEPT ![w] = "idle"]
    /\ UNCHANGED <<auditLog, live, archive, clock, horizon, auditReq, archivePc,
                   batch, cutoff>>

-----------------------------------------------------------------------------
(* archive_old_audit_entries *)

TimePasses ==
    /\ horizon < clock
    /\ horizon' = horizon + 1
    /\ UNCHANGED <<auditLog, live, archive, chainLock, clock, auditPc, auditReq,
                   archivePc, batch, cutoff>>

ArchiveStart(a) ==
    /\ archivePc[a] = "idle"
    /\ cutoff' = [cutoff EXCEPT ![a] = horizon]
    /\ archivePc' = [archivePc EXCEPT ![a] = "select"]
    /\ UNCHANGED <<auditLog, live, archive, chainLock, clock, horizon, auditPc,
                   auditReq, batch>>

Overdue(a) == {i \in live : auditLog[i].stamp <= cutoff[a]}

\* The first of them by id, at most a batch.
FirstOf(S) == {i \in S : Cardinality({j \in S : j < i}) < AuditBatch}

SelectBatch(a) ==
    /\ archivePc[a] = "select"
    /\ batch' = [batch EXCEPT ![a] = FirstOf(Overdue(a))]
    /\ archivePc' = [archivePc EXCEPT ![a] = IF Overdue(a) = {} THEN "idle" ELSE "write"]
    /\ UNCHANGED <<auditLog, live, archive, chainLock, clock, horizon, auditPc,
                   auditReq, cutoff>>

\* The rows are appended to the file, which is closed before the deletion.
WriteBatch(a) ==
    /\ archivePc[a] = "write"
    /\ archive' = archive \cup batch[a]
    /\ archivePc' = [archivePc EXCEPT ![a] = "delete"]
    /\ UNCHANGED <<auditLog, live, chainLock, clock, horizon, auditPc, auditReq,
                   batch, cutoff>>

\* A table without the trigger lets every row go.
NoTrigger(rows) == FALSE

\* trg_audit_logs_append_only: raises for each row that a DELETE matches.
TriggerRefuses(rows) == rows # {}

\* A refused DELETE ends the task; the batch stays in the table and in the file.
DeleteBatch(a) ==
    /\ archivePc[a] = "delete"
    /\ IF TriggerRefuses(batch[a] \cap live)
       THEN archivePc' = [archivePc EXCEPT ![a] = "idle"] /\ UNCHANGED live
       ELSE archivePc' = [archivePc EXCEPT ![a] = "select"] /\ live' = live \ batch[a]
    /\ batch' = [batch EXCEPT ![a] = {}]
    /\ UNCHANGED <<auditLog, archive, chainLock, clock, horizon, auditPc, auditReq, cutoff>>

\* A crash while writing leaves a part of the batch in the file.
ArchiverCrash(a) ==
    /\ archivePc[a] # "idle"
    /\ \E S \in SUBSET batch[a] :
          /\ archivePc[a] # "write" => S = {}
          /\ archive' = archive \cup S
    /\ archivePc' = [archivePc EXCEPT ![a] = "idle"]
    /\ batch' = [batch EXCEPT ![a] = {}]
    /\ UNCHANGED <<auditLog, live, chainLock, clock, horizon, auditPc, auditReq,
                   cutoff>>

-----------------------------------------------------------------------------
(* verify_chain *)

\* The row expected before i is the last one before it in the table; the first
\* row is expected to have none.
VerifyChain == \A i \in live : auditLog[i].prev = Greatest({j \in live : j < i})

-----------------------------------------------------------------------------

AuditInit ==
    /\ auditLog = <<>> /\ live = {} /\ archive = {}
    /\ chainLock = NoWriter
    /\ clock = 0 /\ horizon = 0
    /\ auditPc = [w \in AuditWriters |-> "idle"]
    /\ auditReq = [w \in AuditWriters |-> [prev |-> 0, stamp |-> 0]]
    /\ archivePc = [a \in Archivers |-> "idle"]
    /\ batch = [a \in Archivers |-> {}]
    /\ cutoff = [a \in Archivers |-> 0]

LogEvent(w) ==
    \/ LogStart(w) \/ BlockingAdvisoryLock(w) \/ ReadTail(w) \/ InsertEntry(w)
    \/ WriterCrash(w)

ArchiveOldAuditEntries(a) ==
    \/ ArchiveStart(a) \/ SelectBatch(a) \/ WriteBatch(a) \/ DeleteBatch(a)
    \/ ArchiverCrash(a)

AuditNext ==
    \/ \E w \in AuditWriters : LogEvent(w)
    \/ \E a \in Archivers : ArchiveOldAuditEntries(a)
    \/ TimePasses

AuditSpec == AuditInit /\ [][AuditNext]_auditVars

\* The beat schedule starts the task again and again, and the worker that runs
\* it is not killed before the same step every time.
AuditFairSpec ==
    /\ AuditSpec
    /\ \A a \in Archivers :
          WF_auditVars(ArchiveStart(a)) /\ SF_auditVars(SelectBatch(a))
          /\ SF_auditVars(WriteBatch(a)) /\ SF_auditVars(DeleteBatch(a))

-----------------------------------------------------------------------------
(* Properties *)

\* log_event: every row follows the row committed before it, so concurrent
\* writers never fork the chain.
AppendsFollowTail == \A i \in AuditIds : auditLog[i].prev = i - 1

\* verify_chain answers "verified" in every state, whatever runs of the
\* retention task overlap, die or are refused: the rows of the table are one
\* chain from its first entry.  The task would break it at its first batch;
\* only the append-only trigger stands in the way.
ChainVerifies == VerifyChain

\* archive_old_audit_entries, "Archive audit entries older than
\* AUDIT_RETENTION_DAYS to JSONL, then delete them": an entry the file has is
\* at some time gone from the table.
ArchivedIsDeleted == \A i \in 1 .. MaxEntries : i \in archive ~> i \notin live

=============================================================================
