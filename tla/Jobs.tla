-------------------------------- MODULE Jobs --------------------------------
(***************************************************************************)
(* Background SLA computations of one device and period: the jobs table,   *)
(* the Celery tasks behind it, their states in the result backend, and the *)
(* requests that submit, poll, cancel, retry and clean up.  A job and a    *)
(* task are named by the request that made them.  Celery (acks late, one   *)
(* message at a time, results kept a day) is modelled from its use here.   *)
(***************************************************************************)
EXTENDS Naturals, FiniteSets

CONSTANTS
    JobRequests,    \* API requests, each performing one operation
    NoJob,
    MaxJobRetries,  \* Job.max_retries
    MaxTaskRetries, \* max_retries of the Celery task
    InflightLimit,  \* limit of the query for open jobs (50)
    MaxStored,      \* bound on the jobs before one of another device
    MaxCrashes      \* bound on the workers that die

ASSUME JobsAssumption ==
    /\ NoJob \notin JobRequests
    /\ MaxJobRetries \in Nat /\ MaxTaskRetries \in Nat /\ MaxCrashes \in Nat
    /\ InflightLimit \in Nat /\ MaxStored \in Nat

VARIABLES
    job,        \* the jobs table, a function from ids to rows
    task,       \* Celery tasks
    crashes,    \* workers that died so far
    cancelled,  \* tasks the workers were told to discard
    statusCache,\* _job_status_cache
    enqueuer,   \* holder of the advisory lock "sla-enqueue:..."
    stored,     \* jobs stored so far, of every device
    created,    \* created_at of a job: the jobs stored before it
    jobPc, jobReq

jobVars == <<job, task, crashes, cancelled, statusCache, enqueuer, stored, created,
    jobPc, jobReq>>

JobStatus == {"pending", "started", "success", "failure", "revoked"}
CeleryStates == {"PENDING", "STARTED", "RETRY", "SUCCESS", "FAILURE", "REVOKED"}
Terminal == {"success", "failure", "revoked"}

\* finished: finished_at is set.  closed: the status has been terminal.
Job == [status : JobStatus, task : JobRequests, retries : Nat, finished : BOOLEAN,
        closed : BOOLEAN]

\* of: the job it was dispatched for.  computed: its computation succeeded.
Task == [state : CeleryStates, of : JobRequests, tries : Nat, computed : BOOLEAN,
         found : JobRequests \cup {NoJob},
         at : {"queued", "find", "begin", "compute", "succeed", "fail",
               "succeeded", "failed", "done"}]

JobSteps == {"idle", "enqueue", "dispatch", "insert", "revoke", "cancel", "redo",
    "recommit", "sync", "select", "delete", "done"}

JobLocals == [job : JobRequests \cup {NoJob}, status : JobStatus, seen : JobStatus,
    retries : Nat, batch : SUBSET JobRequests, stage : 0 .. 3]

NoRequest == [job |-> NoJob, status |-> "pending", seen |-> "pending", retries |-> 0,
    batch |-> {}, stage |-> 0]

JobsTypeOK ==
    /\ DOMAIN job \subseteq JobRequests
    /\ \A j \in DOMAIN job : job[j] \in Job /\ job[j].task \in DOMAIN task
    /\ DOMAIN task \subseteq JobRequests
    /\ \A t \in DOMAIN task : task[t] \in Task
    /\ cancelled \subseteq DOMAIN task /\ crashes \in Nat
    /\ DOMAIN statusCache \subseteq JobRequests
    /\ \A j \in DOMAIN statusCache : statusCache[j] \in JobStatus
    /\ enqueuer \in JobRequests \cup {NoJob}
    /\ stored \in Nat /\ created \in [JobRequests -> Nat]
    /\ jobPc \in [JobRequests -> JobSteps]
    /\ jobReq \in [JobRequests -> JobLocals]

-----------------------------------------------------------------------------

Put(f, k, v) == [x \in DOMAIN f \cup {k} |-> IF x = k THEN v ELSE f[x]]
Drop(f, K) == [x \in DOMAIN f \ K |-> f[x]]

JobGoto(r, step) == jobPc' = [jobPc EXCEPT ![r] = step]
JobEnd(r) == JobGoto(r, "done") /\ jobReq' = [jobReq EXCEPT ![r] = NoRequest]
JobIdle(r) == jobPc[r] = "idle"

WithStatus(row, s) == [row EXCEPT !.status = s, !.closed = @ \/ s \in Terminal]

NewJob(t) == [status |-> "pending", task |-> t, retries |-> 0, finished |-> FALSE,
              closed |-> FALSE]
NewTask(j) == [state |-> "PENDING", of |-> j, tries |-> 0, computed |-> FALSE,
               found |-> NoJob, at |-> "queued"]

\* Takes every task that has ended for a success.
ReadyIsSuccess(state) ==
    IF state = "PENDING" THEN "pending" ELSE IF state \in {"STARTED", "RETRY"} THEN "started" ELSE "success"

\* celery_state_to_job_status
JobStatusOf(state) ==
    CASE state = "PENDING" -> "pending"
      [] state \in {"STARTED", "RETRY"} -> "started"
      [] state = "SUCCESS" -> "success"
      [] state = "FAILURE" -> "failure"
      [] state = "REVOKED" -> "revoked"

-----------------------------------------------------------------------------
(* Submission: enqueue_sla_computation *)

\* Enters whether or not another request is inside.
EnterUnlocked(r) ==
    /\ JobIdle(r)
    /\ enqueuer' = r
    /\ JobGoto(r, "enqueue")
    /\ UNCHANGED <<job, task, crashes, cancelled, statusCache, jobReq, stored, created>>

AdvisoryLock(r) ==
    /\ JobIdle(r) /\ enqueuer = NoJob
    /\ enqueuer' = r
    /\ JobGoto(r, "enqueue")
    /\ UNCHANGED <<job, task, crashes, cancelled, statusCache, jobReq, stored, created>>

\* The lock is not had within its five seconds: 409.
LockTimeout(r) ==
    /\ JobIdle(r) /\ enqueuer # NoJob
    /\ JobEnd(r)
    /\ UNCHANGED <<job, task, crashes, cancelled, statusCache, enqueuer, stored, created>>

\* A backend that has forgotten the task answers PENDING.
InFlight(j) ==
    /\ job[j].status \in {"pending", "started"}
    /\ task[job[j].task].state \in {"PENDING", "STARTED", "RETRY"}

\* The query sorts the open jobs of all devices by created_at and takes the
\* newest; a job that enough jobs were stored after, if they are still open,
\* is not among them.
Crowded(j) == stored > created[j] + InflightLimit

\* An in-flight job of the device and period is returned instead, if the
\* query gives it.
FindInflight(r) ==
    /\ jobPc[r] = "enqueue"
    /\ \/ /\ \E j \in DOMAIN job : InFlight(j)
          /\ JobEnd(r) /\ enqueuer' = NoJob
       \/ /\ \A j \in DOMAIN job : InFlight(j) => Crowded(j)
          /\ JobGoto(r, "dispatch") /\ UNCHANGED <<enqueuer, jobReq>>
    /\ UNCHANGED <<job, task, crashes, cancelled, statusCache, stored, created>>

\* The task is sent before its job is stored.
ApplyAsync(r) ==
    /\ jobPc[r] = "dispatch"
    /\ task' = Put(task, r, NewTask(r))
    /\ JobGoto(r, "insert")
    /\ UNCHANGED <<job, crashes, cancelled, statusCache, enqueuer, jobReq, stored, created>>

InsertJob(r) ==
    /\ jobPc[r] = "insert"
    /\ job' = Put(job, r, NewJob(r))
    /\ created' = [created EXCEPT ![r] = stored] /\ stored' = stored + 1
    /\ enqueuer' = IF enqueuer = r THEN NoJob ELSE enqueuer
    /\ JobEnd(r)
    /\ UNCHANGED <<task, crashes, cancelled, statusCache>>

\* The same for another device or period, under a lock of its own.  One that
\* is stored before every job of this device crowds out none of them.
OtherDeviceJob ==
    /\ stored < MaxStored /\ DOMAIN job # {}
    /\ stored' = stored + 1
    /\ UNCHANGED <<job, task, crashes, cancelled, statusCache, enqueuer, created, jobPc, jobReq>>

\* enqueue_bulk_sla_computation: the bulk task does not take the correlation id
\* that every request has, so apply_async refuses the arguments and nothing is
\* sent or stored, neither on submission nor on a retry.
EnqueueBulk(r) ==
    /\ JobEnd(r)
    /\ UNCHANGED <<job, task, crashes, cancelled, statusCache, enqueuer, stored, created>>

SubmitBulk(r) == JobIdle(r) /\ EnqueueBulk(r)

-----------------------------------------------------------------------------
(* The Celery task: compute_sla_for_device *)

\* A worker takes the message; a discarded task is not run.
TaskReceived(t) ==
    /\ task[t].at = "queued"
    /\ task' = [task EXCEPT ![t].state = IF t \in cancelled THEN "REVOKED" ELSE "STARTED",
                            ![t].at = IF t \in cancelled THEN "done" ELSE "find"]
    /\ UNCHANGED <<job, crashes, cancelled, statusCache, enqueuer, stored, created, jobPc, jobReq>>

\* _get_job, before a status is stored: the job that has this task now, if any.
JobOf(t) == CHOOSE j \in DOMAIN job \cup {NoJob} :
    IF \E i \in DOMAIN job : job[i].task = t THEN j \in DOMAIN job /\ job[j].task = t ELSE j = NoJob

GetJob(t) ==
    /\ task[t].at \in {"find", "compute"}
    /\ \E outcome \in (IF task[t].at = "find" THEN {"begin"} ELSE {"succeed", "fail"}) :
          task' = [task EXCEPT ![t].found = JobOf(t), ![t].at = outcome,
                               ![t].computed = @ \/ outcome = "succeed"]
    /\ UNCHANGED <<job, crashes, cancelled, statusCache, enqueuer, stored, created, jobPc, jobReq>>

\* The row may have been deleted, or given another task, since it was found.
Marked(t, row) == IF task[t].found \in DOMAIN job THEN Put(job, task[t].found, row) ELSE job
Found(t) == job[task[t].found]

MarkStarted(t) ==
    /\ task[t].at = "begin"
    /\ job' = Marked(t, WithStatus(Found(t), "started"))
    /\ task' = [task EXCEPT ![t].at = "compute", ![t].found = NoJob]
    /\ UNCHANGED <<crashes, cancelled, statusCache, enqueuer, stored, created, jobPc, jobReq>>

MarkSuccess(t) ==
    /\ task[t].at = "succeed"
    /\ job' = Marked(t, [WithStatus(Found(t), "success") EXCEPT !.finished = TRUE])
    /\ task' = [task EXCEPT ![t].at = "succeeded", ![t].found = NoJob]
    /\ UNCHANGED <<crashes, cancelled, statusCache, enqueuer, stored, created, jobPc, jobReq>>

\* The failure is stored also when Celery is about to run the task again.
MarkFailure(t) ==
    /\ task[t].at = "fail"
    /\ job' = Marked(t, [WithStatus(Found(t), "failure") EXCEPT !.finished = TRUE])
    /\ task' = [task EXCEPT ![t].at = "failed", ![t].found = NoJob]
    /\ UNCHANGED <<crashes, cancelled, statusCache, enqueuer, stored, created, jobPc, jobReq>>

\* An ApexTransientError is raised again: the job is not marked, and the task,
\* which names no errors to retry on, fails for good.
TransientFailure(t) ==
    /\ task[t].at = "compute"
    /\ task' = [task EXCEPT ![t].state = "FAILURE", ![t].at = "done"]
    /\ UNCHANGED <<job, crashes, cancelled, statusCache, enqueuer, stored, created, jobPc, jobReq>>

\* The result is stored and the message acknowledged, or sent again.
TaskEnds(t) ==
    LET again == task[t].at = "failed" /\ task[t].tries < MaxTaskRetries IN
    /\ task[t].at \in {"succeeded", "failed"}
    /\ IF again
       THEN task' = [task EXCEPT ![t].state = "RETRY", ![t].at = "queued", ![t].tries = @ + 1]
       ELSE task' = [task EXCEPT ![t].state = IF task[t].at = "failed" THEN "FAILURE" ELSE "SUCCESS",
                                 ![t].at = "done"]
    /\ UNCHANGED <<job, crashes, cancelled, statusCache, enqueuer, stored, created, jobPc, jobReq>>

\* The message was not acknowledged: another worker gets it.
WorkerCrash(t) ==
    /\ task[t].at \notin {"queued", "done"} /\ crashes < MaxCrashes
    /\ crashes' = crashes + 1
    /\ task' = [task EXCEPT ![t].at = "queued", ![t].found = NoJob]
    /\ UNCHANGED <<job, cancelled, statusCache, enqueuer, stored, created, jobPc, jobReq>>

ResultExpires(t) ==
    /\ task[t].at = "done" /\ task[t].state # "PENDING"
    /\ task' = [task EXCEPT ![t].state = "PENDING"]
    /\ UNCHANGED <<job, crashes, cancelled, statusCache, enqueuer, stored, created, jobPc, jobReq>>

-----------------------------------------------------------------------------
(* Polling: _sync_job_status_from_celery *)

Cached(j) == {statusCache[i] : i \in DOMAIN statusCache \cap {j}}

SyncRead(r, j) ==
    LET state == JobStatusOf(task[job[j].task].state) IN
    /\ JobIdle(r) /\ job[j].status \notin Terminal
    /\ \E s \in (IF Cached(j) = {} THEN {state} ELSE Cached(j)) :
          /\ statusCache' = Put(statusCache, j, s)
          /\ jobReq' = [jobReq EXCEPT ![r].job = j, ![r].seen = job[j].status, ![r].status = s]
    /\ JobGoto(r, "sync")
    /\ UNCHANGED <<job, task, crashes, cancelled, enqueuer, stored, created>>

\* Only a status that differs from the one read is written.
SyncWrite(r) ==
    LET l == jobReq[r] IN
    /\ jobPc[r] = "sync"
    /\ job' = IF l.seen # l.status /\ l.job \in DOMAIN job
              THEN Put(job, l.job, WithStatus(job[l.job], l.status))
              ELSE job
    /\ JobEnd(r)
    /\ UNCHANGED <<task, crashes, cancelled, statusCache, enqueuer, stored, created>>

CacheExpires(j) ==
    /\ j \in DOMAIN statusCache
    /\ statusCache' = Drop(statusCache, {j})
    /\ UNCHANGED <<job, task, crashes, cancelled, enqueuer, stored, created, jobPc, jobReq>>

-----------------------------------------------------------------------------
(* Cancellation and retry *)

CancelRead(r, j) ==
    /\ JobIdle(r) /\ job[j].status \notin Terminal
    /\ JobGoto(r, "revoke")
    /\ jobReq' = [jobReq EXCEPT ![r].job = j]
    /\ UNCHANGED <<job, task, crashes, cancelled, statusCache, enqueuer, stored, created>>

\* The audit entry has committed: the row is loaded again.  A task that runs
\* already is not interrupted.
CancelRevoke(r) ==
    LET j == jobReq[r].job IN
    /\ jobPc[r] = "revoke"
    /\ IF j \in DOMAIN job
       THEN /\ cancelled' = cancelled \cup {job[j].task}
            /\ JobGoto(r, "cancel")
            /\ jobReq' = [jobReq EXCEPT ![r].seen = job[j].status]
       ELSE UNCHANGED cancelled /\ JobEnd(r)
    /\ UNCHANGED <<job, task, crashes, statusCache, enqueuer, stored, created>>

CancelCommit(r) ==
    LET j == jobReq[r].job IN
    /\ jobPc[r] = "cancel"
    /\ job' = IF j \in DOMAIN job /\ jobReq[r].seen # "revoked"
              THEN Put(job, j, WithStatus(job[j], "revoked")) ELSE job
    /\ JobEnd(r)
    /\ UNCHANGED <<task, crashes, cancelled, statusCache, enqueuer, stored, created>>

RetryRead(r, j) ==
    /\ JobIdle(r) /\ job[j].status \in {"failure", "revoked"}
    /\ job[j].retries < MaxJobRetries
    /\ JobGoto(r, "redo")
    /\ jobReq' = [jobReq EXCEPT ![r].job = j]
    /\ UNCHANGED <<job, task, crashes, cancelled, statusCache, enqueuer, stored, created>>

\* The row is loaded again after the audit entry, its status not checked
\* again; the new task is sent before the row is stored.
RetryDispatch(r) ==
    LET j == jobReq[r].job IN
    /\ jobPc[r] = "redo"
    /\ IF j \in DOMAIN job
       THEN /\ task' = Put(task, r, NewTask(j))
            /\ jobReq' = [jobReq EXCEPT ![r].retries = job[j].retries + 1,
                                        ![r].seen = job[j].status]
            /\ JobGoto(r, "recommit")
       ELSE UNCHANGED task /\ JobEnd(r)
    /\ UNCHANGED <<job, crashes, cancelled, statusCache, enqueuer, stored, created>>

RetryCommit(r) ==
    LET l == jobReq[r] IN
    /\ jobPc[r] = "recommit"
    /\ job' = IF l.job \in DOMAIN job
              THEN Put(job, l.job, [job[l.job] EXCEPT
                        !.status = IF l.seen = "pending" THEN @ ELSE "pending",
                        !.task = r, !.retries = l.retries, !.finished = FALSE])
              ELSE job
    /\ JobEnd(r)
    /\ UNCHANGED <<task, crashes, cancelled, statusCache, enqueuer, stored, created>>

-----------------------------------------------------------------------------
(* Clean-up *)

\* The passes of cleanup_old_jobs, in their order.
PassStatus(n) == IF n = 1 THEN "success" ELSE IF n = 2 THEN "failure" ELSE "revoked"

CleanupStart(r) ==
    /\ JobIdle(r)
    /\ JobGoto(r, "select")
    /\ jobReq' = [jobReq EXCEPT ![r].stage = 1]
    /\ UNCHANGED <<job, task, crashes, cancelled, statusCache, enqueuer, stored, created>>

\* Finished jobs of the pass's status that are past their retention.
SelectJobs(r) ==
    /\ jobPc[r] = "select"
    /\ \E S \in SUBSET {j \in DOMAIN job : job[j].status = PassStatus(jobReq[r].stage) /\ job[j].finished} :
          jobReq' = [jobReq EXCEPT ![r].batch = S]
    /\ JobGoto(r, "delete")
    /\ UNCHANGED <<job, task, crashes, cancelled, statusCache, enqueuer, stored, created>>

\* By id: the status is not looked at again.
DeleteJobBatch(r) ==
    /\ jobPc[r] = "delete"
    /\ job' = Drop(job, jobReq[r].batch)
    /\ IF jobReq[r].stage = 3
       THEN JobEnd(r)
       ELSE /\ JobGoto(r, "select")
            /\ jobReq' = [jobReq EXCEPT ![r].stage = @ + 1, ![r].batch = {}]
    /\ UNCHANGED <<task, crashes, cancelled, statusCache, enqueuer, stored, created>>

\* A request's process dies: its transaction and its lock go with it.
JobCrash(r) ==
    /\ jobPc[r] \notin {"idle", "done"}
    /\ enqueuer' = IF enqueuer = r THEN NoJob ELSE enqueuer
    /\ JobEnd(r)
    /\ UNCHANGED <<job, task, crashes, cancelled, statusCache, stored, created>>

-----------------------------------------------------------------------------

JobsInit ==
    /\ job = <<>> /\ task = <<>> /\ statusCache = <<>>
    /\ cancelled = {} /\ crashes = 0
    /\ enqueuer = NoJob
    /\ stored = 0 /\ created = [r \in JobRequests |-> 0]
    /\ jobPc = [r \in JobRequests |-> "idle"]
    /\ jobReq = [r \in JobRequests |-> NoRequest]

Submit(r) ==
    \/ AdvisoryLock(r) \/ LockTimeout(r) \/ FindInflight(r) \/ ApplyAsync(r)
    \/ InsertJob(r) \/ SubmitBulk(r)

Poll(r) == (\E j \in DOMAIN job : SyncRead(r, j)) \/ SyncWrite(r)

CancelJob(r) == (\E j \in DOMAIN job : CancelRead(r, j)) \/ CancelRevoke(r) \/ CancelCommit(r)

RetryJob(r) == (\E j \in DOMAIN job : RetryRead(r, j)) \/ RetryDispatch(r) \/ RetryCommit(r)

CleanupOldJobs(r) == CleanupStart(r) \/ SelectJobs(r) \/ DeleteJobBatch(r)

RunTask(t) ==
    \/ TaskReceived(t) \/ GetJob(t) \/ MarkStarted(t) \/ MarkSuccess(t)
    \/ MarkFailure(t) \/ TransientFailure(t) \/ TaskEnds(t)
    \/ WorkerCrash(t) \/ ResultExpires(t)

JobsNext ==
    \/ \E r \in JobRequests :
          \/ Submit(r) \/ Poll(r) \/ CancelJob(r) \/ RetryJob(r) \/ CleanupOldJobs(r)
          \/ JobCrash(r)
    \/ \E t \in DOMAIN task : RunTask(t)
    \/ \E j \in DOMAIN statusCache : CacheExpires(j)
    \/ OtherDeviceJob

JobsSpec == JobsInit /\ [][JobsNext]_jobVars

-----------------------------------------------------------------------------
(* Properties *)

\* A job that has never been terminal, its first task not finished.
Unfinished(j) == ~ job[j].closed /\ task[j].at # "done"

\* enqueue_sla_computation (#575): two unfinished jobs of one device and
\* period were stored more than the query's limit apart, whatever requests
\* submit, poll, cancel, retry or crash at the same time: while fewer jobs
\* are submitted, a second submission never sends a second task.
SubmissionsDeduplicated ==
    \A i, j \in DOMAIN job : Unfinished(i) /\ Unfinished(j) /\ i # j =>
        created[i] > created[j] + InflightLimit \/ created[j] > created[i] + InflightLimit

\* _find_inflight_sla_job: two recomputations of the same SLA "must not
\* enqueue two Celery tasks for it" (#575), whatever the other devices do.
OneUnfinished == Cardinality({j \in DOMAIN job : Unfinished(j)}) <= 1

\* A job shows success only if a task that was dispatched for it has computed
\* a result, also when polls, cached states, superseded tasks and retries of
\* several jobs overlap.
SuccessIsReal ==
    \A j \in DOMAIN job : job[j].status = "success" =>
        \E t \in DOMAIN task : task[t].of = j /\ task[t].computed

=============================================================================
