---------------------------- MODULE ScheduleJobs ----------------------------
(***************************************************************************)
(* The life of a schedule job: an API replica computes a preview of a      *)
(* production line, stores a job for it in PostgreSQL and publishes it to  *)
(* Kafka; scheduler-worker threads (Kafka message loops and database       *)
(* backfill loops) take the line's Redis lock and apply the preview to the *)
(* database in one transaction.                                            *)
(*                                                                         *)
(* WHO moves:  API handlers (any number at once), worker threads, and the  *)
(* environment: Redis expiry, preview expiry, Kafka, crashes, failed SQL.  *)
(*                                                                         *)
(* One step of a transaction is one SQL statement that another transaction *)
(* can interleave with (READ COMMITTED); writes become visible at commit,  *)
(* so the statements after the last lock is taken are one step.  Jobs with *)
(* no preview (the HPA peak demo) have no creating endpoint and are left   *)
(* out, as is the status 'cancelled', which only that demo sets.           *)
(***************************************************************************)
EXTENDS Integers, FiniteSets

CONSTANTS
    Lines,          \* production lines
    Previews,       \* preview ids
    Jobs,           \* job ids
    Apis,           \* API replicas, each with its own in-memory cache
    MessageLoops,   \* worker threads running runMessageLoop
    BackfillLoops,  \* worker threads running startBackfillLoop
    MaxRetries,     \* WORKER_MAX_RETRIES
    MaxRevision,    \* bound: order changes stop at this line revision
    MaxCrashes      \* bound: crashes of API replicas and worker threads

Threads == MessageLoops \cup BackfillLoops

ASSUME NamesAssumption ==
    /\ MessageLoops \cap BackfillLoops = {}
    /\ \A x \in Threads \cup Lines \cup Previews \cup Jobs \cup Apis :
          x \notin {"none", "free", "orphan"}

ASSUME BoundsAssumption ==
    /\ MaxRetries \in Nat
    /\ MaxRevision \in Nat
    /\ MaxCrashes \in Nat

VARIABLES
    \* PostgreSQL, committed
    revision,       \* production_lines.schedule_revision
    previews,       \* schedule_previews, and previews still being computed
    status,         \* schedule_jobs.status
    attempts,       \* schedule_jobs.attempt_count
    request,        \* the job's other columns, also the Kafka payload
    audit,          \* audit_logs rows about jobs
    \* PostgreSQL, row locks of running transactions
    jobRow,
    lineRow,
    \* API replicas
    handler,        \* the handler that created the job, while it is at work
    cachedPreviews, \* MemoryStore.previews of each replica
    cachedRevision, \* MemoryStore.lines[..].ScheduleRevision
    \* Kafka and Redis
    kafka,          \* jobs with a message the consumer group may still fetch
    lock,           \* owner of the Redis key of each line
    \* worker threads
    thread,         \* control state, current job and outcome
    batch,          \* rows of the backfill query not processed yet
    \* model only
    crashes,        \* crashes so far
    applied         \* history: the previews written to the schedule

dbVars     == <<revision, previews, status, attempts, request, audit>>
rowVars    == <<jobRow, lineRow>>
apiVars    == <<handler, cachedPreviews, cachedRevision>>
workerVars == <<thread, batch>>
vars == <<dbVars, rowVars, apiVars, kafka, lock, workerVars, crashes, applied>>

(***************************************************************************)
(* Types                                                                   *)
(***************************************************************************)
\* A preview's line revision is read first, then the orders, then the
\* allocations; ordersAt and allocsAt are the revisions those two reads saw.
PreviewRow ==
    [stage : {"none", "line", "orders", "open", "gone"},
     api : Apis \cup {"none"}, line : Lines \cup {"none"},
     revision : Nat, ordersAt : Nat, allocsAt : Nat, empty : BOOLEAN]

NoPreview ==
    [stage |-> "none", api |-> "none", line |-> "none",
     revision |-> 0, ordersAt |-> 0, allocsAt |-> 0, empty |-> TRUE]

Request ==
    [api : Apis \cup {"none"}, preview : Previews \cup {"none"},
     line : Lines \cup {"none"}, revision : Nat]

NoRequest ==
    [api |-> "none", preview |-> "none", line |-> "none", revision |-> 0]

\* 'running' is only ever written inside a transaction that then replaces it.
JobStatus == {"none", "queued", "completed", "failed", "deleted"}

HandlerStage == {"none", "created", "publishFailed", "auditDeleted", "refused"}

ThreadState ==
    [pc : {"idle", "locking", "begin", "running", "loaded", "validated", "release"},
     job : Jobs \cup {"none"}, ok : BOOLEAN]

Idle == [pc |-> "idle", job |-> "none", ok |-> TRUE]

AuditRow == Jobs \X {"create", "complete", "fail"}

Application == [job : Jobs, preview : Previews, line : Lines, revision : Nat]

TypeOK ==
    /\ revision \in [Lines -> Nat]
    /\ previews \in [Previews -> PreviewRow]
    /\ status \in [Jobs -> JobStatus]
    /\ attempts \in [Jobs -> Nat]
    /\ request \in [Jobs -> Request]
    /\ audit \subseteq AuditRow
    /\ jobRow \in [Jobs -> Threads \cup {"free"}]
    /\ lineRow \in [Lines -> Threads \cup {"free"}]
    /\ handler \in [Jobs -> HandlerStage]
    /\ cachedPreviews \in [Apis -> SUBSET Previews]
    /\ cachedRevision \in [Apis -> [Lines -> Nat]]
    /\ kafka \subseteq Jobs
    /\ lock \in [Lines -> Threads \cup {"free", "orphan"}]
    /\ thread \in [Threads -> ThreadState]
    /\ batch \in [BackfillLoops -> SUBSET Jobs]
    /\ crashes \in 0..MaxCrashes
    /\ applied \subseteq Application

Init ==
    /\ revision = [l \in Lines |-> 0]
    /\ previews = [p \in Previews |-> NoPreview]
    /\ status = [j \in Jobs |-> "none"]
    /\ attempts = [j \in Jobs |-> 0]
    /\ request = [j \in Jobs |-> NoRequest]
    /\ audit = {}
    /\ jobRow = [j \in Jobs |-> "free"]
    /\ lineRow = [l \in Lines |-> "free"]
    /\ handler = [j \in Jobs |-> "none"]
    /\ cachedPreviews = [a \in Apis |-> {}]
    /\ cachedRevision = [a \in Apis |-> [l \in Lines |-> 0]]
    /\ kafka = {}
    /\ lock = [l \in Lines |-> "free"]
    /\ thread = [w \in Threads |-> Idle]
    /\ batch = [w \in BackfillLoops |-> {}]
    /\ crashes = 0
    /\ applied = {}

(***************************************************************************)
(* API: previews                                                           *)
(***************************************************************************)
\* productionLine, called by the preview, calendar, draft and order handlers:
\* the line row is read and stored in the replica's line cache.
ProductionLine(a, l) ==
    /\ cachedRevision' = [cachedRevision EXCEPT ![a][l] = revision[l]]
    /\ UNCHANGED <<dbVars, rowVars, handler, cachedPreviews, kafka, lock,
                   workerVars, crashes, applied>>

\* PreviewSchedule, first read: the line row, by way of productionLine.
PreviewReadLine(a, p, l) ==
    /\ previews[p].stage = "none"
    /\ previews' = [previews EXCEPT ![p] =
                       [NoPreview EXCEPT !.stage = "line", !.api = a,
                                         !.line = l, !.revision = revision[l]]]
    /\ cachedRevision' = [cachedRevision EXCEPT ![a][l] = revision[l]]
    /\ UNCHANGED <<revision, status, attempts, request, audit, rowVars, handler,
                   cachedPreviews, kafka, lock, workerVars, crashes, applied>>

\* PreviewSchedule, second read: the pending orders.
PreviewReadOrders(p) ==
    /\ previews[p].stage = "line"
    /\ previews' = [previews EXCEPT ![p].stage = "orders",
                                    ![p].ordersAt = revision[previews[p].line]]
    /\ UNCHANGED <<revision, status, attempts, request, audit, rowVars, apiVars,
                   kafka, lock, workerVars, crashes, applied>>

\* Mutant: the line row is read after the orders instead of before them.
PreviewSave_RevisionLast(p, empty) ==
    /\ previews[p].stage = "orders"
    /\ previews' = [previews EXCEPT ![p].stage = "open", ![p].empty = empty,
                       ![p].revision = revision[previews[p].line],
                       ![p].allocsAt = revision[previews[p].line]]
    /\ cachedPreviews' = [cachedPreviews EXCEPT ![previews[p].api] = @ \cup {p}]
    /\ cachedRevision' = [cachedRevision EXCEPT
                       ![previews[p].api][previews[p].line] = revision[previews[p].line]]
    /\ UNCHANGED <<revision, status, attempts, request, audit, rowVars, handler,
                   kafka, lock, workerVars, crashes, applied>>

\* PreviewSchedule, third read (the existing allocations), planning, and the
\* INSERT.  Nobody can refer to the preview before the INSERT.
PreviewSave(p, empty) ==
    /\ previews[p].stage = "orders"
    /\ previews' = [previews EXCEPT ![p].stage = "open", ![p].empty = empty,
                                    ![p].allocsAt = revision[previews[p].line]]
    /\ cachedPreviews' = [cachedPreviews EXCEPT ![previews[p].api] = @ \cup {p}]
    /\ UNCHANGED <<revision, status, attempts, request, audit, rowVars, handler,
                   cachedRevision, kafka, lock, workerVars, crashes, applied>>

\* expires_at passes: every query on the preview says expires_at > NOW().
PreviewExpires(p) ==
    /\ previews[p].stage = "open"
    /\ previews' = [previews EXCEPT ![p].stage = "gone"]
    /\ UNCHANGED <<revision, status, attempts, request, audit, rowVars, apiVars,
                   kafka, lock, workerVars, crashes, applied>>

\* Any committed change of the line's orders or allocations made by the API
\* bumps the revision in the same transaction; the UPDATE waits for the row.
BumpRevision(l) ==
    /\ lineRow[l] = "free"
    /\ revision[l] < MaxRevision
    /\ revision' = [revision EXCEPT ![l] = @ + 1]
    /\ UNCHANGED <<previews, status, attempts, request, audit, rowVars, apiVars,
                   kafka, lock, workerVars, crashes, applied>>

(***************************************************************************)
(* API: jobs                                                               *)
(***************************************************************************)
\* A replica that did not compute the preview loads it from the database and
\* overwrites its cached line revision with the preview's.
EnsurePreviewLoaded(a, p) ==
    /\ p \notin cachedPreviews[a]
    /\ previews[p].stage = "open"
    /\ cachedPreviews' = [cachedPreviews EXCEPT ![a] = @ \cup {p}]
    /\ cachedRevision' =
          [cachedRevision EXCEPT ![a][previews[p].line] = previews[p].revision]
    /\ UNCHANGED <<dbVars, rowVars, handler, kafka, lock, workerVars, crashes,
                   applied>>

\* The preview is validated against the replica's cache only, which does not
\* forget expired or applied previews; the job row and its audit row are
\* inserted in one transaction.
CreateScheduleJob(a, p, j) ==
    /\ status[j] = "none"
    /\ p \in cachedPreviews[a]
    /\ cachedRevision[a][previews[p].line] = previews[p].revision
    /\ status' = [status EXCEPT ![j] = "queued"]
    /\ request' = [request EXCEPT ![j] =
                      [api |-> a, preview |-> p, line |-> previews[p].line,
                       revision |-> previews[p].revision]]
    /\ audit' = audit \cup {<<j, "create">>}
    /\ handler' = [handler EXCEPT ![j] = "created"]
    /\ UNCHANGED <<revision, previews, attempts, rowVars, cachedPreviews,
                   cachedRevision, kafka, lock, workerVars, crashes, applied>>

PublishScheduleJob(j) ==
    /\ handler[j] = "created"
    /\ handler' = [handler EXCEPT ![j] = "none"]
    /\ kafka' = kafka \cup {j}
    /\ UNCHANGED <<dbVars, rowVars, cachedPreviews, cachedRevision, lock,
                   workerVars, crashes, applied>>

\* The write is reported failed; the broker may have stored the message.
PublishFails(j) ==
    /\ handler[j] = "created"
    /\ handler' = [handler EXCEPT ![j] = "publishFailed"]
    /\ kafka' \in {kafka, kafka \cup {j}}
    /\ UNCHANGED <<dbVars, rowVars, cachedPreviews, cachedRevision, lock,
                   workerVars, crashes, applied>>

\* DeleteQueuedScheduleJob, first statement: the audit row, whatever became
\* of the job.
DeleteCreateAudit(j) ==
    /\ handler[j] = "publishFailed"
    /\ audit' = audit \ {<<j, "create">>}
    /\ handler' = [handler EXCEPT ![j] = "auditDeleted"]
    /\ UNCHANGED <<revision, previews, status, attempts, request, rowVars,
                   cachedPreviews, cachedRevision, kafka, lock, workerVars,
                   crashes, applied>>

\* Mutant: the job row is deleted whatever its status.
DeleteQueuedRow_AnyStatus(j) ==
    /\ handler[j] = "auditDeleted"
    /\ jobRow[j] = "free"
    /\ status' = [status EXCEPT ![j] = "deleted"]
    /\ handler' = [handler EXCEPT ![j] = "refused"]
    /\ UNCHANGED <<revision, previews, attempts, request, audit, rowVars,
                   cachedPreviews, cachedRevision, kafka, lock, workerVars,
                   crashes, applied>>

\* DeleteQueuedScheduleJob, second statement, then the 502 answer.  The DELETE
\* waits for a worker's row lock and only removes a queued row.
DeleteQueuedRow(j) ==
    /\ handler[j] = "auditDeleted"
    /\ jobRow[j] = "free"
    /\ status' = [status EXCEPT ![j] = IF @ = "queued" THEN "deleted" ELSE @]
    /\ handler' = [handler EXCEPT ![j] = "refused"]
    /\ UNCHANGED <<revision, previews, attempts, request, audit, rowVars,
                   cachedPreviews, cachedRevision, kafka, lock, workerVars,
                   crashes, applied>>

\* A replica dies: its handlers stop where they are, a preview it had not yet
\* inserted is nothing, and its cache is lost.
ApiCrash(a) ==
    /\ crashes < MaxCrashes
    /\ crashes' = crashes + 1
    /\ previews' = [p \in Previews |->
          IF previews[p].api = a /\ previews[p].stage \in {"line", "orders"}
          THEN NoPreview ELSE previews[p]]
    /\ handler' = [j \in Jobs |->
          IF /\ request[j].api = a
             /\ handler[j] \in {"created", "publishFailed", "auditDeleted"}
          THEN "none" ELSE handler[j]]
    /\ cachedPreviews' = [cachedPreviews EXCEPT ![a] = {}]
    /\ cachedRevision' = [cachedRevision EXCEPT ![a] = [l \in Lines |-> 0]]
    /\ UNCHANGED <<revision, status, attempts, request, audit, rowVars, kafka,
                   lock, workerVars, applied>>

(***************************************************************************)
(* Worker: taking a job                                                    *)
(***************************************************************************)
\* The offset moves on only at CommitMessages, so a rebalance can hand the
\* same message to another loop.
FetchMessage(w, j) ==
    /\ thread[w].pc = "idle"
    /\ j \in kafka
    /\ thread' = [thread EXCEPT ![w] = [Idle EXCEPT !.pc = "locking", !.job = j]]
    /\ UNCHANGED <<dbVars, rowVars, apiVars, kafka, lock, batch, crashes, applied>>

\* The tick of the backfill loop: one query for all queued rows.
QueryQueuedJobBatch(w) ==
    /\ thread[w].pc = "idle"
    /\ batch[w] = {}
    /\ \E j \in Jobs : status[j] = "queued"
    /\ batch' = [batch EXCEPT ![w] = {j \in Jobs : status[j] = "queued"}]
    /\ UNCHANGED <<dbVars, rowVars, apiVars, kafka, lock, thread, crashes, applied>>

\* The rows are processed one by one, long after they were read.
ProcessBackfillJob(w, j) ==
    /\ thread[w].pc = "idle"
    /\ j \in batch[w]
    /\ batch' = [batch EXCEPT ![w] = @ \ {j}]
    /\ thread' = [thread EXCEPT ![w] = [Idle EXCEPT !.pc = "locking", !.job = j]]
    /\ UNCHANGED <<dbVars, rowVars, apiVars, kafka, lock, crashes, applied>>

(***************************************************************************)
(* Worker: the Redis line lock.  The random value of the key is modelled   *)
(* by the thread that drew it; "orphan" is a value no thread remembers.    *)
(***************************************************************************)
LineOf(w) == request[thread[w].job].line

\* The thread is done with its job.  A handled message is committed, unless the
\* commit fails; an unhandled one is skipped without a commit.
Acknowledge(w, ok) ==
    /\ thread' = [thread EXCEPT ![w] = Idle]
    /\ \/ w \in MessageLoops /\ ok /\ kafka' = kafka \ {thread[w].job}
       \/ UNCHANGED kafka

AcquireLineLock(w) ==
    /\ thread[w].pc = "locking"
    /\ lock[LineOf(w)] = "free"
    /\ lock' = [lock EXCEPT ![LineOf(w)] = w]
    /\ thread' = [thread EXCEPT ![w].pc = "begin"]
    /\ UNCHANGED <<dbVars, rowVars, apiVars, kafka, batch, crashes, applied>>

\* Acquire times out or Redis fails (perhaps after setting the key): the job
\* is left queued by markJobRetry and the message counts as handled, unless
\* the database fails too.
AcquireTimeout(w, ok) ==
    /\ thread[w].pc = "locking"
    /\ ok => jobRow[thread[w].job] = "free"
    /\ \/ UNCHANGED lock
       \/ /\ lock[LineOf(w)] = "free"
          /\ lock' = [lock EXCEPT ![LineOf(w)] = "orphan"]
    /\ Acknowledge(w, ok)
    /\ UNCHANGED <<dbVars, rowVars, apiVars, batch, crashes, applied>>

\* Mutant: the key is set without PX and never expires.
LockExpires_NoTTL(l) ==
    /\ lock[l] \notin Threads \cup {"free", "orphan"}
    /\ UNCHANGED vars

\* The TTL runs out, also while the owner is paused or its renewals are late.
LockExpires(l) ==
    /\ lock[l] # "free"
    /\ lock' = [lock EXCEPT ![l] = "free"]
    /\ UNCHANGED <<dbVars, rowVars, apiVars, kafka, workerVars, crashes, applied>>

\* Mutant: the key is deleted without comparing its value.
Release_AnyOwner(w) ==
    /\ thread[w].pc = "release"
    /\ lock' = [lock EXCEPT ![LineOf(w)] = "free"]
    /\ Acknowledge(w, thread[w].ok)
    /\ UNCHANGED <<dbVars, rowVars, apiVars, batch, crashes, applied>>

\* The key is deleted only if it still holds this thread's value.  If Redis does
\* not answer, the error is logged and the key left to its TTL.
Release(w) ==
    /\ thread[w].pc = "release"
    /\ \E left \in {"free", "orphan"} :
          lock' = [lock EXCEPT ![LineOf(w)] = IF @ = w THEN left ELSE @]
    /\ Acknowledge(w, thread[w].ok)
    /\ UNCHANGED <<dbVars, rowVars, apiVars, batch, crashes, applied>>

\* A later commit on the partition passes over a message whose handling failed,
\* and a new group with start offset "latest" never sees older ones.
LoseMessage(j) ==
    /\ j \in kafka
    /\ kafka' = kafka \ {j}
    /\ UNCHANGED <<dbVars, rowVars, apiVars, lock, workerVars, crashes, applied>>

(***************************************************************************)
(* Worker: the transaction of processDBJobLocked                           *)
(***************************************************************************)
InTransaction == {"running", "loaded", "validated"}

\* Commit or rollback ends the transaction: its row locks are released.
EndTransaction(w, ok) ==
    /\ jobRow' = [j \in Jobs |-> IF jobRow[j] = w THEN "free" ELSE jobRow[j]]
    /\ lineRow' = [l \in Lines |-> IF lineRow[l] = w THEN "free" ELSE lineRow[l]]
    /\ thread' = [thread EXCEPT ![w].pc = "release", ![w].ok = ok]

\* insertWorkerAuditTx copies the actor of the job's create row: without that
\* row nothing is written.
WorkerAudit(j, action) ==
    IF <<j, "create">> \in audit THEN audit \cup {<<j, action>>} ELSE audit

\* SELECT status ... FOR UPDATE: a missing or settled job is left alone.
JobAlreadySettled(w) ==
    /\ thread[w].pc = "begin"
    /\ jobRow[thread[w].job] = "free"
    /\ status[thread[w].job] # "queued"
    /\ thread' = [thread EXCEPT ![w].pc = "release", ![w].ok = TRUE]
    /\ UNCHANGED <<dbVars, rowVars, apiVars, kafka, lock, batch, crashes, applied>>

\* Mutant: markRunning commits on its own instead of inside the transaction.
MarkRunning_Autocommit(w) ==
    /\ thread[w].pc = "begin"
    /\ jobRow[thread[w].job] = "free"
    /\ status[thread[w].job] = "queued"
    /\ status' = [status EXCEPT ![thread[w].job] = "running"]
    /\ jobRow' = [jobRow EXCEPT ![thread[w].job] = w]
    /\ thread' = [thread EXCEPT ![w].pc = "running"]
    /\ UNCHANGED <<revision, previews, attempts, request, audit, lineRow, apiVars,
                   kafka, lock, batch, crashes, applied>>

\* Mutant: the status read under the row lock is not looked at.
MarkRunning_AnyStatus(w) ==
    /\ thread[w].pc = "begin"
    /\ jobRow[thread[w].job] = "free"
    /\ jobRow' = [jobRow EXCEPT ![thread[w].job] = w]
    /\ thread' = [thread EXCEPT ![w].pc = "running"]
    /\ UNCHANGED <<dbVars, lineRow, apiVars, kafka, lock, batch, crashes, applied>>

\* SELECT status ... FOR UPDATE on a queued job, and markRunning, whose new
\* attempt_count and status stay inside the transaction.
MarkRunning(w) ==
    /\ thread[w].pc = "begin"
    /\ jobRow[thread[w].job] = "free"
    /\ status[thread[w].job] = "queued"
    /\ jobRow' = [jobRow EXCEPT ![thread[w].job] = w]
    /\ thread' = [thread EXCEPT ![w].pc = "running"]
    /\ UNCHANGED <<dbVars, lineRow, apiVars, kafka, lock, batch, crashes, applied>>

LoadPreviewAllocations(w) ==
    /\ thread[w].pc = "running"
    /\ previews[request[thread[w].job].preview].stage = "open"
    /\ thread' = [thread EXCEPT ![w].pc = "loaded"]
    /\ UNCHANGED <<dbVars, rowVars, apiVars, kafka, lock, batch, crashes, applied>>

\* Mutant: the job is compared with its preview, neither with the line.
PreviewIsCurrent_JobOnly(j) ==
    request[j].revision = previews[request[j].preview].revision

\* The job's revision is compared with the preview's only when it is set.
PreviewIsCurrent(j) ==
    LET preview == previews[request[j].preview]
    IN  /\ revision[request[j].line] = preview.revision
        /\ request[j].revision # 0 => request[j].revision = preview.revision

\* Mutant: the revision is read without FOR UPDATE.
ValidatePreviewRevision_NoRowLock(w) ==
    /\ thread[w].pc = "loaded"
    /\ lineRow[LineOf(w)] = "free"
    /\ PreviewIsCurrent(thread[w].job)
    /\ thread' = [thread EXCEPT ![w].pc = "validated"]
    /\ UNCHANGED <<dbVars, rowVars, apiVars, kafka, lock, batch, crashes, applied>>

\* Mutant: the allocations are written on the connection, not in the transaction.
ValidatePreviewRevision_WritesEarly(w) ==
    LET j == thread[w].job
        l == LineOf(w)
    IN  /\ thread[w].pc = "loaded"
        /\ lineRow[l] = "free"
        /\ PreviewIsCurrent(j)
        /\ lineRow' = [lineRow EXCEPT ![l] = w]
        /\ thread' = [thread EXCEPT ![w].pc = "validated"]
        /\ applied' = applied \cup
              {[job |-> j, preview |-> request[j].preview, line |-> l,
                revision |-> revision[l]]}
        /\ UNCHANGED <<dbVars, jobRow, apiVars, kafka, lock, batch, crashes>>

\* SELECT schedule_revision ... FOR UPDATE, and the comparison succeeds.
ValidatePreviewRevision(w) ==
    /\ thread[w].pc = "loaded"
    /\ lineRow[LineOf(w)] = "free"
    /\ PreviewIsCurrent(thread[w].job)
    /\ lineRow' = [lineRow EXCEPT ![LineOf(w)] = w]
    /\ thread' = [thread EXCEPT ![w].pc = "validated"]
    /\ UNCHANGED <<dbVars, jobRow, apiVars, kafka, lock, batch, crashes, applied>>

\* Mutant: the line's revision is not bumped.
MarkCompleted_NoBump(w) ==
    LET j == thread[w].job
        p == request[j].preview
        l == request[j].line
    IN  /\ thread[w].pc = "validated"
        /\ status' = [status EXCEPT ![j] = "completed"]
        /\ attempts' = [attempts EXCEPT ![j] = @ + 1]
        /\ audit' = WorkerAudit(j, "complete")
        /\ previews' = [previews EXCEPT ![p].stage = "gone"]
        /\ applied' = applied \cup
              {[job |-> j, preview |-> p, line |-> l, revision |-> revision[l]]}
        /\ EndTransaction(w, TRUE)
        /\ UNCHANGED <<revision, request, apiVars, kafka, lock, batch, crashes>>

\* The writes of persistPreviewAllocations and markCompleted, and the commit.
\* A preview with no allocation changes no order and does not bump the line.
MarkCompleted(w) ==
    LET j == thread[w].job
        p == request[j].preview
        l == request[j].line
    IN  /\ thread[w].pc = "validated"
        /\ status' = [status EXCEPT ![j] = "completed"]
        /\ attempts' = [attempts EXCEPT ![j] = @ + 1]
        /\ audit' = WorkerAudit(j, "complete")
        /\ previews' = [previews EXCEPT ![p].stage = "gone"]
        /\ IF previews[p].empty
           THEN UNCHANGED <<revision, applied>>
           ELSE /\ revision' = [revision EXCEPT ![l] = @ + 1]
                /\ applied' = applied \cup
                      {[job |-> j, preview |-> p, line |-> l,
                        revision |-> revision[l]]}
        /\ EndTransaction(w, TRUE)
        /\ UNCHANGED <<request, apiVars, kafka, lock, batch, crashes>>

MarkFailedAfterRun(w) ==
    LET j == thread[w].job
    IN  /\ status' = [status EXCEPT ![j] = "failed"]
        /\ attempts' = [attempts EXCEPT ![j] = @ + 1]
        /\ audit' = WorkerAudit(j, "fail")
        /\ EndTransaction(w, TRUE)
        /\ UNCHANGED <<revision, previews, request, apiVars, kafka, lock, batch,
                       crashes, applied>>

\* Stale data fails the job at once: the preview row is gone or expired ...
PreviewGone(w) ==
    /\ thread[w].pc = "running"
    /\ previews[request[thread[w].job].preview].stage # "open"
    /\ MarkFailedAfterRun(w)

\* ... or the line has moved on since the preview.
PreviewStale(w) ==
    /\ thread[w].pc = "loaded"
    /\ lineRow[LineOf(w)] = "free"
    /\ ~PreviewIsCurrent(thread[w].job)
    /\ MarkFailedAfterRun(w)

\* Mutant: off by one.
AttemptsLeft_OffByOne(j) == attempts[j] + 1 <= MaxRetries

\* The run that is going on is one attempt more than the row says.
AttemptsLeft(j) == attempts[j] + 1 < MaxRetries

\* The stored allocations cannot be decoded: the only error that is not stale
\* data and leaves the transaction usable.
Undecodable(w) ==
    /\ thread[w].pc = "running"
    /\ previews[request[thread[w].job].preview].stage = "open"

\* One attempt is spent; the job goes back to the queue while some are left ...
MarkRetryAfterRun(w) ==
    /\ Undecodable(w)
    /\ AttemptsLeft(thread[w].job)
    /\ attempts' = [attempts EXCEPT ![thread[w].job] = @ + 1]
    /\ EndTransaction(w, FALSE)
    /\ UNCHANGED <<revision, previews, status, request, audit, apiVars, kafka,
                   lock, batch, crashes, applied>>

\* ... and fails when they are used up.
RetriesExhausted(w) ==
    /\ Undecodable(w)
    /\ ~AttemptsLeft(thread[w].job)
    /\ MarkFailedAfterRun(w)

\* A failed SQL statement poisons the transaction: markRetryAfterRun or
\* markFailedAfterRun fail in turn, the commit is refused, everything is rolled
\* back.  Cancelling the context after a failed lock renewal does the same.
RollbackTx(w) ==
    /\ thread[w].pc \in InTransaction
    /\ EndTransaction(w, FALSE)
    /\ UNCHANGED <<dbVars, apiVars, kafka, lock, batch, crashes, applied>>

\* A worker process dies: PostgreSQL rolls back, the Redis key stays.
WorkerCrash(w) ==
    /\ crashes < MaxCrashes
    /\ thread[w].pc # "idle"
    /\ crashes' = crashes + 1
    /\ jobRow' = [j \in Jobs |-> IF jobRow[j] = w THEN "free" ELSE jobRow[j]]
    /\ lineRow' = [l \in Lines |-> IF lineRow[l] = w THEN "free" ELSE lineRow[l]]
    /\ lock' = [l \in Lines |-> IF lock[l] = w THEN "orphan" ELSE lock[l]]
    /\ thread' = [thread EXCEPT ![w] = Idle]
    /\ batch' = [x \in BackfillLoops |-> IF x = w THEN {} ELSE batch[x]]
    /\ UNCHANGED <<dbVars, apiVars, kafka, applied>>

(***************************************************************************)
(* Specification                                                           *)
(***************************************************************************)
PreviewNext ==
    \E p \in Previews :
        \/ \E a \in Apis : \/ \E l \in Lines : PreviewReadLine(a, p, l)
                           \/ EnsurePreviewLoaded(a, p)
        \/ PreviewReadOrders(p)
        \/ \E empty \in BOOLEAN : PreviewSave(p, empty)
        \/ PreviewExpires(p)

ApiNext ==
    \/ PreviewNext
    \/ \E l \in Lines : \/ BumpRevision(l)
                        \/ \E a \in Apis : ProductionLine(a, l)
    \/ \E a \in Apis : ApiCrash(a)
    \/ \E j \in Jobs :
          \/ \E a \in Apis, p \in Previews : CreateScheduleJob(a, p, j)
          \/ PublishScheduleJob(j)
          \/ PublishFails(j)
          \/ DeleteCreateAudit(j)
          \/ DeleteQueuedRow(j)

TakeJob(w) ==
    \/ w \in MessageLoops /\ \E j \in Jobs : FetchMessage(w, j)
    \/ w \in BackfillLoops /\ \E j \in Jobs : ProcessBackfillJob(w, j)
    \/ w \in BackfillLoops /\ QueryQueuedJobBatch(w)

Transact(w) ==
    \/ JobAlreadySettled(w)
    \/ MarkRunning(w)
    \/ LoadPreviewAllocations(w)
    \/ ValidatePreviewRevision(w)
    \/ MarkCompleted(w)
    \/ PreviewGone(w)
    \/ PreviewStale(w)

WorkerNext ==
    \E w \in Threads :
        \/ TakeJob(w)
        \/ AcquireLineLock(w)
        \/ \E ok \in BOOLEAN : AcquireTimeout(w, ok)
        \/ Transact(w)
        \/ MarkRetryAfterRun(w)
        \/ RetriesExhausted(w)
        \/ RollbackTx(w)
        \/ Release(w)
        \/ WorkerCrash(w)

EnvironmentNext ==
    \/ \E l \in Lines : LockExpires(l)
    \/ \E j \in Jobs : LoseMessage(j)

Next == ApiNext \/ WorkerNext \/ EnvironmentNext

Spec == Init /\ [][Next]_vars

\* Threads keep running and the database answers again and again; nobody is
\* promised a lock at the first try (SF), or that a write succeeds: the
\* transaction that fails a stale job is the only commit assumed to get
\* through eventually.  Clocks move: keys and previews expire.
Fairness ==
    /\ \A w \in Threads :
          /\ WF_vars(TakeJob(w))
          /\ SF_vars(AcquireLineLock(w))
          /\ WF_vars(\E ok \in BOOLEAN : AcquireTimeout(w, ok))
          /\ WF_vars(Transact(w))
          /\ SF_vars(PreviewGone(w))
          /\ WF_vars(Release(w))
    /\ \A l \in Lines : WF_vars(LockExpires(l))
    /\ \A p \in Previews : WF_vars(PreviewExpires(p))

FairSpec == Spec /\ Fairness

(***************************************************************************)
(* Safety                                                                  *)
(***************************************************************************)
\* A preview is written to the schedule at most once, however many jobs are
\* created for it, messages redelivered, jobs backfilled and locks expired.
AppliedAtMostOnce ==
    \A x, y \in applied : x.preview = y.preview => x = y

\* Two previews planned from the same state of a line never both reach the
\* schedule: whichever job commits second finds the line changed.
OneApplicationPerRevision ==
    \A x, y \in applied : x.line = y.line /\ x.revision = y.revision => x = y

\* What a worker writes was planned from exactly the orders and allocations
\* the line has at that moment: no order change slipped in between the reads
\* of PreviewSchedule, or between the preview and the write.
AppliedOnItsBasis ==
    \A x \in applied : /\ previews[x.preview].ordersAt = x.revision
                       /\ previews[x.preview].allocsAt = x.revision

\* The schedule and the job row change together: a job is completed exactly if
\* its preview was written (or had nothing to write), across rollbacks and
\* crashes in the middle of processDBJobLocked.
CompletedIffApplied ==
    \A j \in Jobs :
        (\E x \in applied : x.job = j)
            <=> (status[j] = "completed" /\ ~previews[request[j].preview].empty)

\* attempt_count never passes the configured maximum (a run always counts one,
\* also when WORKER_MAX_RETRIES is zero).
AttemptsBounded ==
    \A j \in Jobs : attempts[j] <= IF MaxRetries = 0 THEN 1 ELSE MaxRetries

\* The worker that is about to write still sees the revision it validated: the
\* line's row lock, not the Redis lock, keeps order changes out.
ValidatedStaysCurrent ==
    \A w \in Threads :
        thread[w].pc = "validated" =>
            /\ PreviewIsCurrent(thread[w].job)
            /\ status[thread[w].job] = "queued"

(***************************************************************************)
(* Action properties                                                       *)
(***************************************************************************)
\* A settled job keeps its outcome: no late message, backfill row or failed
\* publish changes or removes it.
SettledStaysSettled ==
    [][\A j \in Jobs : status[j] \in {"completed", "failed"} =>
                          status'[j] = status[j]]_vars

\* A worker that finishes late, after its key expired and another thread took
\* the line, does not free the other thread's lock.
ReleaseOnlyOwnLock ==
    [][\A w \in Threads, l \in Lines :
          /\ thread[w].pc = "release"
          /\ thread'[w].pc = "idle"
          /\ lock[l] # w
          => lock'[l] = lock[l]]_vars

(***************************************************************************)
(* Liveness                                                                *)
(***************************************************************************)
\* A queued job does not stay queued: even if its message is lost, its worker
\* crashes or every attempt to write it fails, the backfill finds it and at the
\* latest the expiry of its preview settles it.
QueuedEventuallySettles ==
    \A j \in Jobs : status[j] = "queued" ~> status[j] # "queued"

(***************************************************************************)
(* Statements of the documentation and the tests that the code does not    *)
(* keep                                                                    *)
(***************************************************************************)
\* "update PostgreSQL, and write audit records" (README.md): a completed job
\* has its audit row.
CompletedIsAudited ==
    \A j \in Jobs : status[j] = "completed" => <<j, "complete">> \in audit

\* "publish failure should rollback queued job" (server_test.go): a job whose
\* creation was answered with 502 is not carried out.
RefusedIsNotCarriedOut ==
    \A j \in Jobs : handler[j] = "refused" => status[j] # "completed"
=============================================================================
