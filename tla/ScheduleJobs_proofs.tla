------------------------ MODULE ScheduleJobs_proofs ------------------------
(***************************************************************************)
(* The safety of ScheduleJobs, for every number of lines, previews, jobs,  *)
(* replicas and worker threads, every retry limit and without bounds that  *)
(* matter: the inductive invariant and the theorems that follow from it.   *)
(***************************************************************************)
EXTENDS ScheduleJobs, TLAPS

(***************************************************************************)
(* The inductive invariant, in three layers; each layer is inductive once  *)
(* the layers before it are known.                                         *)
(***************************************************************************)
Known == {"open", "gone"}

Pcs == {"idle", "locking", "begin", "running", "loaded", "validated", "release"}

\* Layer 1: ids refer to rows that exist.
PreviewsHaveLines ==
    \A p \in Previews : previews[p].stage # "none" => previews[p].line \in Lines

CachesHoldSavedPreviews ==
    \A a \in Apis : \A p \in cachedPreviews[a] : previews[p].stage \in Known

JobsHavePreviews ==
    \A j \in Jobs : status[j] # "none" =>
        /\ request[j].preview \in Previews
        /\ previews[request[j].preview].stage \in Known
        /\ request[j].line = previews[request[j].preview].line
        /\ request[j].revision = previews[request[j].preview].revision

WorkIsOnJobs ==
    /\ \A j \in kafka : status[j] # "none"
    /\ \A w \in BackfillLoops : \A j \in batch[w] : status[j] # "none"
    /\ \A j \in Jobs : handler[j] # "none" => status[j] # "none"
    /\ \A w \in Threads : thread[w].pc # "idle" =>
          thread[w].job \in Jobs /\ status[thread[w].job] # "none"

References ==
    /\ TypeOK
    /\ PreviewsHaveLines
    /\ CachesHoldSavedPreviews
    /\ JobsHavePreviews
    /\ WorkIsOnJobs

\* Layer 2: row locks and the transactions that hold them.
JobRowHeld ==
    /\ \A w \in Threads : thread[w].pc \in InTransaction =>
          jobRow[thread[w].job] = w /\ status[thread[w].job] = "queued"
    /\ \A j \in Jobs : jobRow[j] # "free" =>
          thread[jobRow[j]].pc \in InTransaction /\ thread[jobRow[j]].job = j

LineRowHeld ==
    /\ \A w \in Threads : thread[w].pc = "validated" =>
          /\ lineRow[LineOf(w)] = w
          /\ revision[LineOf(w)] = request[thread[w].job].revision
    /\ \A l \in Lines : lineRow[l] # "free" =>
          thread[lineRow[l]].pc = "validated" /\ LineOf(lineRow[l]) = l

RowLocks == JobRowHeld /\ LineRowHeld

\* Layer 3: what has been applied, and from which reads.
ReadsInOrder ==
    \A p \in Previews :
        LET v == previews[p]
        IN  /\ v.stage \in {"line", "orders"} \cup Known => v.revision <= revision[v.line]
            /\ v.stage \in {"orders"} \cup Known =>
                  v.revision <= v.ordersAt /\ v.ordersAt <= revision[v.line]
            /\ v.stage \in Known =>
                  v.ordersAt <= v.allocsAt /\ v.allocsAt <= revision[v.line]

AppliedIsRecorded ==
    \A x \in applied :
        /\ status[x.job] = "completed"
        /\ request[x.job].preview = x.preview
        /\ previews[x.preview].line = x.line
        /\ ~previews[x.preview].empty
        /\ previews[x.preview].stage \in Known
        /\ previews[x.preview].revision = x.revision
        /\ previews[x.preview].ordersAt = x.revision
        /\ previews[x.preview].allocsAt = x.revision
        /\ x.revision < revision[x.line]

CompletedIsApplied ==
    \A j \in Jobs :
        status[j] = "completed" /\ ~previews[request[j].preview].empty =>
            \E x \in applied : x.job = j

History ==
    /\ ReadsInOrder
    /\ AppliedIsRecorded
    /\ OneApplicationPerRevision
    /\ CompletedIsApplied

\* Retries: a job that may still run has attempts left.
Most == IF MaxRetries = 0 THEN 1 ELSE MaxRetries

AttemptsRemain ==
    \A j \in Jobs :
        /\ attempts[j] <= Most
        /\ status[j] \in {"none", "queued"} => attempts[j] < Most

IInv == References /\ RowLocks /\ History /\ AttemptsRemain

(***************************************************************************)
(* What the record updates of the actions do                               *)
(***************************************************************************)
\* A thread that only moves on keeps its job.
LEMMA Moving ==
  ASSUME NEW r \in ThreadState, NEW pc \in Pcs
  PROVE  LET s == [r EXCEPT !.pc = pc]
         IN  s \in ThreadState /\ s.pc = pc /\ s.job = r.job
  BY DEF ThreadState, Pcs

\* The same for the variable thread.
LEMMA Moved ==
  ASSUME TypeOK, NEW w \in Threads, NEW pc \in Pcs,
         thread' = [thread EXCEPT ![w].pc = pc]
  PROVE  /\ thread' \in [Threads -> ThreadState]
         /\ thread'[w].pc = pc
         /\ thread'[w].job = thread[w].job
         /\ \A v \in Threads : v # w => thread'[v] = thread[v]
  <1> DEFINE r == thread[w]
             s == [r EXCEPT !.pc = pc]
  <1>1. r \in ThreadState
    BY DEF TypeOK
  <1>2. thread' = [thread EXCEPT ![w] = s]
    BY DEF TypeOK
  <1> HIDE DEF r
  <1>3. s \in ThreadState /\ s.pc = pc /\ s.job = r.job
    BY <1>1, Moving
  <1> HIDE DEF s
  <1>q. QED
    BY <1>2, <1>3 DEF TypeOK, r

\* A thread that takes job j forgets the one before.
LEMMA Taken ==
  ASSUME TypeOK, NEW w \in Threads, NEW j \in Jobs,
         thread' = [thread EXCEPT ![w] = [Idle EXCEPT !.pc = "locking", !.job = j]]
  PROVE  /\ thread' \in [Threads -> ThreadState]
         /\ thread'[w].pc = "locking"
         /\ thread'[w].job = j
         /\ \A v \in Threads : v # w => thread'[v] = thread[v]
  BY DEF TypeOK, ThreadState, Idle

\* A thread that is done is idle.
LEMMA Done ==
  ASSUME TypeOK, NEW w \in Threads, thread' = [thread EXCEPT ![w] = Idle]
  PROVE  /\ thread' \in [Threads -> ThreadState]
         /\ thread'[w].pc = "idle"
         /\ \A v \in Threads : v # w => thread'[v] = thread[v]
  BY DEF TypeOK, ThreadState, Idle

\* A thread that releases its lock next, whatever its outcome.
LEMMA Releasing ==
  ASSUME NEW r \in ThreadState, NEW ok \in BOOLEAN
  PROVE  LET s == [r EXCEPT !.pc = "release", !.ok = ok]
         IN  s \in ThreadState /\ s.pc = "release" /\ s.job = r.job
  BY DEF ThreadState

\* The same for the variable thread.
LEMMA Released ==
  ASSUME TypeOK, NEW w \in Threads, NEW ok \in BOOLEAN,
         thread' = [thread EXCEPT ![w].pc = "release", ![w].ok = ok]
  PROVE  /\ thread' \in [Threads -> ThreadState]
         /\ thread'[w].pc = "release"
         /\ thread'[w].job = thread[w].job
         /\ \A v \in Threads : v # w => thread'[v] = thread[v]
  <1> DEFINE r == thread[w]
             s == [r EXCEPT !.pc = "release", !.ok = ok]
  <1>1. r \in ThreadState
    BY DEF TypeOK
  <1>2. thread' = [thread EXCEPT ![w] = s]
    BY DEF TypeOK
  <1> HIDE DEF r
  <1>3. s \in ThreadState /\ s.pc = "release" /\ s.job = r.job
    BY <1>1, Releasing
  <1> HIDE DEF s
  <1>q. QED
    BY <1>2, <1>3 DEF TypeOK, r

\* The end of a transaction: the thread goes to "release" and its row locks,
\* no others, are free.
LEMMA Ended ==
  ASSUME TypeOK, NEW w \in Threads, NEW ok \in BOOLEAN, EndTransaction(w, ok)
  PROVE  /\ thread' \in [Threads -> ThreadState]
         /\ thread'[w].pc = "release"
         /\ thread'[w].job = thread[w].job
         /\ \A v \in Threads : v # w => thread'[v] = thread[v]
         /\ jobRow' \in [Jobs -> Threads \cup {"free"}]
         /\ lineRow' \in [Lines -> Threads \cup {"free"}]
         /\ \A j \in Jobs : jobRow'[j] = IF jobRow[j] = w THEN "free" ELSE jobRow[j]
         /\ \A l \in Lines : lineRow'[l] = IF lineRow[l] = w THEN "free" ELSE lineRow[l]
  <1>1. thread' = [thread EXCEPT ![w].pc = "release", ![w].ok = ok]
    BY DEF EndTransaction
  <1>2. /\ thread' \in [Threads -> ThreadState]
        /\ thread'[w].pc = "release"
        /\ thread'[w].job = thread[w].job
        /\ \A v \in Threads : v # w => thread'[v] = thread[v]
    BY <1>1, Released
  <1>q. QED
    BY <1>2 DEF EndTransaction, TypeOK

\* The fields of a preview row.
LEMMA PreviewFields ==
  ASSUME TypeOK, NEW p \in Previews
  PROVE  /\ previews[p].stage \in {"none", "line", "orders", "open", "gone"}
         /\ previews[p].line \in Lines \cup {"none"}
         /\ previews[p].revision \in Nat
         /\ previews[p].ordersAt \in Nat
         /\ previews[p].allocsAt \in Nat
         /\ previews[p].empty \in BOOLEAN
  BY DEF TypeOK, PreviewRow

\* The fields of a job row.
LEMMA RequestFields ==
  ASSUME TypeOK, NEW j \in Jobs
  PROVE  /\ request[j].preview \in Previews \cup {"none"}
         /\ request[j].line \in Lines \cup {"none"}
         /\ request[j].revision \in Nat
  BY DEF TypeOK, Request

\* A preview row that is gone keeps its other columns.
LEMMA RowGone ==
  ASSUME NEW r \in PreviewRow
  PROVE  LET g == [r EXCEPT !.stage = "gone"]
         IN  g \in PreviewRow /\ g.stage = "gone" /\ g.line = r.line
             /\ g.revision = r.revision /\ g.ordersAt = r.ordersAt
             /\ g.allocsAt = r.allocsAt /\ g.empty = r.empty
  BY DEF PreviewRow

\* A preview row whose orders have been read at revision n.
LEMMA RowOrders ==
  ASSUME NEW r \in PreviewRow, NEW n \in Nat
  PROVE  LET o == [r EXCEPT !.stage = "orders", !.ordersAt = n]
         IN  o \in PreviewRow /\ o.stage = "orders" /\ o.line = r.line
             /\ o.revision = r.revision /\ o.ordersAt = n
  BY DEF PreviewRow

\* A preview row that is saved after the allocations were read at revision n.
LEMMA RowSaved ==
  ASSUME NEW r \in PreviewRow, NEW n \in Nat, NEW empty \in BOOLEAN
  PROVE  LET s == [r EXCEPT !.stage = "open", !.empty = empty, !.allocsAt = n]
         IN  s \in PreviewRow /\ s.stage = "open" /\ s.line = r.line
             /\ s.revision = r.revision /\ s.ordersAt = r.ordersAt /\ s.allocsAt = n
  BY DEF PreviewRow

\* A preview that leaves the table, by expiry or by being applied, keeps its
\* columns.
LEMMA Gone ==
  ASSUME TypeOK, NEW p \in Previews,
         previews' = [previews EXCEPT ![p].stage = "gone"]
  PROVE  /\ previews' \in [Previews -> PreviewRow]
         /\ previews'[p].stage = "gone"
         /\ \A q \in Previews :
               /\ q # p => previews'[q] = previews[q]
               /\ previews'[q].line = previews[q].line
               /\ previews'[q].revision = previews[q].revision
               /\ previews'[q].ordersAt = previews[q].ordersAt
               /\ previews'[q].allocsAt = previews[q].allocsAt
               /\ previews'[q].empty = previews[q].empty
  <1> DEFINE row == [previews[p] EXCEPT !.stage = "gone"]
  <1>1. previews[p] \in PreviewRow
    BY DEF TypeOK
  <1>2. row \in PreviewRow /\ row.stage = "gone" /\ row.line = previews[p].line
        /\ row.revision = previews[p].revision /\ row.ordersAt = previews[p].ordersAt
        /\ row.allocsAt = previews[p].allocsAt /\ row.empty = previews[p].empty
    BY <1>1, RowGone
  <1>3. previews' = [previews EXCEPT ![p] = row]
    OBVIOUS
  <1> HIDE DEF row
  <1>4. previews \in [Previews -> PreviewRow]
    BY DEF TypeOK
  <1>5. previews'[p] = row /\ \A q \in Previews : q # p => previews'[q] = previews[q]
    BY <1>3, <1>4
  <1>6. previews' \in [Previews -> PreviewRow]
    BY <1>2, <1>3, <1>4
  <1>q. QED
    BY <1>2, <1>5, <1>6

\* PreviewSchedule, first read: the line and its revision.
LEMMA LineRead ==
  ASSUME TypeOK, NEW a \in Apis, NEW p \in Previews, NEW l \in Lines,
         PreviewReadLine(a, p, l)
  PROVE  /\ previews' \in [Previews -> PreviewRow]
         /\ previews'[p].stage = "line"
         /\ previews'[p].line = l
         /\ previews'[p].revision = revision[l]
         /\ \A q \in Previews : q # p => previews'[q] = previews[q]
  <1> DEFINE row == [NoPreview EXCEPT !.stage = "line", !.api = a, !.line = l,
                                      !.revision = revision[l]]
  <1>1. /\ row \in PreviewRow
        /\ row.stage = "line"
        /\ row.line = l
        /\ row.revision = revision[l]
    BY DEF NoPreview, PreviewRow, TypeOK
  <1>2. previews' = [previews EXCEPT ![p] = row]
    BY DEF PreviewReadLine
  <1> HIDE DEF row
  <1>q. QED
    BY <1>1, <1>2 DEF TypeOK

\* PreviewSchedule, second read: it keeps line and revision.
LEMMA OrdersRead ==
  ASSUME TypeOK, NEW p \in Previews, previews[p].line \in Lines, PreviewReadOrders(p)
  PROVE  /\ previews' \in [Previews -> PreviewRow]
         /\ previews'[p].stage = "orders"
         /\ previews'[p].line = previews[p].line
         /\ previews'[p].revision = previews[p].revision
         /\ previews'[p].ordersAt = revision[previews[p].line]
         /\ \A q \in Previews : q # p => previews'[q] = previews[q]
  <1> DEFINE row == [previews[p] EXCEPT !.stage = "orders",
                                        !.ordersAt = revision[previews[p].line]]
  <1>1. revision[previews[p].line] \in Nat /\ previews[p] \in PreviewRow
    BY DEF TypeOK
  <1>2. row \in PreviewRow /\ row.stage = "orders" /\ row.line = previews[p].line
        /\ row.revision = previews[p].revision
        /\ row.ordersAt = revision[previews[p].line]
    BY <1>1, RowOrders
  <1>3. previews' = [previews EXCEPT ![p] = row]
    BY DEF PreviewReadOrders, TypeOK
  <1> HIDE DEF row
  <1>q. QED
    BY <1>2, <1>3 DEF TypeOK

\* PreviewSchedule, third read and INSERT: it keeps what was read before.
LEMMA Saved ==
  ASSUME TypeOK, NEW p \in Previews, NEW empty \in BOOLEAN,
         previews[p].line \in Lines, PreviewSave(p, empty)
  PROVE  /\ previews' \in [Previews -> PreviewRow]
         /\ previews'[p].stage = "open"
         /\ previews'[p].line = previews[p].line
         /\ previews'[p].revision = previews[p].revision
         /\ previews'[p].ordersAt = previews[p].ordersAt
         /\ previews'[p].allocsAt = revision[previews[p].line]
         /\ \A q \in Previews : q # p => previews'[q] = previews[q]
  <1> DEFINE r == previews[p]
             n == revision[previews[p].line]
             row == [r EXCEPT !.stage = "open", !.empty = empty, !.allocsAt = n]
  <1>1. n \in Nat /\ r \in PreviewRow
    BY DEF TypeOK
  <1>2. previews' = [previews EXCEPT ![p] = row]
    BY DEF PreviewSave, TypeOK
  <1> HIDE DEF r, n
  <1>3. row \in PreviewRow /\ row.stage = "open" /\ row.line = r.line
        /\ row.revision = r.revision /\ row.ordersAt = r.ordersAt
        /\ row.allocsAt = n
    BY <1>1, RowSaved
  <1> HIDE DEF row
  <1>q. QED
    BY <1>2, <1>3 DEF TypeOK, r, n

\* The crash of a replica only loses previews that were never inserted.
LEMMA ReplicaLost ==
  ASSUME TypeOK, NEW a \in Apis, ApiCrash(a)
  PROVE  /\ previews' \in [Previews -> PreviewRow]
         /\ \A p \in Previews :
               \/ previews'[p] = previews[p]
               \/ previews[p].stage \in {"line", "orders"} /\ previews'[p].stage = "none"
         /\ handler' \in [Jobs -> HandlerStage]
         /\ \A j \in Jobs : handler'[j] # "none" => handler[j] # "none"
         /\ \A b \in Apis : cachedPreviews'[b] \subseteq cachedPreviews[b]
  <1>1. NoPreview \in PreviewRow /\ NoPreview.stage = "none"
    BY DEF PreviewRow, NoPreview
  <1>2. /\ previews' \in [Previews -> PreviewRow]
        /\ \A p \in Previews :
               \/ previews'[p] = previews[p]
               \/ previews[p].stage \in {"line", "orders"} /\ previews'[p].stage = "none"
    BY <1>1 DEF ApiCrash, TypeOK
  <1>3. \A b \in Apis : cachedPreviews'[b] \subseteq cachedPreviews[b]
    BY DEF ApiCrash, TypeOK
  <1>4. /\ handler' \in [Jobs -> HandlerStage]
        /\ \A j \in Jobs : handler'[j] # "none" => handler[j] # "none"
    BY DEF ApiCrash, TypeOK, HandlerStage
  <1>q. QED
    BY <1>2, <1>3, <1>4

(***************************************************************************)
(* Layer 1: types and references                                           *)
(***************************************************************************)
\* A thread at work has a job whose preview and line exist.
LEMMA ThreadsHaveRows ==
  ASSUME References, NEW w \in Threads, thread[w].pc # "idle"
  PROVE  /\ thread[w].job \in Jobs
         /\ status[thread[w].job] # "none"
         /\ request[thread[w].job].preview \in Previews
         /\ request[thread[w].job].line \in Lines
         /\ LineOf(w) \in Lines
  BY DEF References, WorkIsOnJobs, JobsHavePreviews, PreviewsHaveLines, Known, LineOf

\* Failing a job keeps the types, whatever the reason.
LEMMA Failed ==
  ASSUME References, NEW w \in Threads, thread[w].pc # "idle", MarkFailedAfterRun(w)
  PROVE  TypeOK'
  <1>1. thread[w].job \in Jobs /\ TypeOK
    BY ThreadsHaveRows DEF References
  <1>2. /\ thread' \in [Threads -> ThreadState]
        /\ jobRow' \in [Jobs -> Threads \cup {"free"}]
        /\ lineRow' \in [Lines -> Threads \cup {"free"}]
    BY <1>1, Ended DEF MarkFailedAfterRun
  <1>3. status' \in [Jobs -> JobStatus] /\ attempts' \in [Jobs -> Nat]
    BY <1>1 DEF MarkFailedAfterRun, TypeOK, JobStatus
  <1>4. audit' \subseteq AuditRow
    BY <1>1 DEF MarkFailedAfterRun, TypeOK, WorkerAudit, AuditRow
  <1>q. QED
    BY <1>1, <1>2, <1>3, <1>4 DEF MarkFailedAfterRun, TypeOK, apiVars

\* Every step keeps the types.
LEMMA TypeStep ==
  ASSUME References, [Next]_vars
  PROVE  TypeOK'
<1>0. TypeOK /\ References
  BY DEF References
<1> USE <1>0
<1>1. ASSUME NEW a \in Apis, NEW p \in Previews, NEW l \in Lines,
             PreviewReadLine(a, p, l)
      PROVE  TypeOK'
  BY <1>1, LineRead
  DEF PreviewReadLine, TypeOK, dbVars, rowVars, apiVars, workerVars
<1>2. ASSUME NEW a \in Apis, NEW p \in Previews, EnsurePreviewLoaded(a, p)
      PROVE  TypeOK'
  BY <1>2, PreviewFields
  DEF EnsurePreviewLoaded, TypeOK, dbVars, rowVars, apiVars, workerVars
<1>3. ASSUME NEW p \in Previews, PreviewReadOrders(p)
      PROVE  TypeOK'
  BY <1>3, OrdersRead
  DEF PreviewReadOrders, TypeOK, dbVars, rowVars, apiVars, workerVars,
      PreviewsHaveLines, References
<1>4. ASSUME NEW p \in Previews, NEW empty \in BOOLEAN, PreviewSave(p, empty)
      PROVE  TypeOK'
  <2>1. previews' \in [Previews -> PreviewRow]
    BY <1>4, Saved DEF PreviewSave, References, PreviewsHaveLines
  <2>2. cachedPreviews' \in [Apis -> SUBSET Previews]
    BY <1>4 DEF PreviewSave, TypeOK
  <2>q. QED
    BY <1>4, <2>1, <2>2 DEF PreviewSave, TypeOK, rowVars, workerVars
<1>5. ASSUME NEW p \in Previews, PreviewExpires(p)
      PROVE  TypeOK'
  BY <1>5, Gone
  DEF PreviewExpires, TypeOK, dbVars, rowVars, apiVars, workerVars
<1>6. ASSUME NEW l \in Lines, BumpRevision(l)
      PROVE  TypeOK'
  BY <1>6
  DEF BumpRevision, TypeOK, dbVars, rowVars, apiVars, workerVars
<1>7. ASSUME NEW a \in Apis, ApiCrash(a)
      PROVE  TypeOK'
  <2>1. /\ previews' \in [Previews -> PreviewRow]
        /\ handler' \in [Jobs -> HandlerStage]
    BY <1>7, ReplicaLost
  <2>2. /\ cachedPreviews' \in [Apis -> SUBSET Previews]
        /\ cachedRevision' \in [Apis -> [Lines -> Nat]]
    BY <1>7 DEF ApiCrash, TypeOK
  <2>3. crashes' \in 0..MaxCrashes
    BY <1>7, BoundsAssumption DEF ApiCrash, TypeOK
  <2>q. QED
    BY <1>7, <2>1, <2>2, <2>3 DEF ApiCrash, TypeOK, rowVars, workerVars
<1>8. ASSUME NEW a \in Apis, NEW p \in Previews, NEW j \in Jobs,
             CreateScheduleJob(a, p, j)
      PROVE  TypeOK'
  <2>1. status' \in [Jobs -> JobStatus] /\ handler' \in [Jobs -> HandlerStage]
    BY <1>8 DEF CreateScheduleJob, TypeOK, JobStatus, HandlerStage
  <2>2. request' \in [Jobs -> Request]
    BY <1>8, PreviewFields DEF CreateScheduleJob, TypeOK, Request
  <2>3. audit' \subseteq AuditRow
    BY <1>8 DEF CreateScheduleJob, TypeOK, AuditRow
  <2>q. QED
    BY <1>8, <2>1, <2>2, <2>3 DEF CreateScheduleJob, TypeOK, rowVars, workerVars
<1>9. ASSUME NEW j \in Jobs, PublishScheduleJob(j)
      PROVE  TypeOK'
  BY <1>9
  DEF PublishScheduleJob, TypeOK, dbVars, rowVars, apiVars, workerVars,
      HandlerStage
<1>10. ASSUME NEW j \in Jobs, PublishFails(j)
      PROVE  TypeOK'
  BY <1>10
  DEF PublishFails, TypeOK, dbVars, rowVars, apiVars, workerVars,
      HandlerStage
<1>11. ASSUME NEW j \in Jobs, DeleteCreateAudit(j)
      PROVE  TypeOK'
  BY <1>11
  DEF DeleteCreateAudit, TypeOK, dbVars, rowVars, apiVars, workerVars,
      HandlerStage
<1>12. ASSUME NEW j \in Jobs, DeleteQueuedRow(j)
      PROVE  TypeOK'
  BY <1>12
  DEF DeleteQueuedRow, TypeOK, dbVars, rowVars, apiVars, workerVars,
      JobStatus, HandlerStage
<1>13. ASSUME NEW w \in MessageLoops, NEW j \in Jobs, FetchMessage(w, j)
      PROVE  TypeOK'
  BY <1>13, Taken
  DEF FetchMessage, TypeOK, dbVars, rowVars, apiVars, workerVars, Threads
<1>14. ASSUME NEW w \in BackfillLoops, NEW j \in Jobs,
             ProcessBackfillJob(w, j)
      PROVE  TypeOK'
  BY <1>14, Taken
  DEF ProcessBackfillJob, TypeOK, dbVars, rowVars, apiVars, workerVars,
      Threads
<1>15. ASSUME NEW w \in BackfillLoops, QueryQueuedJobBatch(w)
      PROVE  TypeOK'
  BY <1>15
  DEF QueryQueuedJobBatch, TypeOK, dbVars, rowVars, apiVars, workerVars
<1>16. ASSUME NEW w \in Threads, AcquireLineLock(w)
      PROVE  TypeOK'
  BY <1>16, Moved
  DEF AcquireLineLock, TypeOK, dbVars, rowVars, apiVars, workerVars, Pcs
<1>17. ASSUME NEW w \in Threads, NEW ok \in BOOLEAN, AcquireTimeout(w, ok)
      PROVE  TypeOK'
  BY <1>17, Done
  DEF AcquireTimeout, TypeOK, dbVars, rowVars, apiVars, workerVars,
      Acknowledge
<1>18. ASSUME NEW w \in Threads, JobAlreadySettled(w)
      PROVE  TypeOK'
  <2>1. thread' = [thread EXCEPT ![w].pc = "release", ![w].ok = TRUE]
    BY <1>18 DEF JobAlreadySettled
  <2>2. thread' \in [Threads -> ThreadState]
    BY <2>1, Released
  <2>q. QED
    BY <1>18, <2>2 DEF JobAlreadySettled, TypeOK, dbVars, rowVars, apiVars
<1>19. ASSUME NEW w \in Threads, MarkRunning(w)
      PROVE  TypeOK'
  BY <1>19, Moved
  DEF MarkRunning, TypeOK, dbVars, rowVars, apiVars, workerVars, Pcs
<1>20. ASSUME NEW w \in Threads, LoadPreviewAllocations(w)
      PROVE  TypeOK'
  BY <1>20, Moved
  DEF LoadPreviewAllocations, TypeOK, dbVars, rowVars, apiVars, workerVars,
      Pcs
<1>21. ASSUME NEW w \in Threads, ValidatePreviewRevision(w)
      PROVE  TypeOK'
  BY <1>21, Moved
  DEF ValidatePreviewRevision, TypeOK, dbVars, rowVars, apiVars,
      workerVars, Pcs
<1>22. ASSUME NEW w \in Threads, MarkCompleted(w)
      PROVE  TypeOK'
  <2>1. /\ thread[w].job \in Jobs
        /\ request[thread[w].job].preview \in Previews
        /\ request[thread[w].job].line \in Lines
        /\ revision[request[thread[w].job].line] \in Nat
    BY <1>22, ThreadsHaveRows DEF MarkCompleted, TypeOK
  <2>2. /\ thread' \in [Threads -> ThreadState]
        /\ jobRow' \in [Jobs -> Threads \cup {"free"}]
        /\ lineRow' \in [Lines -> Threads \cup {"free"}]
    BY <1>22, Ended DEF MarkCompleted
  <2>3. previews' \in [Previews -> PreviewRow]
    BY <1>22, <2>1, Gone DEF MarkCompleted
  <2> DEFINE j == thread[w].job
             p == request[j].preview
             l == request[j].line
             x == [job |-> j, preview |-> p, line |-> l, revision |-> revision[l]]
  <2>4. /\ status' = [status EXCEPT ![j] = "completed"]
        /\ attempts' = [attempts EXCEPT ![j] = @ + 1]
        /\ audit' = WorkerAudit(j, "complete")
        /\ revision' = revision \/ revision' = [revision EXCEPT ![l] = @ + 1]
        /\ applied' = applied \/ applied' = applied \cup {x}
    BY <1>22 DEF MarkCompleted
  <2>5. x \in Application
    BY <2>1 DEF Application
  <2>6. j \in Jobs /\ l \in Lines
    BY <2>1
  <2> HIDE DEF x, l, p, j
  <2>7. status' \in [Jobs -> JobStatus] /\ attempts' \in [Jobs -> Nat]
    BY <2>4, <2>6 DEF TypeOK, JobStatus
  <2>8. audit' \subseteq AuditRow
    BY <2>4, <2>6 DEF TypeOK, WorkerAudit, AuditRow
  <2>9. revision' \in [Lines -> Nat] /\ applied' \subseteq Application
    BY <2>4, <2>5, <2>6 DEF TypeOK
  <2>q. QED
    BY <1>22, <2>2, <2>3, <2>7, <2>8, <2>9 DEF MarkCompleted, TypeOK, apiVars
<1>23. ASSUME NEW w \in Threads, PreviewGone(w)
      PROVE  TypeOK'
  BY <1>23, Failed DEF PreviewGone, InTransaction
<1>24. ASSUME NEW w \in Threads, PreviewStale(w)
      PROVE  TypeOK'
  BY <1>24, Failed DEF PreviewStale, InTransaction
<1>25. ASSUME NEW w \in Threads, MarkRetryAfterRun(w)
      PROVE  TypeOK'
  <2>1. /\ thread' \in [Threads -> ThreadState]
        /\ jobRow' \in [Jobs -> Threads \cup {"free"}]
        /\ lineRow' \in [Lines -> Threads \cup {"free"}]
    BY <1>25, Ended DEF MarkRetryAfterRun, Undecodable
  <2>2. attempts' \in [Jobs -> Nat]
    BY <1>25, ThreadsHaveRows DEF MarkRetryAfterRun, Undecodable, TypeOK, InTransaction
  <2>q. QED
    BY <1>25, <2>1, <2>2 DEF MarkRetryAfterRun, Undecodable, TypeOK, apiVars
<1>26. ASSUME NEW w \in Threads, RetriesExhausted(w)
      PROVE  TypeOK'
  BY <1>26, Failed DEF RetriesExhausted, Undecodable, InTransaction
<1>27. ASSUME NEW w \in Threads, RollbackTx(w)
      PROVE  TypeOK'
  BY <1>27, Ended
  DEF RollbackTx, TypeOK, dbVars, rowVars, apiVars, workerVars
<1>28. ASSUME NEW w \in Threads, Release(w)
      PROVE  TypeOK'
  <2>1. thread' \in [Threads -> ThreadState] /\ kafka' \subseteq Jobs
    BY <1>28, Done DEF Release, Acknowledge, TypeOK
  <2>2. lock' \in [Lines -> Threads \cup {"free", "orphan"}]
    <3>1. PICK left \in {"free", "orphan"} :
             lock' = [lock EXCEPT ![LineOf(w)] = IF @ = w THEN left ELSE @]
      BY <1>28 DEF Release
    <3>q. QED
      BY <3>1 DEF TypeOK
  <2>q. QED
    BY <1>28, <2>1, <2>2 DEF Release, TypeOK, dbVars, rowVars, apiVars
<1>29. ASSUME NEW w \in Threads, WorkerCrash(w)
      PROVE  TypeOK'
  <2>1. thread' \in [Threads -> ThreadState]
    BY <1>29, Done DEF WorkerCrash
  <2>2. /\ jobRow' \in [Jobs -> Threads \cup {"free"}]
        /\ lineRow' \in [Lines -> Threads \cup {"free"}]
        /\ lock' \in [Lines -> Threads \cup {"free", "orphan"}]
        /\ batch' \in [BackfillLoops -> SUBSET Jobs]
    BY <1>29 DEF WorkerCrash, TypeOK
  <2>3. crashes' \in 0..MaxCrashes
    BY <1>29, BoundsAssumption DEF WorkerCrash, TypeOK
  <2>q. QED
    BY <1>29, <2>1, <2>2, <2>3 DEF WorkerCrash, TypeOK, dbVars, apiVars
<1>30. ASSUME NEW l \in Lines, LockExpires(l)
      PROVE  TypeOK'
  BY <1>30
  DEF LockExpires, TypeOK, dbVars, rowVars, apiVars, workerVars
<1>31. ASSUME NEW j \in Jobs, LoseMessage(j)
      PROVE  TypeOK'
  BY <1>31
  DEF LoseMessage, TypeOK, dbVars, rowVars, apiVars, workerVars
<1>33. ASSUME NEW a \in Apis, NEW l \in Lines, ProductionLine(a, l)
      PROVE  TypeOK'
  BY <1>33
  DEF ProductionLine, TypeOK, dbVars, rowVars, workerVars
<1>32. CASE UNCHANGED vars
  BY <1>32 DEF TypeOK, vars, dbVars, rowVars, apiVars, workerVars
<1>q. QED
  BY <1>1, <1>2, <1>3, <1>4, <1>5, <1>6, <1>7, <1>8, <1>9, <1>10, <1>11,
     <1>12, <1>13, <1>14, <1>15, <1>16, <1>17, <1>18, <1>19, <1>20, <1>21,
     <1>22, <1>23, <1>24, <1>25, <1>26, <1>27, <1>28, <1>29, <1>30, <1>31,
     <1>32, <1>33
  DEF Next, ApiNext, PreviewNext, WorkerNext, EnvironmentNext, TakeJob,
      Transact, Threads

\* The steps that write preview rows.
LEMMA PreviewWriters ==
  ASSUME [Next]_vars
  PROVE  \/ UNCHANGED previews
         \/ \E a \in Apis, p \in Previews, l \in Lines : PreviewReadLine(a, p, l)
         \/ \E p \in Previews : PreviewReadOrders(p)
         \/ \E p \in Previews, empty \in BOOLEAN : PreviewSave(p, empty)
         \/ \E p \in Previews : PreviewExpires(p)
         \/ \E a \in Apis : ApiCrash(a)
         \/ \E w \in Threads : MarkCompleted(w)
<1> DEFINE Goal == \/ UNCHANGED previews
                   \/ \E a \in Apis, p \in Previews, l \in Lines : PreviewReadLine(a, p, l)
                   \/ \E p \in Previews : PreviewReadOrders(p)
                   \/ \E p \in Previews, empty \in BOOLEAN : PreviewSave(p, empty)
                   \/ \E p \in Previews : PreviewExpires(p)
                   \/ \E a \in Apis : ApiCrash(a)
                   \/ \E w \in Threads : MarkCompleted(w)
<1>1. CASE ApiNext
  BY <1>1 DEF ApiNext, PreviewNext, EnsurePreviewLoaded, ProductionLine, BumpRevision,
         CreateScheduleJob, PublishScheduleJob, PublishFails, DeleteCreateAudit,
         DeleteQueuedRow, dbVars
<1>2. ASSUME NEW w \in Threads, Transact(w)
      PROVE  Goal
  BY <1>2 DEF Transact, JobAlreadySettled, MarkRunning, LoadPreviewAllocations,
         ValidatePreviewRevision, PreviewGone, PreviewStale, MarkFailedAfterRun,
         dbVars
<1>3. CASE WorkerNext
  BY <1>2, <1>3 DEF WorkerNext, TakeJob, FetchMessage, QueryQueuedJobBatch,
         ProcessBackfillJob, AcquireLineLock, AcquireTimeout, MarkRetryAfterRun,
         Undecodable, RetriesExhausted, RollbackTx, Release, WorkerCrash, MarkFailedAfterRun,
         dbVars
<1>4. CASE EnvironmentNext
  BY <1>4 DEF EnvironmentNext, LockExpires, LoseMessage, dbVars
<1>5. CASE UNCHANGED vars
  BY <1>5 DEF vars, dbVars
<1>q. QED
  BY <1>1, <1>3, <1>4, <1>5 DEF Next

\* The steps that write job rows.
LEMMA JobWriters ==
  ASSUME [Next]_vars
  PROVE  \/ UNCHANGED <<status, request>>
         \/ \E a \in Apis, p \in Previews, j \in Jobs : CreateScheduleJob(a, p, j)
         \/ \E j \in Jobs : DeleteQueuedRow(j)
         \/ \E w \in Threads : MarkCompleted(w)
         \/ \E w \in Threads : thread[w].pc \in InTransaction /\ MarkFailedAfterRun(w)
<1> DEFINE Goal == \/ UNCHANGED <<status, request>>
                   \/ \E a \in Apis, p \in Previews, j \in Jobs : CreateScheduleJob(a, p, j)
                   \/ \E j \in Jobs : DeleteQueuedRow(j)
                   \/ \E w \in Threads : MarkCompleted(w)
                   \/ \E w \in Threads : thread[w].pc \in InTransaction /\ MarkFailedAfterRun(w)
<1>0. CASE PreviewNext
  BY <1>0 DEF PreviewNext, PreviewReadLine, PreviewReadOrders, PreviewSave,
         PreviewExpires, EnsurePreviewLoaded, dbVars
<1>1. CASE ApiNext
  BY <1>0, <1>1 DEF ApiNext, ProductionLine, BumpRevision, ApiCrash, PublishScheduleJob,
         PublishFails, DeleteCreateAudit, dbVars
<1>2. ASSUME NEW w \in Threads, Transact(w)
      PROVE  Goal
  BY <1>2 DEF Transact, JobAlreadySettled, MarkRunning, LoadPreviewAllocations,
         ValidatePreviewRevision, PreviewGone, PreviewStale, InTransaction,
         dbVars
<1>3. CASE WorkerNext
  BY <1>2, <1>3 DEF WorkerNext, TakeJob, FetchMessage, QueryQueuedJobBatch,
         ProcessBackfillJob, AcquireLineLock, AcquireTimeout, MarkRetryAfterRun,
         Undecodable, RetriesExhausted, RollbackTx, Release, WorkerCrash, InTransaction,
         dbVars
<1>4. CASE EnvironmentNext
  BY <1>4 DEF EnvironmentNext, LockExpires, LoseMessage, dbVars
<1>5. CASE UNCHANGED vars
  BY <1>5 DEF vars, dbVars
<1>q. QED
  BY <1>1, <1>3, <1>4, <1>5 DEF Next

\* The steps that write a replica's cache of previews.
LEMMA CacheWriters ==
  ASSUME [Next]_vars
  PROVE  \/ UNCHANGED cachedPreviews
         \/ \E p \in Previews, empty \in BOOLEAN : PreviewSave(p, empty)
         \/ \E a \in Apis, p \in Previews : EnsurePreviewLoaded(a, p)
         \/ \E a \in Apis : ApiCrash(a)
<1> DEFINE Goal == \/ UNCHANGED cachedPreviews
                   \/ \E p \in Previews, empty \in BOOLEAN : PreviewSave(p, empty)
                   \/ \E a \in Apis, p \in Previews : EnsurePreviewLoaded(a, p)
                   \/ \E a \in Apis : ApiCrash(a)
<1>0. CASE PreviewNext
  BY <1>0 DEF PreviewNext, PreviewReadLine, PreviewReadOrders, PreviewExpires,
         apiVars
<1>1. CASE ApiNext
  BY <1>0, <1>1 DEF ApiNext, ProductionLine, BumpRevision, CreateScheduleJob,
         PublishScheduleJob, PublishFails, DeleteCreateAudit, DeleteQueuedRow,
         apiVars
<1>2. ASSUME NEW w \in Threads, Transact(w)
      PROVE  Goal
  BY <1>2 DEF Transact, JobAlreadySettled, MarkRunning, LoadPreviewAllocations,
         ValidatePreviewRevision, MarkCompleted, PreviewGone, PreviewStale,
         MarkFailedAfterRun, apiVars
<1>3. CASE WorkerNext
  BY <1>2, <1>3 DEF WorkerNext, TakeJob, FetchMessage, QueryQueuedJobBatch,
         ProcessBackfillJob, AcquireLineLock, AcquireTimeout, MarkRetryAfterRun,
         Undecodable, RetriesExhausted, RollbackTx, Release, WorkerCrash, MarkFailedAfterRun,
         apiVars
<1>4. CASE EnvironmentNext
  BY <1>4 DEF EnvironmentNext, LockExpires, LoseMessage, apiVars
<1>5. CASE UNCHANGED vars
  BY <1>5 DEF vars, apiVars
<1>q. QED
  BY <1>1, <1>3, <1>4, <1>5 DEF Next

\* A saved preview keeps its columns for ever.
SameRow(p) ==
    /\ previews'[p].stage \in Known
    /\ previews'[p].line = previews[p].line
    /\ previews'[p].revision = previews[p].revision
    /\ previews'[p].ordersAt = previews[p].ordersAt
    /\ previews'[p].allocsAt = previews[p].allocsAt
    /\ previews'[p].empty = previews[p].empty

\* Every step keeps the columns of saved previews, and a preview's line exists.
LEMMA PreviewStep ==
  ASSUME References, [Next]_vars
  PROVE  /\ PreviewsHaveLines'
         /\ \A p \in Previews : previews[p].stage \in Known => SameRow(p)
<1> DEFINE Goal == /\ PreviewsHaveLines'
                   /\ \A p \in Previews : previews[p].stage \in Known => SameRow(p)
<1>0. TypeOK /\ PreviewsHaveLines
  BY DEF References
<1>1. ASSUME NEW a \in Apis, NEW p \in Previews, NEW l \in Lines,
             PreviewReadLine(a, p, l)
      PROVE  Goal
  <2>1. previews[p].stage = "none"
    BY <1>1 DEF PreviewReadLine
  <2>2. /\ previews'[p].line = l
        /\ \A q \in Previews : q # p => previews'[q] = previews[q]
    BY <1>0, <1>1, LineRead
  <2>q. QED
    BY <1>0, <2>1, <2>2 DEF PreviewsHaveLines, SameRow, Known
<1>2. ASSUME NEW p \in Previews, PreviewReadOrders(p)
      PROVE  Goal
  <2>1. previews[p].stage = "line" /\ previews[p].line \in Lines
    BY <1>0, <1>2 DEF PreviewReadOrders, PreviewsHaveLines
  <2>q. QED
    BY <1>0, <1>2, <2>1, OrdersRead DEF PreviewsHaveLines, SameRow, Known
<1>3. ASSUME NEW p \in Previews, NEW empty \in BOOLEAN, PreviewSave(p, empty)
      PROVE  Goal
  <2>1. previews[p].stage = "orders" /\ previews[p].line \in Lines
    BY <1>0, <1>3 DEF PreviewSave, PreviewsHaveLines
  <2>q. QED
    BY <1>0, <1>3, <2>1, Saved DEF PreviewsHaveLines, SameRow, Known
<1>4. ASSUME NEW p \in Previews, PreviewExpires(p)
      PROVE  Goal
  <2>1. previews[p].stage = "open" /\ previews' = [previews EXCEPT ![p].stage = "gone"]
    BY <1>4 DEF PreviewExpires
  <2>q. QED
    BY <1>0, <2>1, Gone DEF PreviewsHaveLines, SameRow, Known
<1>5. ASSUME NEW a \in Apis, ApiCrash(a)
      PROVE  Goal
  BY <1>0, <1>5, ReplicaLost DEF PreviewsHaveLines, SameRow, Known
<1>6. ASSUME NEW w \in Threads, MarkCompleted(w)
      PROVE  Goal
  <2> DEFINE p == request[thread[w].job].preview
  <2>1. thread[w].pc = "validated" /\ previews' = [previews EXCEPT ![p].stage = "gone"]
    BY <1>6 DEF MarkCompleted
  <2>2. p \in Previews /\ previews[p].stage \in Known
    BY <2>1, ThreadsHaveRows DEF References, JobsHavePreviews
  <2> HIDE DEF p
  <2>q. QED
    BY <1>0, <2>1, <2>2, Gone DEF PreviewsHaveLines, SameRow, Known
<1>7. CASE UNCHANGED previews
  BY <1>0, <1>7 DEF PreviewsHaveLines, SameRow, Known
<1>q. QED
  BY <1>1, <1>2, <1>3, <1>4, <1>5, <1>6, <1>7, PreviewWriters

\* A job row appears with CreateScheduleJob and never changes its request.
LEMMA JobStep ==
  ASSUME References, [Next]_vars
  PROVE  \A j \in Jobs :
            /\ status[j] # "none" => status'[j] # "none" /\ request'[j] = request[j]
            /\ status[j] = "none" /\ status'[j] # "none" =>
                  \E a \in Apis, p \in Previews : CreateScheduleJob(a, p, j)
<1> DEFINE Goal == \A j \in Jobs :
            /\ status[j] # "none" => status'[j] # "none" /\ request'[j] = request[j]
            /\ status[j] = "none" /\ status'[j] # "none" =>
                  \E a \in Apis, p \in Previews : CreateScheduleJob(a, p, j)
<1>0. TypeOK
  BY DEF References
<1>1. ASSUME NEW a \in Apis, NEW p \in Previews, NEW j \in Jobs,
             CreateScheduleJob(a, p, j)
      PROVE  Goal
  <2>1. \A i \in Jobs : i # j => status'[i] = status[i] /\ request'[i] = request[i]
    BY <1>0, <1>1 DEF CreateScheduleJob, TypeOK
  <2>2. status[j] = "none"
    BY <1>1 DEF CreateScheduleJob
  <2>q. QED
    BY <1>1, <2>1, <2>2
<1>2. ASSUME NEW j \in Jobs, DeleteQueuedRow(j)
      PROVE  Goal
  BY <1>0, <1>2 DEF DeleteQueuedRow, TypeOK
<1>3. ASSUME NEW w \in Threads, MarkCompleted(w)
      PROVE  Goal
  <2>1. status[thread[w].job] # "none"
    BY <1>3, ThreadsHaveRows DEF MarkCompleted
  <2>q. QED
    BY <1>0, <1>3, <2>1 DEF MarkCompleted, TypeOK
<1>4. ASSUME NEW w \in Threads, thread[w].pc \in InTransaction, MarkFailedAfterRun(w)
      PROVE  Goal
  <2>1. status[thread[w].job] # "none"
    BY <1>4, ThreadsHaveRows DEF InTransaction
  <2>q. QED
    BY <1>0, <1>4, <2>1 DEF MarkFailedAfterRun, TypeOK
<1>5. CASE UNCHANGED <<status, request>>
  BY <1>5
<1>q. QED
  BY <1>1, <1>2, <1>3, <1>4, <1>5, JobWriters, Zenon

\* A thread that keeps its job keeps work on job rows.
LEMMA ThreadKeepsJob ==
  ASSUME TypeOK, WorkIsOnJobs, NEW w \in Threads, thread[w].pc # "idle",
         thread'[w].job = thread[w].job,
         \A v \in Threads : v # w => thread'[v] = thread[v],
         \A j \in Jobs : status[j] # "none" => status'[j] # "none",
         UNCHANGED <<kafka, batch, handler>>
  PROVE  WorkIsOnJobs'
  BY DEF WorkIsOnJobs, TypeOK

\* A thread that becomes idle leaves less work behind.
LEMMA ThreadRests ==
  ASSUME TypeOK, WorkIsOnJobs, NEW w \in Threads, thread'[w].pc = "idle",
         \A v \in Threads : v # w => thread'[v] = thread[v],
         \A j \in Jobs : status[j] # "none" => status'[j] # "none",
         kafka' \subseteq kafka, UNCHANGED handler,
         \A v \in BackfillLoops : batch'[v] \subseteq batch[v]
  PROVE  WorkIsOnJobs'
  BY DEF WorkIsOnJobs, TypeOK

\* Messages, backfill rows, handlers and threads only ever refer to job rows.
LEMMA WorkStep ==
  ASSUME References, [Next]_vars
  PROVE  WorkIsOnJobs'
<1>0. /\ TypeOK
      /\ WorkIsOnJobs
      /\ kafka \subseteq Jobs /\ handler \in [Jobs -> HandlerStage]
      /\ batch \in [BackfillLoops -> SUBSET Jobs]
      /\ \A j \in Jobs : status[j] # "none" => status'[j] # "none"
  BY JobStep DEF References, TypeOK
<1> USE <1>0
<1>1. ASSUME NEW a \in Apis, NEW p \in Previews, NEW l \in Lines,
             PreviewReadLine(a, p, l)
      PROVE  WorkIsOnJobs'
  BY <1>1
  DEF PreviewReadLine, WorkIsOnJobs, workerVars, apiVars
<1>2. ASSUME NEW a \in Apis, NEW p \in Previews, EnsurePreviewLoaded(a, p)
      PROVE  WorkIsOnJobs'
  BY <1>2
  DEF EnsurePreviewLoaded, WorkIsOnJobs, workerVars, apiVars
<1>3. ASSUME NEW p \in Previews, PreviewReadOrders(p)
      PROVE  WorkIsOnJobs'
  BY <1>3
  DEF PreviewReadOrders, WorkIsOnJobs, workerVars, apiVars
<1>4. ASSUME NEW p \in Previews, NEW empty \in BOOLEAN, PreviewSave(p, empty)
      PROVE  WorkIsOnJobs'
  BY <1>4
  DEF PreviewSave, WorkIsOnJobs, workerVars, apiVars
<1>5. ASSUME NEW p \in Previews, PreviewExpires(p)
      PROVE  WorkIsOnJobs'
  BY <1>5
  DEF PreviewExpires, WorkIsOnJobs, workerVars, apiVars
<1>6. ASSUME NEW l \in Lines, BumpRevision(l)
      PROVE  WorkIsOnJobs'
  BY <1>6
  DEF BumpRevision, WorkIsOnJobs, workerVars, apiVars
<1>7. ASSUME NEW a \in Apis, ApiCrash(a)
      PROVE  WorkIsOnJobs'
  BY <1>7, ReplicaLost
  DEF ApiCrash, WorkIsOnJobs, workerVars
<1>8. ASSUME NEW a \in Apis, NEW p \in Previews, NEW j \in Jobs,
             CreateScheduleJob(a, p, j)
      PROVE  WorkIsOnJobs'
  BY <1>8
  DEF CreateScheduleJob, WorkIsOnJobs, TypeOK, workerVars
<1>9. ASSUME NEW j \in Jobs, PublishScheduleJob(j)
      PROVE  WorkIsOnJobs'
  BY <1>9
  DEF PublishScheduleJob, WorkIsOnJobs, workerVars, apiVars
<1>10. ASSUME NEW j \in Jobs, PublishFails(j)
      PROVE  WorkIsOnJobs'
  BY <1>10
  DEF PublishFails, WorkIsOnJobs, workerVars, apiVars
<1>11. ASSUME NEW j \in Jobs, DeleteCreateAudit(j)
      PROVE  WorkIsOnJobs'
  BY <1>11
  DEF DeleteCreateAudit, WorkIsOnJobs, workerVars, apiVars
<1>12. ASSUME NEW j \in Jobs, DeleteQueuedRow(j)
      PROVE  WorkIsOnJobs'
  BY <1>12
  DEF DeleteQueuedRow, WorkIsOnJobs, workerVars, apiVars
<1>13. ASSUME NEW w \in MessageLoops, NEW j \in Jobs, FetchMessage(w, j)
      PROVE  WorkIsOnJobs'
  <2>1. /\ thread' = [thread EXCEPT ![w] = [Idle EXCEPT !.pc = "locking", !.job = j]]
        /\ UNCHANGED <<kafka, batch, handler>>
        /\ w \in Threads /\ status'[j] # "none"
    BY <1>13 DEF FetchMessage, apiVars, Threads, WorkIsOnJobs
  <2>2. /\ thread'[w].job = j
        /\ \A v \in Threads : v # w => thread'[v] = thread[v]
    BY <2>1, Taken
  <2>q. QED
    BY <2>1, <2>2 DEF WorkIsOnJobs
<1>14. ASSUME NEW w \in BackfillLoops, NEW j \in Jobs,
             ProcessBackfillJob(w, j)
      PROVE  WorkIsOnJobs'
  <2>1. /\ thread' = [thread EXCEPT ![w] = [Idle EXCEPT !.pc = "locking", !.job = j]]
        /\ batch' = [batch EXCEPT ![w] = batch[w] \ {j}]
        /\ UNCHANGED <<kafka, handler>>
        /\ w \in Threads /\ status'[j] # "none"
    BY <1>14 DEF ProcessBackfillJob, apiVars, Threads, WorkIsOnJobs
  <2>2. /\ thread'[w].job = j
        /\ \A v \in Threads : v # w => thread'[v] = thread[v]
    BY <2>1, Taken
  <2>3. \A v \in BackfillLoops : batch'[v] \subseteq batch[v]
    BY <2>1
  <2>q. QED
    BY <2>1, <2>2, <2>3 DEF WorkIsOnJobs
<1>15. ASSUME NEW w \in BackfillLoops, QueryQueuedJobBatch(w)
      PROVE  WorkIsOnJobs'
  BY <1>15
  DEF QueryQueuedJobBatch, WorkIsOnJobs, apiVars
<1>16. ASSUME NEW w \in Threads, AcquireLineLock(w)
      PROVE  WorkIsOnJobs'
  <2>1. /\ thread[w].pc # "idle" /\ thread' = [thread EXCEPT ![w].pc = "begin"]
        /\ UNCHANGED <<kafka, batch, handler>>
    BY <1>16 DEF AcquireLineLock, apiVars
  <2>q. QED
    BY <2>1, Moved, ThreadKeepsJob DEF Pcs
<1>17. ASSUME NEW w \in Threads, NEW ok \in BOOLEAN, AcquireTimeout(w, ok)
      PROVE  WorkIsOnJobs'
  <2>1. /\ thread' = [thread EXCEPT ![w] = Idle]
        /\ kafka' \subseteq kafka /\ UNCHANGED <<batch, handler>>
    BY <1>17 DEF AcquireTimeout, Acknowledge, apiVars
  <2>q. QED
    BY <2>1, Done, ThreadRests
<1>18. ASSUME NEW w \in Threads, JobAlreadySettled(w)
      PROVE  WorkIsOnJobs'
  <2>1. /\ thread[w].pc = "begin"
        /\ thread' = [thread EXCEPT ![w].pc = "release", ![w].ok = TRUE]
        /\ UNCHANGED <<kafka, batch, handler>>
    BY <1>18 DEF JobAlreadySettled, apiVars
  <2>q. QED
    BY <2>1, Released, ThreadKeepsJob
<1>19. ASSUME NEW w \in Threads, MarkRunning(w)
      PROVE  WorkIsOnJobs'
  <2>1. /\ thread[w].pc # "idle" /\ thread' = [thread EXCEPT ![w].pc = "running"]
        /\ UNCHANGED <<kafka, batch, handler>>
    BY <1>19 DEF MarkRunning, apiVars
  <2>q. QED
    BY <2>1, Moved, ThreadKeepsJob DEF Pcs
<1>20. ASSUME NEW w \in Threads, LoadPreviewAllocations(w)
      PROVE  WorkIsOnJobs'
  <2>1. /\ thread[w].pc # "idle" /\ thread' = [thread EXCEPT ![w].pc = "loaded"]
        /\ UNCHANGED <<kafka, batch, handler>>
    BY <1>20 DEF LoadPreviewAllocations, apiVars
  <2>q. QED
    BY <2>1, Moved, ThreadKeepsJob DEF Pcs
<1>21. ASSUME NEW w \in Threads, ValidatePreviewRevision(w)
      PROVE  WorkIsOnJobs'
  <2>1. /\ thread[w].pc # "idle" /\ thread' = [thread EXCEPT ![w].pc = "validated"]
        /\ UNCHANGED <<kafka, batch, handler>>
    BY <1>21 DEF ValidatePreviewRevision, apiVars
  <2>q. QED
    BY <2>1, Moved, ThreadKeepsJob DEF Pcs
<1>22. ASSUME NEW w \in Threads, MarkCompleted(w)
      PROVE  WorkIsOnJobs'
  <2>1. /\ thread[w].pc # "idle" /\ EndTransaction(w, TRUE)
        /\ UNCHANGED <<kafka, batch, handler>>
    BY <1>22 DEF MarkCompleted, apiVars
  <2>q. QED
    BY <2>1, Ended, ThreadKeepsJob
<1>23. ASSUME NEW w \in Threads, PreviewGone(w)
      PROVE  WorkIsOnJobs'
  <2>1. /\ thread[w].pc # "idle" /\ EndTransaction(w, TRUE)
        /\ UNCHANGED <<kafka, batch, handler>>
    BY <1>23 DEF PreviewGone, MarkFailedAfterRun, apiVars
  <2>q. QED
    BY <2>1, Ended, ThreadKeepsJob
<1>24. ASSUME NEW w \in Threads, PreviewStale(w)
      PROVE  WorkIsOnJobs'
  <2>1. /\ thread[w].pc # "idle" /\ EndTransaction(w, TRUE)
        /\ UNCHANGED <<kafka, batch, handler>>
    BY <1>24 DEF PreviewStale, MarkFailedAfterRun, apiVars
  <2>q. QED
    BY <2>1, Ended, ThreadKeepsJob
<1>25. ASSUME NEW w \in Threads, MarkRetryAfterRun(w)
      PROVE  WorkIsOnJobs'
  <2>1. /\ thread[w].pc # "idle" /\ EndTransaction(w, FALSE)
        /\ UNCHANGED <<kafka, batch, handler>>
    BY <1>25 DEF MarkRetryAfterRun, Undecodable, InTransaction, apiVars
  <2>q. QED
    BY <2>1, Ended, ThreadKeepsJob
<1>26. ASSUME NEW w \in Threads, RetriesExhausted(w)
      PROVE  WorkIsOnJobs'
  <2>1. /\ thread[w].pc # "idle" /\ EndTransaction(w, TRUE)
        /\ UNCHANGED <<kafka, batch, handler>>
    BY <1>26 DEF RetriesExhausted, Undecodable, InTransaction, MarkFailedAfterRun, apiVars
  <2>q. QED
    BY <2>1, Ended, ThreadKeepsJob
<1>27. ASSUME NEW w \in Threads, RollbackTx(w)
      PROVE  WorkIsOnJobs'
  <2>1. /\ thread[w].pc # "idle" /\ EndTransaction(w, FALSE)
        /\ UNCHANGED <<kafka, batch, handler>>
    BY <1>27 DEF RollbackTx, InTransaction, apiVars
  <2>q. QED
    BY <2>1, Ended, ThreadKeepsJob
<1>28. ASSUME NEW w \in Threads, Release(w)
      PROVE  WorkIsOnJobs'
  <2>1. /\ thread' = [thread EXCEPT ![w] = Idle]
        /\ kafka' \subseteq kafka /\ UNCHANGED <<batch, handler>>
    BY <1>28 DEF Release, Acknowledge, apiVars
  <2>q. QED
    BY <2>1, Done, ThreadRests
<1>29. ASSUME NEW w \in Threads, WorkerCrash(w)
      PROVE  WorkIsOnJobs'
  <2>1. /\ thread' = [thread EXCEPT ![w] = Idle]
        /\ UNCHANGED <<kafka, handler>>
        /\ \A v \in BackfillLoops : batch'[v] \subseteq batch[v]
    BY <1>29 DEF WorkerCrash, apiVars
  <2>q. QED
    BY <2>1, Done, ThreadRests
<1>30. ASSUME NEW l \in Lines, LockExpires(l)
      PROVE  WorkIsOnJobs'
  BY <1>30
  DEF LockExpires, WorkIsOnJobs, workerVars, apiVars
<1>31. ASSUME NEW j \in Jobs, LoseMessage(j)
      PROVE  WorkIsOnJobs'
  BY <1>31
  DEF LoseMessage, WorkIsOnJobs, workerVars, apiVars
<1>33. ASSUME NEW a \in Apis, NEW l \in Lines, ProductionLine(a, l)
      PROVE  WorkIsOnJobs'
  BY <1>33
  DEF ProductionLine, WorkIsOnJobs, workerVars, dbVars
<1>32. CASE UNCHANGED vars
  BY <1>32 DEF vars, WorkIsOnJobs, apiVars, workerVars
<1>q. QED
  BY <1>1, <1>2, <1>3, <1>4, <1>5, <1>6, <1>7, <1>8, <1>9, <1>10, <1>11,
     <1>12, <1>13, <1>14, <1>15, <1>16, <1>17, <1>18, <1>19, <1>20, <1>21,
     <1>22, <1>23, <1>24, <1>25, <1>26, <1>27, <1>28, <1>29, <1>30, <1>31,
     <1>32, <1>33
  DEF Next, ApiNext, PreviewNext, WorkerNext, EnvironmentNext, TakeJob,
      Transact, Threads

\* Every step keeps the references.
LEMMA ReferencesStep ==
  ASSUME References, [Next]_vars
  PROVE  References'
<1>0. TypeOK /\ TypeOK' /\ PreviewsHaveLines'
  BY TypeStep, PreviewStep DEF References
<1>1. CachesHoldSavedPreviews'
  <2>0. CachesHoldSavedPreviews
    BY DEF References
  <2>1. ASSUME NEW p \in Previews, NEW empty \in BOOLEAN, PreviewSave(p, empty)
        PROVE  CachesHoldSavedPreviews'
    <3>1. previews[p].stage = "orders" /\ previews[p].line \in Lines
      BY <2>1 DEF PreviewSave, References, PreviewsHaveLines
    <3>2. \A a \in Apis : cachedPreviews'[a] \subseteq cachedPreviews[a] \cup {p}
      BY <1>0, <2>1 DEF PreviewSave, TypeOK
    <3>3. previews'[p].stage = "open"
      BY <1>0, <2>1, <3>1, Saved
    <3>q. QED
      BY <1>0, <2>0, <3>2, <3>3, PreviewStep DEF CachesHoldSavedPreviews, SameRow, Known, TypeOK
  <2>2. ASSUME NEW a \in Apis, NEW p \in Previews, EnsurePreviewLoaded(a, p)
        PROVE  CachesHoldSavedPreviews'
    BY <1>0, <2>0, <2>2
    DEF EnsurePreviewLoaded, CachesHoldSavedPreviews, Known, TypeOK, dbVars
  <2>3. ASSUME NEW a \in Apis, ApiCrash(a)
        PROVE  CachesHoldSavedPreviews'
    <3>1. \A b \in Apis : cachedPreviews'[b] \subseteq cachedPreviews[b]
      BY <1>0, <2>3, ReplicaLost
    <3>q. QED
      BY <1>0, <2>0, <3>1, PreviewStep DEF CachesHoldSavedPreviews, SameRow, TypeOK
  <2>4. CASE UNCHANGED cachedPreviews
    BY <1>0, <2>0, <2>4, PreviewStep DEF CachesHoldSavedPreviews, SameRow, TypeOK
  <2>q. QED
    BY <2>1, <2>2, <2>3, <2>4, CacheWriters
<1>2. JobsHavePreviews'
  <2>1. ASSUME NEW j \in Jobs, status[j] # "none"
        PROVE  JobsHavePreviews!(j)'
    BY <2>1, JobStep, PreviewStep DEF References, JobsHavePreviews, SameRow
  <2>2. ASSUME NEW j \in Jobs, status[j] = "none", status'[j] # "none"
        PROVE  JobsHavePreviews!(j)'
    <3>1. PICK a \in Apis, p \in Previews : CreateScheduleJob(a, p, j)
      BY <2>2, JobStep
    <3>2. request'[j] = [api |-> a, preview |-> p, line |-> previews[p].line,
                         revision |-> previews[p].revision]
      BY <1>0, <3>1 DEF CreateScheduleJob, TypeOK
    <3>3. previews[p].stage \in Known /\ previews' = previews
      BY <3>1 DEF CreateScheduleJob, References, CachesHoldSavedPreviews
    <3>q. QED
      BY <3>2, <3>3
  <2>q. QED
    BY <2>1, <2>2 DEF JobsHavePreviews
<1>3. WorkIsOnJobs'
  BY <1>0, WorkStep
<1>q. QED
  BY <1>0, <1>1, <1>2, <1>3 DEF References

(***************************************************************************)
(* Layer 2: row locks                                                      *)
(***************************************************************************)
\* A transaction that ends, by commit, rollback or crash, leaves the others'
\* rows as they are.
LEMMA LocksFreed ==
  ASSUME References, RowLocks, NEW w \in Threads,
         thread'[w].pc \notin InTransaction,
         \A v \in Threads : v # w => thread'[v] = thread[v],
         \A j \in Jobs : jobRow'[j] = IF jobRow[j] = w THEN "free" ELSE jobRow[j],
         \A l \in Lines : lineRow'[l] = IF lineRow[l] = w THEN "free" ELSE lineRow[l],
         request' = request,
         \A j \in Jobs : jobRow[j] \notin {w, "free"} => status'[j] = status[j],
         \A l \in Lines : lineRow[l] \notin {w, "free"} => revision'[l] = revision[l]
  PROVE  RowLocks'
<1>1. /\ jobRow \in [Jobs -> Threads \cup {"free"}]
      /\ lineRow \in [Lines -> Threads \cup {"free"}]
  BY DEF References, TypeOK
<1>2. "free" \notin Threads
  BY NamesAssumption
<1>3. JobRowHeld'
  BY <1>1, <1>2, ThreadsHaveRows DEF RowLocks, JobRowHeld, InTransaction
<1>4. ASSUME NEW v \in Threads, thread'[v].pc = "validated"
      PROVE  /\ lineRow'[LineOf(v)'] = v
             /\ revision'[LineOf(v)'] = request'[thread'[v].job].revision
  <2>1. v # w /\ thread'[v] = thread[v]
    BY <1>4 DEF InTransaction
  <2>2. LineOf(v)' = LineOf(v) /\ LineOf(v) \in Lines
    BY <1>4, <2>1, ThreadsHaveRows DEF LineOf
  <2>q. QED
    BY <1>2, <1>4, <2>1, <2>2 DEF RowLocks, LineRowHeld
<1>5. ASSUME NEW l \in Lines, lineRow'[l] # "free"
      PROVE  /\ thread'[lineRow'[l]].pc = "validated"
             /\ request'[thread'[lineRow'[l]].job].line = l
  <2>1. lineRow'[l] = lineRow[l] /\ lineRow[l] \in Threads /\ lineRow[l] # w
    BY <1>1, <1>5
  <2>2. thread'[lineRow[l]] = thread[lineRow[l]]
    BY <2>1
  <2>q. QED
    BY <1>5, <2>1, <2>2 DEF RowLocks, LineRowHeld, LineOf
<1>6. LineRowHeld'
  BY <1>4, <1>5 DEF LineRowHeld, LineOf
<1>q. QED
  BY <1>3, <1>6 DEF RowLocks

\* What a thread does outside a transaction holds no rows.
LEMMA OutsideTransaction ==
  ASSUME References, RowLocks, NEW w \in Threads,
         thread[w].pc \notin InTransaction, thread'[w].pc \notin InTransaction,
         \A v \in Threads : v # w => thread'[v] = thread[v],
         UNCHANGED <<dbVars, rowVars>>
  PROVE  RowLocks'
<1>1. \A j \in Jobs : jobRow[j] # w
  BY NamesAssumption DEF RowLocks, JobRowHeld
<1>2. \A l \in Lines : lineRow[l] # w
  BY NamesAssumption DEF RowLocks, LineRowHeld, InTransaction
<1>q. QED
  BY <1>1, <1>2, LocksFreed DEF dbVars, rowVars

\* A step that leaves threads and rows alone, and the rows' contents where a
\* transaction holds them.
LEMMA HeldRowsStay ==
  ASSUME References, RowLocks, UNCHANGED <<rowVars, thread>>,
         \A j \in Jobs : status[j] # "none" => request'[j] = request[j],
         \A j \in Jobs : jobRow[j] # "free" => status'[j] = status[j],
         \A l \in Lines : lineRow[l] # "free" => revision'[l] = revision[l]
  PROVE  RowLocks'
<1>1. /\ jobRow \in [Jobs -> Threads \cup {"free"}]
      /\ lineRow \in [Lines -> Threads \cup {"free"}]
  BY DEF References, TypeOK
<1>2. "free" \notin Threads
  BY NamesAssumption
<1>3. JobRowHeld'
  BY <1>1, <1>2, ThreadsHaveRows DEF RowLocks, JobRowHeld, InTransaction, rowVars
<1>4. ASSUME NEW v \in Threads, thread[v].pc = "validated"
      PROVE  LineOf(v)' = LineOf(v) /\ LineOf(v) \in Lines
             /\ request'[thread[v].job] = request[thread[v].job]
  BY <1>4, ThreadsHaveRows DEF LineOf
<1>5. LineRowHeld'
  BY <1>1, <1>2, <1>4 DEF RowLocks, LineRowHeld, rowVars
<1>q. QED
  BY <1>3, <1>5 DEF RowLocks

\* A thread that goes on inside its transaction keeps its job row.
LEMMA JobRowKept ==
  ASSUME References, RowLocks, NEW w \in Threads, NEW pc \in InTransaction,
         thread[w].pc \in InTransaction, thread' = [thread EXCEPT ![w].pc = pc],
         UNCHANGED <<jobRow, status>>
  PROVE  JobRowHeld'
<1>1. TypeOK /\ pc \in Pcs
  BY DEF References, InTransaction, Pcs
<1>2. /\ thread'[w].pc = pc
      /\ thread'[w].job = thread[w].job
      /\ \A v \in Threads : v # w => thread'[v] = thread[v]
  BY <1>1, Moved
<1>q. QED
  BY <1>1, <1>2 DEF RowLocks, JobRowHeld, TypeOK

\* Failing a job ends its transaction.
LEMMA FailedFrees ==
  ASSUME References, RowLocks, NEW w \in Threads, thread[w].pc \in InTransaction,
         MarkFailedAfterRun(w)
  PROVE  RowLocks'
<1>1. TypeOK /\ EndTransaction(w, TRUE) /\ UNCHANGED <<request, revision>>
  BY DEF References, MarkFailedAfterRun
<1>2. jobRow[thread[w].job] = w
  BY DEF RowLocks, JobRowHeld
<1>3. \A j \in Jobs : jobRow[j] \notin {w, "free"} => status'[j] = status[j]
  BY <1>1, <1>2 DEF MarkFailedAfterRun, TypeOK
<1>q. QED
  BY <1>1, <1>3, Ended, LocksFreed DEF InTransaction

\* Every step keeps the row locks.
LEMMA RowLocksStep ==
  ASSUME References, RowLocks, [Next]_vars
  PROVE  RowLocks'
<1>0. /\ TypeOK
      /\ References
      /\ \A j \in Jobs : status[j] # "none" => request'[j] = request[j]
  BY JobStep DEF References
<1> USE <1>0
<1>1. ASSUME NEW a \in Apis, NEW p \in Previews, NEW l \in Lines,
             PreviewReadLine(a, p, l)
      PROVE  RowLocks'
  BY <1>1, HeldRowsStay DEF PreviewReadLine, dbVars, rowVars, apiVars, workerVars
<1>2. ASSUME NEW a \in Apis, NEW p \in Previews, EnsurePreviewLoaded(a, p)
      PROVE  RowLocks'
  BY <1>2, HeldRowsStay DEF EnsurePreviewLoaded, dbVars, rowVars, apiVars, workerVars
<1>3. ASSUME NEW p \in Previews, PreviewReadOrders(p)
      PROVE  RowLocks'
  BY <1>3, HeldRowsStay DEF PreviewReadOrders, dbVars, rowVars, apiVars, workerVars
<1>4. ASSUME NEW p \in Previews, NEW empty \in BOOLEAN, PreviewSave(p, empty)
      PROVE  RowLocks'
  BY <1>4, HeldRowsStay DEF PreviewSave, dbVars, rowVars, apiVars, workerVars
<1>5. ASSUME NEW p \in Previews, PreviewExpires(p)
      PROVE  RowLocks'
  BY <1>5, HeldRowsStay DEF PreviewExpires, dbVars, rowVars, apiVars, workerVars
<1>6. ASSUME NEW l \in Lines, BumpRevision(l)
      PROVE  RowLocks'
  BY <1>6, HeldRowsStay DEF BumpRevision, TypeOK, rowVars, workerVars
<1>7. ASSUME NEW a \in Apis, ApiCrash(a)
      PROVE  RowLocks'
  BY <1>7, HeldRowsStay DEF ApiCrash, dbVars, rowVars, apiVars, workerVars
<1>8. ASSUME NEW a \in Apis, NEW p \in Previews, NEW j \in Jobs,
             CreateScheduleJob(a, p, j)
      PROVE  RowLocks'
  <2>1. \A i \in Jobs : jobRow[i] # "free" => status[i] = "queued"
    BY DEF RowLocks, JobRowHeld, TypeOK
  <2>q. QED
    BY <1>8, <2>1, HeldRowsStay DEF CreateScheduleJob, TypeOK, workerVars
<1>9. ASSUME NEW j \in Jobs, PublishScheduleJob(j)
      PROVE  RowLocks'
  BY <1>9, HeldRowsStay DEF PublishScheduleJob, dbVars, rowVars, apiVars, workerVars
<1>10. ASSUME NEW j \in Jobs, PublishFails(j)
      PROVE  RowLocks'
  BY <1>10, HeldRowsStay DEF PublishFails, dbVars, rowVars, apiVars, workerVars
<1>11. ASSUME NEW j \in Jobs, DeleteCreateAudit(j)
      PROVE  RowLocks'
  BY <1>11, HeldRowsStay DEF DeleteCreateAudit, dbVars, rowVars, apiVars, workerVars
<1>12. ASSUME NEW j \in Jobs, DeleteQueuedRow(j)
      PROVE  RowLocks'
  BY <1>12, HeldRowsStay DEF DeleteQueuedRow, TypeOK, workerVars
<1>13. ASSUME NEW w \in MessageLoops, NEW j \in Jobs, FetchMessage(w, j)
      PROVE  RowLocks'
  <2>1. /\ w \in Threads /\ thread[w].pc = "idle"
        /\ thread' = [thread EXCEPT ![w] = [Idle EXCEPT !.pc = "locking", !.job = j]]
        /\ UNCHANGED <<dbVars, rowVars>>
    BY <1>13 DEF FetchMessage, Threads
  <2>2. /\ thread'[w].pc = "locking"
        /\ \A v \in Threads : v # w => thread'[v] = thread[v]
    BY <2>1, Taken
  <2>q. QED
    BY <2>1, <2>2, OutsideTransaction DEF InTransaction
<1>14. ASSUME NEW w \in BackfillLoops, NEW j \in Jobs,
             ProcessBackfillJob(w, j)
      PROVE  RowLocks'
  <2>1. /\ w \in Threads /\ thread[w].pc = "idle"
        /\ thread' = [thread EXCEPT ![w] = [Idle EXCEPT !.pc = "locking", !.job = j]]
        /\ UNCHANGED <<dbVars, rowVars>>
    BY <1>14 DEF ProcessBackfillJob, Threads
  <2>2. /\ thread'[w].pc = "locking"
        /\ \A v \in Threads : v # w => thread'[v] = thread[v]
    BY <2>1, Taken
  <2>q. QED
    BY <2>1, <2>2, OutsideTransaction DEF InTransaction
<1>15. ASSUME NEW w \in BackfillLoops, QueryQueuedJobBatch(w)
      PROVE  RowLocks'
  BY <1>15, HeldRowsStay DEF QueryQueuedJobBatch, dbVars, rowVars, apiVars, workerVars
<1>16. ASSUME NEW w \in Threads, AcquireLineLock(w)
      PROVE  RowLocks'
  <2>1. /\ thread[w].pc = "locking"
        /\ thread' = [thread EXCEPT ![w].pc = "begin"]
        /\ UNCHANGED <<dbVars, rowVars>>
    BY <1>16 DEF AcquireLineLock
  <2>2. /\ thread'[w].pc = "begin"
        /\ \A v \in Threads : v # w => thread'[v] = thread[v]
    BY <2>1, Moved DEF Pcs
  <2>q. QED
    BY <2>1, <2>2, OutsideTransaction DEF InTransaction
<1>17. ASSUME NEW w \in Threads, NEW ok \in BOOLEAN, AcquireTimeout(w, ok)
      PROVE  RowLocks'
  <2>1. /\ thread[w].pc = "locking"
        /\ thread' = [thread EXCEPT ![w] = Idle]
        /\ UNCHANGED <<dbVars, rowVars>>
    BY <1>17 DEF AcquireTimeout, Acknowledge
  <2>2. /\ thread'[w].pc = "idle"
        /\ \A v \in Threads : v # w => thread'[v] = thread[v]
    BY <2>1, Done DEF Pcs
  <2>q. QED
    BY <2>1, <2>2, OutsideTransaction DEF InTransaction
<1>18. ASSUME NEW w \in Threads, JobAlreadySettled(w)
      PROVE  RowLocks'
  <2>1. /\ thread[w].pc = "begin"
        /\ thread' = [thread EXCEPT ![w].pc = "release", ![w].ok = TRUE]
        /\ UNCHANGED <<dbVars, rowVars>>
    BY <1>18 DEF JobAlreadySettled
  <2>2. /\ thread'[w].pc = "release"
        /\ \A v \in Threads : v # w => thread'[v] = thread[v]
    BY <2>1, Released DEF Pcs
  <2>q. QED
    BY <2>1, <2>2, OutsideTransaction DEF InTransaction
<1>19. ASSUME NEW w \in Threads, MarkRunning(w)
      PROVE  RowLocks'
  <2>1. /\ thread'[w].pc = "running"
        /\ thread'[w].job = thread[w].job
        /\ \A v \in Threads : v # w => thread'[v] = thread[v]
    BY <1>19, Moved DEF MarkRunning, Pcs
  <2>2. thread[w].job \in Jobs
    BY <1>19, ThreadsHaveRows DEF MarkRunning
  <2>3. JobRowHeld'
    BY <1>19, <2>1, <2>2, NamesAssumption
    DEF MarkRunning, RowLocks, JobRowHeld, TypeOK, dbVars, InTransaction
  <2>4. LineRowHeld'
    BY <1>19, <2>1 DEF MarkRunning, RowLocks, LineRowHeld, LineOf, TypeOK, dbVars
  <2>q. QED
    BY <2>3, <2>4 DEF RowLocks
<1>20. ASSUME NEW w \in Threads, LoadPreviewAllocations(w)
      PROVE  RowLocks'
  <2>1. /\ thread'[w].pc = "loaded"
        /\ thread'[w].job = thread[w].job
        /\ \A v \in Threads : v # w => thread'[v] = thread[v]
    BY <1>20, Moved DEF LoadPreviewAllocations, Pcs
  <2>2. JobRowHeld'
    BY <1>20, JobRowKept DEF LoadPreviewAllocations, InTransaction, dbVars, rowVars
  <2>3. LineRowHeld'
    BY <1>20, <2>1
    DEF LoadPreviewAllocations, RowLocks, LineRowHeld, LineOf, TypeOK, dbVars, rowVars
  <2>q. QED
    BY <2>2, <2>3 DEF RowLocks
<1>21. ASSUME NEW w \in Threads, ValidatePreviewRevision(w)
      PROVE  RowLocks'
  <2>1. /\ thread'[w].pc = "validated"
        /\ thread'[w].job = thread[w].job
        /\ \A v \in Threads : v # w => thread'[v] = thread[v]
    BY <1>21, Moved DEF ValidatePreviewRevision, Pcs
  <2>2. JobRowHeld'
    BY <1>21, JobRowKept DEF ValidatePreviewRevision, InTransaction, dbVars
  <2>3. /\ LineOf(w) \in Lines
        /\ revision[LineOf(w)] = request[thread[w].job].revision
    BY <1>21, ThreadsHaveRows DEF ValidatePreviewRevision, PreviewIsCurrent, LineOf,
                                  References, JobsHavePreviews
  <2>4. \A v \in Threads : LineOf(v)' = LineOf(v)
    BY <1>21, <2>1 DEF ValidatePreviewRevision, LineOf, dbVars
  <2>5. /\ lineRow[LineOf(w)] = "free"
        /\ lineRow' = [lineRow EXCEPT ![LineOf(w)] = w]
        /\ revision' = revision /\ request' = request
    BY <1>21 DEF ValidatePreviewRevision, dbVars
  <2>6. LineRowHeld'
    BY <2>1, <2>3, <2>4, <2>5, NamesAssumption DEF RowLocks, LineRowHeld, TypeOK
  <2>q. QED
    BY <2>2, <2>6 DEF RowLocks
<1>22. ASSUME NEW w \in Threads, MarkCompleted(w)
      PROVE  RowLocks'
  <2>1. /\ thread[w].pc = "validated" /\ EndTransaction(w, TRUE)
        /\ request' = request
    BY <1>22 DEF MarkCompleted
  <2>2. /\ jobRow[thread[w].job] = w
        /\ lineRow[request[thread[w].job].line] = w
    BY <2>1 DEF RowLocks, JobRowHeld, LineRowHeld, InTransaction, LineOf
  <2>3. \A j \in Jobs : jobRow[j] \notin {w, "free"} => status'[j] = status[j]
    BY <1>22, <2>2 DEF MarkCompleted, TypeOK
  <2>4. \A l \in Lines : lineRow[l] \notin {w, "free"} => revision'[l] = revision[l]
    BY <1>22, <2>2 DEF MarkCompleted, TypeOK
  <2>q. QED
    BY <2>1, <2>3, <2>4, Ended, LocksFreed DEF InTransaction
<1>23. ASSUME NEW w \in Threads, PreviewGone(w)
      PROVE  RowLocks'
  BY <1>23, FailedFrees DEF PreviewGone, InTransaction
<1>24. ASSUME NEW w \in Threads, PreviewStale(w)
      PROVE  RowLocks'
  BY <1>24, FailedFrees DEF PreviewStale, InTransaction
<1>25. ASSUME NEW w \in Threads, MarkRetryAfterRun(w)
      PROVE  RowLocks'
  <2>1. EndTransaction(w, FALSE) /\ UNCHANGED <<request, status, revision>>
    BY <1>25 DEF MarkRetryAfterRun, Undecodable, dbVars
  <2>q. QED
    BY <2>1, Ended, LocksFreed DEF InTransaction
<1>26. ASSUME NEW w \in Threads, RetriesExhausted(w)
      PROVE  RowLocks'
  BY <1>26, FailedFrees DEF RetriesExhausted, Undecodable, InTransaction
<1>27. ASSUME NEW w \in Threads, RollbackTx(w)
      PROVE  RowLocks'
  <2>1. EndTransaction(w, FALSE) /\ UNCHANGED <<request, status, revision>>
    BY <1>27 DEF RollbackTx, dbVars
  <2>q. QED
    BY <2>1, Ended, LocksFreed DEF InTransaction
<1>28. ASSUME NEW w \in Threads, Release(w)
      PROVE  RowLocks'
  <2>1. /\ thread[w].pc = "release"
        /\ thread' = [thread EXCEPT ![w] = Idle]
        /\ UNCHANGED <<dbVars, rowVars>>
    BY <1>28 DEF Release, Acknowledge
  <2>2. /\ thread'[w].pc = "idle"
        /\ \A v \in Threads : v # w => thread'[v] = thread[v]
    BY <2>1, Done DEF Pcs
  <2>q. QED
    BY <2>1, <2>2, OutsideTransaction DEF InTransaction
<1>29. ASSUME NEW w \in Threads, WorkerCrash(w)
      PROVE  RowLocks'
  <2>1. /\ thread'[w].pc = "idle"
        /\ \A v \in Threads : v # w => thread'[v] = thread[v]
    BY <1>29, Done DEF WorkerCrash
  <2>2. UNCHANGED <<request, status, revision>>
    BY <1>29 DEF WorkerCrash, dbVars
  <2>q. QED
    BY <1>29, <2>1, <2>2, LocksFreed DEF WorkerCrash, InTransaction
<1>30. ASSUME NEW l \in Lines, LockExpires(l)
      PROVE  RowLocks'
  BY <1>30, HeldRowsStay DEF LockExpires, dbVars, rowVars, apiVars, workerVars
<1>31. ASSUME NEW j \in Jobs, LoseMessage(j)
      PROVE  RowLocks'
  BY <1>31, HeldRowsStay DEF LoseMessage, dbVars, rowVars, apiVars, workerVars
<1>33. ASSUME NEW a \in Apis, NEW l \in Lines, ProductionLine(a, l)
      PROVE  RowLocks'
  BY <1>33, HeldRowsStay DEF ProductionLine, dbVars, rowVars, workerVars
<1>32. CASE UNCHANGED vars
  BY <1>32, HeldRowsStay DEF vars, dbVars, rowVars, workerVars
<1>q. QED
  BY <1>1, <1>2, <1>3, <1>4, <1>5, <1>6, <1>7, <1>8, <1>9, <1>10, <1>11,
     <1>12, <1>13, <1>14, <1>15, <1>16, <1>17, <1>18, <1>19, <1>20, <1>21,
     <1>22, <1>23, <1>24, <1>25, <1>26, <1>27, <1>28, <1>29, <1>30, <1>31,
     <1>32, <1>33
  DEF Next, ApiNext, PreviewNext, WorkerNext, EnvironmentNext, TakeJob,
      Transact, Threads

(***************************************************************************)
(* Layer 3: what has been applied                                          *)
(***************************************************************************)
\* The steps that move a line's revision or write a schedule.
LEMMA ScheduleWriters ==
  ASSUME [Next]_vars
  PROVE  \/ UNCHANGED <<revision, applied>>
         \/ \E l \in Lines : BumpRevision(l)
         \/ \E w \in Threads : MarkCompleted(w)
<1> DEFINE Goal == \/ UNCHANGED <<revision, applied>>
                   \/ \E l \in Lines : BumpRevision(l)
                   \/ \E w \in Threads : MarkCompleted(w)
<1>0. CASE PreviewNext
  BY <1>0 DEF PreviewNext, PreviewReadLine, PreviewReadOrders, PreviewSave,
         PreviewExpires, EnsurePreviewLoaded, dbVars
<1>1. CASE ApiNext
  BY <1>0, <1>1 DEF ApiNext, ProductionLine, ApiCrash, CreateScheduleJob, PublishScheduleJob,
         PublishFails, DeleteCreateAudit, DeleteQueuedRow, dbVars
<1>2. ASSUME NEW w \in Threads, Transact(w)
      PROVE  Goal
  BY <1>2 DEF Transact, JobAlreadySettled, MarkRunning, LoadPreviewAllocations,
         ValidatePreviewRevision, PreviewGone, PreviewStale, MarkFailedAfterRun,
         dbVars
<1>3. CASE WorkerNext
  BY <1>2, <1>3 DEF WorkerNext, TakeJob, FetchMessage, QueryQueuedJobBatch,
         ProcessBackfillJob, AcquireLineLock, AcquireTimeout, MarkRetryAfterRun,
         Undecodable, RetriesExhausted, RollbackTx, Release, WorkerCrash, MarkFailedAfterRun,
         dbVars
<1>4. CASE EnvironmentNext
  BY <1>4 DEF EnvironmentNext, LockExpires, LoseMessage, dbVars
<1>5. CASE UNCHANGED vars
  BY <1>5 DEF vars, dbVars
<1>q. QED
  BY <1>1, <1>3, <1>4, <1>5 DEF Next

\* Revisions never go back.
LEMMA RevisionGrows ==
  ASSUME References, [Next]_vars
  PROVE  \A l \in Lines : revision[l] \in Nat /\ revision'[l] \in Nat
                          /\ revision[l] <= revision'[l]
<1>1. TypeOK /\ TypeOK'
  BY TypeStep DEF References
<1>2. \A l \in Lines : revision[l] \in Nat /\ revision'[l] \in Nat
  BY <1>1 DEF TypeOK
<1>3. CASE UNCHANGED <<revision, applied>>
  BY <1>2, <1>3
<1>4. ASSUME NEW k \in Lines, BumpRevision(k)
      PROVE  \A l \in Lines : revision[l] <= revision'[l]
  BY <1>1, <1>2, <1>4 DEF BumpRevision, TypeOK
<1>5. ASSUME NEW w \in Threads, MarkCompleted(w)
      PROVE  \A l \in Lines : revision[l] <= revision'[l]
  <2> DEFINE k == request[thread[w].job].line
  <2>1. revision' = revision \/ revision' = [revision EXCEPT ![k] = @ + 1]
    BY <1>5 DEF MarkCompleted
  <2> HIDE DEF k
  <2>2. \A l \in Lines : revision'[l] = revision[l] \/ revision'[l] = revision[l] + 1
    BY <1>1, <2>1 DEF TypeOK
  <2>q. QED
    BY <1>2, <2>2
<1>q. QED
  BY <1>2, <1>3, <1>4, <1>5, ScheduleWriters

\* A job that is completed or failed has a row no transaction holds.
LEMMA SettledStep ==
  ASSUME References, RowLocks, [Next]_vars
  PROVE  \A j \in Jobs : status[j] \in {"completed", "failed"} =>
                            status'[j] = status[j]
<1>0. TypeOK
  BY DEF References
<1>1. ASSUME NEW a \in Apis, NEW p \in Previews, NEW j \in Jobs,
             CreateScheduleJob(a, p, j)
      PROVE  \A i \in Jobs : status[i] \in {"completed", "failed"} =>
                                status'[i] = status[i]
  BY <1>0, <1>1 DEF CreateScheduleJob, TypeOK
<1>2. ASSUME NEW j \in Jobs, DeleteQueuedRow(j)
      PROVE  \A i \in Jobs : status[i] \in {"completed", "failed"} =>
                                status'[i] = status[i]
  BY <1>0, <1>2 DEF DeleteQueuedRow, TypeOK
<1>3. ASSUME NEW w \in Threads, MarkCompleted(w)
      PROVE  \A i \in Jobs : status[i] \in {"completed", "failed"} =>
                                status'[i] = status[i]
  <2>1. status[thread[w].job] = "queued"
    BY <1>3 DEF MarkCompleted, RowLocks, JobRowHeld, InTransaction
  <2>q. QED
    BY <1>0, <1>3, <2>1 DEF MarkCompleted, TypeOK
<1>4. ASSUME NEW w \in Threads, thread[w].pc \in InTransaction, MarkFailedAfterRun(w)
      PROVE  \A i \in Jobs : status[i] \in {"completed", "failed"} =>
                                status'[i] = status[i]
  <2>1. status[thread[w].job] = "queued"
    BY <1>4 DEF RowLocks, JobRowHeld
  <2>q. QED
    BY <1>0, <1>4, <2>1 DEF MarkFailedAfterRun, TypeOK
<1>q. QED
  BY <1>1, <1>2, <1>3, <1>4, JobWriters

\* The reads behind a preview stay in order.
LEMMA ReadsStep ==
  ASSUME References, ReadsInOrder, [Next]_vars
  PROVE  ReadsInOrder'
<1>0. TypeOK /\ PreviewsHaveLines
  BY DEF References
<1>1. ASSUME NEW q \in Previews, previews'[q] = previews[q]
      PROVE  ReadsInOrder!(q)'
  BY <1>0, <1>1, RevisionGrows, PreviewFields
  DEF ReadsInOrder, PreviewsHaveLines, Known
<1>2. ASSUME NEW q \in Previews, previews[q].stage \in Known
      PROVE  ReadsInOrder!(q)'
  BY <1>0, <1>2, RevisionGrows, PreviewFields, PreviewStep
  DEF ReadsInOrder, PreviewsHaveLines, Known, SameRow
<1>3. ASSUME NEW a \in Apis, NEW p \in Previews, NEW l \in Lines,
             PreviewReadLine(a, p, l)
      PROVE  ReadsInOrder'
  <2>1. revision' = revision /\ revision[l] \in Nat
    BY <1>0, <1>3 DEF PreviewReadLine, TypeOK
  <2>2. /\ previews'[p].stage = "line"
        /\ previews'[p].line = l
        /\ previews'[p].revision = revision[l]
        /\ \A q \in Previews : q # p => previews'[q] = previews[q]
    BY <1>0, <1>3, LineRead
  <2>3. ReadsInOrder!(p)'
    BY <2>1, <2>2 DEF Known
  <2>q. QED
    BY <1>1, <2>2, <2>3 DEF ReadsInOrder
<1>4. ASSUME NEW p \in Previews, PreviewReadOrders(p)
      PROVE  ReadsInOrder'
  <2>1. /\ revision' = revision
        /\ previews[p].stage = "line"
        /\ previews[p].line \in Lines
        /\ revision[previews[p].line] \in Nat
    BY <1>0, <1>4 DEF PreviewReadOrders, PreviewsHaveLines, TypeOK
  <2>2. /\ previews'[p].stage = "orders"
        /\ previews'[p].line = previews[p].line
        /\ previews'[p].revision = previews[p].revision
        /\ previews'[p].ordersAt = revision[previews[p].line]
        /\ \A q \in Previews : q # p => previews'[q] = previews[q]
    BY <1>0, <1>4, <2>1, OrdersRead
  <2>3. previews[p].revision <= revision[previews[p].line]
    BY <2>1 DEF ReadsInOrder
  <2>4. ReadsInOrder!(p)'
    BY <2>1, <2>2, <2>3 DEF Known
  <2>q. QED
    BY <1>1, <2>2, <2>4 DEF ReadsInOrder
<1>5. ASSUME NEW p \in Previews, NEW empty \in BOOLEAN, PreviewSave(p, empty)
      PROVE  ReadsInOrder'
  <2>1. /\ revision' = revision
        /\ previews[p].stage = "orders"
        /\ previews[p].line \in Lines
        /\ revision[previews[p].line] \in Nat
    BY <1>0, <1>5 DEF PreviewSave, PreviewsHaveLines, TypeOK
  <2>2. /\ previews'[p].stage = "open"
        /\ previews'[p].line = previews[p].line
        /\ previews'[p].revision = previews[p].revision
        /\ previews'[p].ordersAt = previews[p].ordersAt
        /\ previews'[p].allocsAt = revision[previews[p].line]
        /\ \A q \in Previews : q # p => previews'[q] = previews[q]
    BY <1>0, <1>5, <2>1, Saved
  <2>3. /\ previews[p].revision <= revision[previews[p].line]
        /\ previews[p].revision <= previews[p].ordersAt
        /\ previews[p].ordersAt <= revision[previews[p].line]
    BY <2>1 DEF ReadsInOrder
  <2>4. ReadsInOrder!(p)'
    BY <2>1, <2>2, <2>3 DEF Known
  <2>q. QED
    BY <1>1, <2>2, <2>4 DEF ReadsInOrder
<1>6. ASSUME NEW p \in Previews, PreviewExpires(p)
      PROVE  ReadsInOrder'
  <2>1. previews[p].stage = "open" /\ previews' = [previews EXCEPT ![p].stage = "gone"]
    BY <1>6 DEF PreviewExpires
  <2>2. \A q \in Previews : q # p => previews'[q] = previews[q]
    BY <1>0, <2>1, Gone
  <2>q. QED
    BY <1>1, <1>2, <2>1, <2>2 DEF ReadsInOrder, Known
<1>7. ASSUME NEW a \in Apis, ApiCrash(a)
      PROVE  ReadsInOrder'
  <2>1. ASSUME NEW q \in Previews, previews'[q].stage = "none"
        PROVE  ReadsInOrder!(q)'
    BY <2>1 DEF Known
  <2>2. \A q \in Previews : previews'[q] = previews[q] \/ previews'[q].stage = "none"
    BY <1>0, <1>7, ReplicaLost
  <2>q. QED
    BY <1>1, <2>1, <2>2 DEF ReadsInOrder
<1>8. ASSUME NEW w \in Threads, MarkCompleted(w)
      PROVE  ReadsInOrder'
  <2> DEFINE p == request[thread[w].job].preview
  <2>1. thread[w].pc = "validated" /\ previews' = [previews EXCEPT ![p].stage = "gone"]
    BY <1>8 DEF MarkCompleted
  <2>2. p \in Previews /\ previews[p].stage \in Known
    BY <2>1, ThreadsHaveRows DEF References, JobsHavePreviews
  <2> HIDE DEF p
  <2>3. \A q \in Previews : q # p => previews'[q] = previews[q]
    BY <1>0, <2>1, <2>2, Gone
  <2>q. QED
    BY <1>1, <1>2, <2>2, <2>3 DEF ReadsInOrder
<1>9. CASE UNCHANGED previews
  BY <1>1, <1>9 DEF ReadsInOrder
<1>q. QED
  BY <1>3, <1>4, <1>5, <1>6, <1>7, <1>8, <1>9, PreviewWriters

\* A record of an application stays true.
LEMMA OldApplications ==
  ASSUME References, RowLocks, History, [Next]_vars, NEW x \in applied
  PROVE  AppliedIsRecorded!(x)'
<1>1. x.job \in Jobs /\ x.preview \in Previews /\ x.line \in Lines /\ x.revision \in Nat
  BY DEF References, TypeOK, Application
<1>2. AppliedIsRecorded!(x)
  BY DEF History, AppliedIsRecorded
<1>3. status'[x.job] = "completed" /\ request'[x.job] = request[x.job]
  BY <1>1, <1>2, SettledStep, JobStep
<1>4. SameRow(x.preview)
  BY <1>1, <1>2, PreviewStep
<1>5. x.revision < revision'[x.line]
  BY <1>1, <1>2, RevisionGrows
<1>q. QED
  BY <1>2, <1>3, <1>4, <1>5 DEF SameRow

\* The commit of a schedule writes a preview planned from the line as it is.
LEMMA NewApplication ==
  ASSUME References, RowLocks, History, [Next]_vars, NEW w \in Threads,
         MarkCompleted(w), NEW x \in applied', x \notin applied
  PROVE  /\ x.job = thread[w].job
         /\ x.line \in Lines
         /\ x.revision = revision[x.line]
         /\ applied' = applied \cup {x}
         /\ AppliedIsRecorded!(x)'
<1> DEFINE j == thread[w].job
           p == request[j].preview
           l == request[j].line
<1>0. TypeOK
  BY DEF References
<1>1. thread[w].pc = "validated" /\ UNCHANGED request
  BY DEF MarkCompleted
<1>2. /\ j \in Jobs /\ p \in Previews /\ l \in Lines
      /\ previews[p].stage \in Known
      /\ previews[p].line = l
      /\ request[j].revision = previews[p].revision
  BY <1>1, ThreadsHaveRows DEF References, JobsHavePreviews
<1>3. revision[l] = previews[p].revision
  BY <1>1, <1>2 DEF RowLocks, LineRowHeld, LineOf
<1>4. /\ previews[p].revision <= previews[p].ordersAt
      /\ previews[p].ordersAt <= previews[p].allocsAt
      /\ previews[p].allocsAt <= revision[previews[p].line]
  BY <1>2 DEF History, ReadsInOrder
<1>5. /\ previews[p].revision \in Nat /\ previews[p].ordersAt \in Nat
      /\ previews[p].allocsAt \in Nat /\ revision[l] \in Nat
  BY <1>0, <1>2, PreviewFields DEF TypeOK
<1>6. previews[p].ordersAt = revision[l] /\ previews[p].allocsAt = revision[l]
  <2> DEFINE r == previews[p].revision
             o == previews[p].ordersAt
             c == previews[p].allocsAt
             d == revision[l]
  <2>1. r \in Nat /\ o \in Nat /\ c \in Nat /\ d \in Nat
    BY <1>5
  <2>2. d = r /\ r <= o /\ o <= c /\ c <= d
    BY <1>2, <1>3, <1>4
  <2> HIDE DEF r, o, c, d
  <2>3. o = d /\ c = d
    BY <2>1, <2>2
  <2>q. QED
    BY <2>3 DEF o, c, d
<1>7. /\ ~previews[p].empty
      /\ x = [job |-> j, preview |-> p, line |-> l, revision |-> revision[l]]
      /\ applied' = applied \cup {x}
      /\ revision' = [revision EXCEPT ![l] = @ + 1]
  BY DEF MarkCompleted
<1>8. status'[j] = "completed" /\ revision'[l] = revision[l] + 1
  BY <1>0, <1>2, <1>7 DEF MarkCompleted, TypeOK
<1>9. SameRow(p)
  BY <1>2, PreviewStep
<1>10. x.job = j /\ x.preview = p /\ x.line = l /\ x.revision = revision[l]
  BY <1>7
<1> HIDE DEF j, p, l
<1>11. request'[j].preview = p
  BY <1>1 DEF p
<1>12. AppliedIsRecorded!(x)'
  BY <1>2, <1>3, <1>5, <1>6, <1>7, <1>8, <1>9, <1>10, <1>11 DEF SameRow
<1>q. QED
  BY <1>2, <1>7, <1>10, <1>12 DEF j

\* A job becomes completed in one way only, and is never queued again after it
\* was settled or deleted.
LEMMA OnlyCommitCompletes ==
  ASSUME References, [Next]_vars, NEW j \in Jobs
  PROVE  /\ status'[j] = "completed" /\ status[j] # "completed" =>
               \E w \in Threads : MarkCompleted(w)
         /\ status'[j] \in {"none", "queued"} => status[j] \in {"none", "queued"}
<1> DEFINE Goal ==
         /\ status'[j] = "completed" /\ status[j] # "completed" =>
               \E w \in Threads : MarkCompleted(w)
         /\ status'[j] \in {"none", "queued"} => status[j] \in {"none", "queued"}
<1>0. status \in [Jobs -> JobStatus]
  BY DEF References, TypeOK
<1>1. ASSUME NEW a \in Apis, NEW p \in Previews, NEW i \in Jobs,
             CreateScheduleJob(a, p, i)
      PROVE  Goal
  BY <1>0, <1>1 DEF CreateScheduleJob
<1>2. ASSUME NEW i \in Jobs, DeleteQueuedRow(i)
      PROVE  Goal
  BY <1>0, <1>2 DEF DeleteQueuedRow
<1>3. ASSUME NEW w \in Threads, MarkCompleted(w)
      PROVE  Goal
  <2>1. status' = [status EXCEPT ![thread[w].job] = "completed"]
    BY <1>3 DEF MarkCompleted
  <2>q. QED
    BY <1>0, <1>3, <2>1
<1>4. ASSUME NEW w \in Threads, thread[w].pc \in InTransaction, MarkFailedAfterRun(w)
      PROVE  Goal
  <2>1. status' = [status EXCEPT ![thread[w].job] = "failed"]
    BY <1>4 DEF MarkFailedAfterRun
  <2>q. QED
    BY <1>0, <2>1
<1>5. CASE UNCHANGED <<status, request>>
  BY <1>5
<1>q. QED
  BY <1>1, <1>2, <1>3, <1>4, <1>5, JobWriters, Zenon

\* Every step keeps the history.
LEMMA HistoryStep ==
  ASSUME References, RowLocks, History, [Next]_vars
  PROVE  History'
<1>0. /\ ReadsInOrder /\ AppliedIsRecorded /\ OneApplicationPerRevision
      /\ CompletedIsApplied
  BY DEF History
<1>1. ReadsInOrder'
  BY <1>0, ReadsStep
<1>2. applied \subseteq applied'
  <2>1. ASSUME NEW l \in Lines, BumpRevision(l)
        PROVE  applied \subseteq applied'
    BY <2>1 DEF BumpRevision
  <2>2. ASSUME NEW w \in Threads, MarkCompleted(w)
        PROVE  applied \subseteq applied'
    BY <2>2 DEF MarkCompleted
  <2>q. QED
    BY <2>1, <2>2, ScheduleWriters
<1>3. \A x \in applied' : x \notin applied => \E w \in Threads : MarkCompleted(w)
  <2>1. ASSUME NEW l \in Lines, BumpRevision(l)
        PROVE  applied' = applied
    BY <2>1 DEF BumpRevision
  <2>q. QED
    BY <2>1, ScheduleWriters
<1>4. AppliedIsRecorded'
  <2>1. ASSUME NEW x \in applied'
        PROVE  AppliedIsRecorded!(x)'
    BY <1>3, <2>1, OldApplications, NewApplication
  <2>q. QED
    BY <2>1 DEF AppliedIsRecorded
<1>5. OneApplicationPerRevision'
  <2>1. ASSUME NEW x \in applied', NEW y \in applied',
               x.line = y.line, x.revision = y.revision, x \notin applied
        PROVE  x = y
    <3>1. PICK w \in Threads : MarkCompleted(w)
      BY <1>3, <2>1
    <3>2. /\ x.line \in Lines /\ x.revision = revision[x.line]
          /\ applied' = applied \cup {x}
      BY <2>1, <3>1, NewApplication
    <3>3. ASSUME y \in applied
          PROVE  FALSE
      <4>1. y.revision < revision[y.line]
        BY <1>0, <3>3 DEF AppliedIsRecorded
      <4>2. revision[x.line] \in Nat
        BY <3>2, RevisionGrows
      <4>q. QED
        BY <2>1, <3>2, <4>1, <4>2
    <3>q. QED
      BY <3>2, <3>3
  <2>2. ASSUME NEW x \in applied', NEW y \in applied',
               x.line = y.line, x.revision = y.revision
        PROVE  x = y
    <3>1. CASE x \in applied /\ y \in applied
      BY <1>0, <2>2, <3>1 DEF OneApplicationPerRevision
    <3>2. CASE x \notin applied
      BY <2>1, <2>2, <3>2
    <3>3. CASE y \notin applied
      BY <2>1, <2>2, <3>3
    <3>q. QED
      BY <3>1, <3>2, <3>3
  <2>q. QED
    BY <2>2 DEF OneApplicationPerRevision
<1>6. CompletedIsApplied'
  <2>0. TypeOK
    BY DEF References
  <2>1. ASSUME NEW j \in Jobs, status'[j] = "completed",
               ~previews'[request'[j].preview].empty
        PROVE  \E x \in applied' : x.job = j
    <3>1. CASE status[j] = "completed"
      <4>1. /\ request[j].preview \in Previews
            /\ previews[request[j].preview].stage \in Known
        BY <3>1 DEF References, JobsHavePreviews
      <4>2. request'[j] = request[j] /\ SameRow(request[j].preview)
        BY <3>1, <4>1, JobStep, PreviewStep
      <4>q. QED
        BY <1>0, <1>2, <2>1, <3>1, <4>2 DEF CompletedIsApplied, SameRow
    <3>2. CASE status[j] # "completed"
      <4>1. PICK w \in Threads : MarkCompleted(w)
        BY <2>1, <3>2, OnlyCommitCompletes
      <4>2. thread[w].job = j /\ request' = request /\ thread[w].pc = "validated"
        BY <2>0, <2>1, <3>2, <4>1 DEF MarkCompleted, TypeOK
      <4>3. /\ request[j].preview \in Previews
            /\ previews[request[j].preview].stage \in Known
        BY <4>2, ThreadsHaveRows DEF References, JobsHavePreviews
      <4>4. ~previews[request[j].preview].empty
        BY <2>1, <4>2, <4>3, PreviewStep DEF SameRow
      <4>5. applied' = applied \cup
              {[job |-> j, preview |-> request[j].preview, line |-> request[j].line,
                revision |-> revision[request[j].line]]}
        BY <4>1, <4>2, <4>4 DEF MarkCompleted
      <4>6. [job |-> j, preview |-> request[j].preview, line |-> request[j].line,
             revision |-> revision[request[j].line]] \in applied'
        BY <4>5
      <4>q. QED
        BY <4>6
    <3>q. QED
      BY <3>1, <3>2
  <2>q. QED
    BY <2>1 DEF CompletedIsApplied
<1>q. QED
  BY <1>1, <1>4, <1>5, <1>6 DEF History

(***************************************************************************)
(* Retries                                                                 *)
(***************************************************************************)
\* The steps that count an attempt.
LEMMA AttemptWriters ==
  ASSUME [Next]_vars
  PROVE  \/ UNCHANGED attempts
         \/ \E w \in Threads : MarkCompleted(w)
         \/ \E w \in Threads : MarkRetryAfterRun(w)
         \/ \E w \in Threads : thread[w].pc \in InTransaction /\ MarkFailedAfterRun(w)
<1> DEFINE Goal == \/ UNCHANGED attempts
                   \/ \E w \in Threads : MarkCompleted(w)
                   \/ \E w \in Threads : MarkRetryAfterRun(w)
                   \/ \E w \in Threads : thread[w].pc \in InTransaction /\ MarkFailedAfterRun(w)
<1>0. CASE PreviewNext
  BY <1>0 DEF PreviewNext, PreviewReadLine, PreviewReadOrders, PreviewSave,
         PreviewExpires, EnsurePreviewLoaded, dbVars
<1>1. CASE ApiNext
  BY <1>0, <1>1 DEF ApiNext, ProductionLine, BumpRevision, ApiCrash, CreateScheduleJob,
         PublishScheduleJob, PublishFails, DeleteCreateAudit, DeleteQueuedRow,
         dbVars
<1>2. ASSUME NEW w \in Threads, Transact(w)
      PROVE  Goal
  BY <1>2 DEF Transact, JobAlreadySettled, MarkRunning, LoadPreviewAllocations,
         ValidatePreviewRevision, PreviewGone, PreviewStale, InTransaction,
         dbVars
<1>3. CASE WorkerNext
  BY <1>2, <1>3 DEF WorkerNext, TakeJob, FetchMessage, QueryQueuedJobBatch,
         ProcessBackfillJob, AcquireLineLock, AcquireTimeout, Undecodable, RetriesExhausted,
         RollbackTx, Release, WorkerCrash, InTransaction, dbVars
<1>4. CASE EnvironmentNext
  BY <1>4 DEF EnvironmentNext, LockExpires, LoseMessage, dbVars
<1>5. CASE UNCHANGED vars
  BY <1>5 DEF vars, dbVars
<1>q. QED
  BY <1>1, <1>3, <1>4, <1>5 DEF Next

\* Every step leaves attempts to the jobs that may still run.
LEMMA AttemptsStep ==
  ASSUME References, RowLocks, AttemptsRemain, [Next]_vars
  PROVE  AttemptsRemain'
<1>0. TypeOK /\ Most \in Nat /\ (\A j \in Jobs : attempts[j] \in Nat)
  BY BoundsAssumption DEF References, TypeOK, Most
<1>1. ASSUME NEW w \in Threads, thread[w].pc \in InTransaction
      PROVE  thread[w].job \in Jobs /\ attempts[thread[w].job] < Most
  BY <1>1, ThreadsHaveRows DEF RowLocks, JobRowHeld, AttemptsRemain, InTransaction
<1>2. CASE UNCHANGED attempts
  BY <1>0, <1>2, OnlyCommitCompletes DEF AttemptsRemain
<1>3. ASSUME NEW w \in Threads, MarkCompleted(w)
      PROVE  AttemptsRemain'
  <2> DEFINE j == thread[w].job
  <2>1. j \in Jobs /\ attempts[j] < Most
    BY <1>1, <1>3 DEF MarkCompleted, InTransaction
  <2>2. status' = [status EXCEPT ![j] = "completed"]
        /\ attempts' = [attempts EXCEPT ![j] = @ + 1]
    BY <1>3 DEF MarkCompleted
  <2> HIDE DEF j
  <2>q. QED
    BY <1>0, <2>1, <2>2 DEF AttemptsRemain, TypeOK
<1>4. ASSUME NEW w \in Threads, thread[w].pc \in InTransaction, MarkFailedAfterRun(w)
      PROVE  AttemptsRemain'
  <2> DEFINE j == thread[w].job
  <2>1. j \in Jobs /\ attempts[j] < Most
    BY <1>1, <1>4
  <2>2. status' = [status EXCEPT ![j] = "failed"]
        /\ attempts' = [attempts EXCEPT ![j] = @ + 1]
    BY <1>4 DEF MarkFailedAfterRun
  <2> HIDE DEF j
  <2>q. QED
    BY <1>0, <2>1, <2>2 DEF AttemptsRemain, TypeOK
<1>5. ASSUME NEW w \in Threads, MarkRetryAfterRun(w)
      PROVE  AttemptsRemain'
  <2> DEFINE j == thread[w].job
  <2>1. j \in Jobs /\ attempts[j] + 1 < MaxRetries
    BY <1>1, <1>5 DEF MarkRetryAfterRun, Undecodable, AttemptsLeft, InTransaction
  <2>2. status' = status /\ attempts' = [attempts EXCEPT ![j] = @ + 1]
    BY <1>5 DEF MarkRetryAfterRun, Undecodable
  <2> HIDE DEF j
  <2>3. attempts[j] + 1 < Most
    BY <1>0, <2>1, BoundsAssumption DEF Most
  <2>q. QED
    BY <1>0, <2>1, <2>2, <2>3 DEF AttemptsRemain, TypeOK
<1>q. QED
  BY <1>2, <1>3, <1>4, <1>5, AttemptWriters

(***************************************************************************)
(* The line lock                                                           *)
(***************************************************************************)
\* The steps that write the Redis keys.
LEMMA LockWriters ==
  ASSUME [Next]_vars
  PROVE  \/ UNCHANGED lock
         \/ \E w \in Threads : \/ AcquireLineLock(w)
                              \/ \E ok \in BOOLEAN : AcquireTimeout(w, ok)
                              \/ Release(w)
                              \/ WorkerCrash(w)
         \/ \E l \in Lines : LockExpires(l)
<1>0. CASE PreviewNext
  BY <1>0 DEF PreviewNext, PreviewReadLine, PreviewReadOrders, PreviewSave,
         PreviewExpires, EnsurePreviewLoaded
<1>1. CASE ApiNext
  BY <1>0, <1>1 DEF ApiNext, ProductionLine, BumpRevision, ApiCrash, CreateScheduleJob,
         PublishScheduleJob, PublishFails, DeleteCreateAudit, DeleteQueuedRow
<1>2. ASSUME NEW w \in Threads, Transact(w)
      PROVE  UNCHANGED lock
  BY <1>2 DEF Transact, JobAlreadySettled, MarkRunning, LoadPreviewAllocations,
         ValidatePreviewRevision, PreviewGone, PreviewStale, MarkFailedAfterRun,
         MarkCompleted
<1>3. CASE WorkerNext
  BY <1>2, <1>3 DEF WorkerNext, TakeJob, FetchMessage, QueryQueuedJobBatch,
         ProcessBackfillJob, MarkRetryAfterRun, Undecodable, RetriesExhausted,
         MarkFailedAfterRun, RollbackTx
<1>4. CASE EnvironmentNext
  BY <1>4 DEF EnvironmentNext, LoseMessage
<1>5. CASE UNCHANGED vars
  BY <1>5 DEF vars
<1>q. QED
  BY <1>1, <1>3, <1>4, <1>5 DEF Next

\* A thread that leaves "release" leaves the keys of the others alone.
LEMMA ReleaseStep ==
  ASSUME TypeOK, [Next]_vars,
         NEW w \in Threads, thread[w].pc = "release", thread'[w].pc = "idle",
         NEW l \in Lines, lock[l] # w
  PROVE  lock'[l] = lock[l]
<1>0. lock \in [Lines -> Threads \cup {"free", "orphan"}]
      /\ thread \in [Threads -> ThreadState]
  BY DEF TypeOK
<1>1. ASSUME NEW x \in Threads, AcquireLineLock(x)
      PROVE  lock'[l] = lock[l]
  <2>1. x # w /\ thread'[w] = thread[w]
    BY <1>0, <1>1 DEF AcquireLineLock
  <2>q. QED
    BY <2>1
<1>2. ASSUME NEW x \in Threads, NEW ok \in BOOLEAN, AcquireTimeout(x, ok)
      PROVE  lock'[l] = lock[l]
  <2>1. x # w /\ thread'[w] = thread[w]
    BY <1>0, <1>2 DEF AcquireTimeout, Acknowledge
  <2>q. QED
    BY <2>1
<1>3. ASSUME NEW x \in Threads, Release(x)
      PROVE  lock'[l] = lock[l]
  <2>1. CASE x = w
    <3>1. PICK left : lock' = [lock EXCEPT ![LineOf(w)] = IF @ = w THEN left ELSE @]
      BY <1>3, <2>1 DEF Release
    <3>q. QED
      BY <1>0, <3>1
  <2>2. CASE x # w
    <3>1. thread'[w] = thread[w]
      BY <1>0, <1>3, <2>2 DEF Release, Acknowledge
    <3>q. QED
      BY <3>1
  <2>q. QED
    BY <2>1, <2>2
<1>4. ASSUME NEW x \in Threads, WorkerCrash(x)
      PROVE  lock'[l] = lock[l]
  <2>1. CASE x = w
    BY <1>4, <2>1 DEF WorkerCrash
  <2>2. CASE x # w
    <3>1. thread'[w] = thread[w]
      BY <1>0, <1>4, <2>2 DEF WorkerCrash
    <3>q. QED
      BY <3>1
  <2>q. QED
    BY <2>1, <2>2
<1>5. ASSUME NEW k \in Lines, LockExpires(k)
      PROVE  lock'[l] = lock[l]
  <2>1. thread'[w] = thread[w]
    BY <1>5 DEF LockExpires, workerVars
  <2>q. QED
    BY <2>1
<1>q. QED
  BY <1>1, <1>2, <1>3, <1>4, <1>5, LockWriters

(***************************************************************************)
(* The theorems                                                            *)
(***************************************************************************)
\* The tables start empty, the threads idle.
LEMMA InitIInv ==
  ASSUME Init
  PROVE  IInv
<1>1. TypeOK
  <2>1. NoPreview \in PreviewRow /\ NoRequest \in Request /\ Idle \in ThreadState
    BY DEF NoPreview, PreviewRow, NoRequest, Request, Idle, ThreadState
  <2>q. QED
    BY <2>1, BoundsAssumption DEF Init, TypeOK, JobStatus, HandlerStage
<1>2. PreviewsHaveLines /\ CachesHoldSavedPreviews /\ JobsHavePreviews /\ WorkIsOnJobs
  BY DEF Init, PreviewsHaveLines, CachesHoldSavedPreviews, JobsHavePreviews,
         WorkIsOnJobs, NoPreview, Idle
<1>3. RowLocks
  BY DEF Init, RowLocks, JobRowHeld, LineRowHeld, InTransaction, Idle
<1>4. History
  BY DEF Init, History, ReadsInOrder, AppliedIsRecorded, OneApplicationPerRevision,
         CompletedIsApplied, NoPreview, Known
<1>5. AttemptsRemain
  BY BoundsAssumption DEF Init, AttemptsRemain, Most
<1>q. QED
  BY <1>1, <1>2, <1>3, <1>4, <1>5 DEF IInv, References

\* Every step keeps the inductive invariant.
LEMMA NextIInv ==
  ASSUME IInv, [Next]_vars
  PROVE  IInv'
  BY ReferencesStep, RowLocksStep, HistoryStep, AttemptsStep DEF IInv

\* The inductive invariant holds in every reachable state.
THEOREM Invariance == Spec => []IInv
  BY InitIInv, NextIInv, PTL DEF Spec

\* The types of the tables, caches, queues and threads (TypeOK).
THEOREM TypeCorrect == Spec => []TypeOK
<1>1. IInv => TypeOK
  BY DEF IInv, References
<1>q. QED
  BY <1>1, Invariance, PTL

\* Two previews planned from the same state of a line never both reach the
\* schedule, with any number of workers, expired Redis locks and redeliveries:
\* the revision check under the row lock of validatePreviewRevisionTx suffices.
THEOREM NoDoubleApplication == Spec => []OneApplicationPerRevision
<1>1. IInv => OneApplicationPerRevision
  BY DEF IInv, History
<1>q. QED
  BY <1>1, Invariance, PTL

\* No preview is written to the schedule twice, whatever is redelivered,
\* backfilled or created again for it.
THEOREM PreviewsAppliedOnce == Spec => []AppliedAtMostOnce
<1>1. IInv => AppliedAtMostOnce
  BY DEF IInv, History, AppliedIsRecorded, OneApplicationPerRevision,
         AppliedAtMostOnce
<1>q. QED
  BY <1>1, Invariance, PTL

\* What a worker writes was planned from the orders and allocations the line has
\* at that moment, although PreviewSchedule reads them without a transaction.
THEOREM PlansAreCurrent == Spec => []AppliedOnItsBasis
<1>1. IInv => AppliedOnItsBasis
  BY DEF IInv, History, AppliedIsRecorded, AppliedOnItsBasis
<1>q. QED
  BY <1>1, Invariance, PTL

\* A job is completed exactly if its preview is in the schedule.
THEOREM CompletionIsAtomic == Spec => []CompletedIffApplied
<1>1. IInv => CompletedIffApplied
  BY DEF IInv, History, AppliedIsRecorded, CompletedIsApplied, CompletedIffApplied
<1>q. QED
  BY <1>1, Invariance, PTL

\* The worker that is about to write still sees the revision it validated and
\* a queued job.
THEOREM ValidationHolds == Spec => []ValidatedStaysCurrent
<1>1. ASSUME IInv
      PROVE  ValidatedStaysCurrent
  <2>1. ASSUME NEW w \in Threads, thread[w].pc = "validated"
        PROVE  PreviewIsCurrent(thread[w].job) /\ status[thread[w].job] = "queued"
    <3>1. References /\ RowLocks
      BY <1>1 DEF IInv
    <3>2. /\ thread[w].job \in Jobs
          /\ request[thread[w].job].revision
                = previews[request[thread[w].job].preview].revision
      BY <2>1, <3>1, ThreadsHaveRows DEF References, JobsHavePreviews
    <3>q. QED
      BY <2>1, <3>1, <3>2 DEF RowLocks, JobRowHeld, LineRowHeld, InTransaction,
                              LineOf, PreviewIsCurrent
  <2>q. QED
    BY <2>1 DEF ValidatedStaysCurrent
<1>q. QED
  BY <1>1, Invariance, PTL

\* attempt_count never passes the configured maximum, for every maximum.
THEOREM RetriesEnd == Spec => []AttemptsBounded
<1>1. IInv => AttemptsBounded
  BY DEF IInv, AttemptsRemain, AttemptsBounded, Most
<1>q. QED
  BY <1>1, Invariance, PTL

\* No late message, backfill row or failed publish changes a settled job.
THEOREM OutcomesAreFinal == Spec => SettledStaysSettled
<1> DEFINE Final == \A j \in Jobs : status[j] \in {"completed", "failed"} =>
                                      status'[j] = status[j]
<1>1. IInv /\ [Next]_vars => [Final]_vars
  BY SettledStep DEF IInv
<1>q. QED
  BY <1>1, Invariance, PTL DEF Spec, SettledStaysSettled

\* Whatever happens to the key in between, a thread that ends its job frees no
\* line lock but its own.
THEOREM LocksOfOthersAreKept == Spec => ReleaseOnlyOwnLock
<1> DEFINE Kept == \A w \in Threads, l \in Lines :
                      /\ thread[w].pc = "release"
                      /\ thread'[w].pc = "idle"
                      /\ lock[l] # w
                      => lock'[l] = lock[l]
<1>1. IInv /\ [Next]_vars => [Kept]_vars
  BY ReleaseStep DEF IInv, References
<1>q. QED
  BY <1>1, Invariance, PTL DEF Spec, ReleaseOnlyOwnLock
=============================================================================
