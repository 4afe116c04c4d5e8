# WOMS in TLA+

WOMS (wafer order management system) takes orders for wafers, plans them on
production lines with a fixed daily capacity, and follows them through
production.  This directory holds TLA+ models of the parts of it whose
correctness depends on interleaving, failure or arithmetic, TLC configurations
that check them on small instances, and TLAPS proofs that hold for every
instance.  Paths below are relative to the repository (`src/`).

## 1. The system

| Component | Code | State | Operations |
|---|---|---|---|
| API server | `internal/api/server.go`, `postgres_store.go` | PostgreSQL tables; per replica a `MemoryStore` that caches users, lines and previews | order, preview, job, production and user endpoints |
| Scheduling algorithm | `internal/scheduler/scheduler.go` | none (`Plan` is a function of its request; a capacity ledger while it runs) | `Plan`, `ConfirmProduction` |
| Publisher | `internal/api/publisher.go` | Kafka topic `woms.schedule.jobs` | `PublishScheduleJob` |
| scheduler-worker | `cmd/scheduler-worker/main.go` | rows of `schedule_jobs`, `orders`, `schedule_allocations`, `production_lines`; one goroutine per worker and one for the backfill | `runMessageLoop`, `startBackfillLoop`, `processJobPayload` |
| Line lock | `internal/lock/redis.go` | one Redis key per line, with a random value and a TTL | `Acquire`, `Renew`, `Release` |
| Token sessions | `internal/api/token_session.go` | one Redis key per token | `Save`, `Verify`, `Revoke` |
| Users and authentication | `server.go`, `internal/auth` | `users` | login, assign, disable, delete |
| Orders, in-memory store | `server.go` (`MemoryStore`) | maps under one mutex | the same endpoints, when no database is configured |
| HPA peak demo | `server.go`, `postgres_store.go` | lines L001 to L200 | seed, queue, summary |
| Web client, start-up, health check, metrics, deployment | `web`, `internal/startup`, `cmd/healthcheck`, `internal/metrics`, `deploy` | none shared with the above | |

How they interact.  A scheduler asks an API replica for a **preview**: the
replica reads the line (with its `schedule_revision`), the pending orders and
the existing allocations in three separate queries, runs `Plan` and stores the
result.  Confirming the preview creates a **job** row, and then publishes a
message that names it.  A worker thread, reached by the message or by its own
polling of queued rows (the backfill), takes the line's Redis lock and, in one
transaction, locks the job row, loads the preview's allocations, locks the line
row and compares revisions, writes orders and allocations, bumps the revision
and completes the job.  Every other change of a line's orders or allocations
bumps the revision in its own transaction, which is what makes older previews
stale.

What is hard about it, and what must nevertheless hold:

* **Jobs.**  Messages are redelivered, skipped and lost; the Redis lock can
  expire under its owner; rows are polled long before they are processed;
  transactions fail at any statement; processes die.  A preview must reach the
  schedule at most once, only on the line state it was planned from, together
  with the status of its job, and every queued job must be settled eventually.
* **Planning.**  Several orders compete for the capacity left by the existing
  allocations; a plan must respect it, must not lose or invent wafers, must not
  let a lower-ranked order displace a higher-ranked one, and must report what it
  cannot keep.
* **Orders.**  Splitting, partial production and cancellation create and remove
  wafers on several rows; the in-memory store does each under a mutex, the
  PostgreSQL store reads and writes in different transactions.
* **Users.**  A token outlives a change of its user's role, line or status.

`PROJECT.json` lists every component with its status, and every hazard at the
line of code where it bites.

## 2. Modules

| Module | What it is |
|---|---|
| `ScheduleJobs` | the life of a schedule job: API replicas, PostgreSQL rows and row locks, Kafka, Redis, worker threads |
| `ScheduleJobs_proofs` | its inductive invariant and the theorems that follow |
| `MCScheduleJobs` | instances for TLC, with the symmetry of ids |
| `ScheduleJobRetries` | `ScheduleJobs` with a count of executions per job |
| `Scheduler` | `scheduler.Plan`, iteration by iteration |
| `Scheduler_proofs` | its inductive invariant and theorems |
| `MCScheduler` | small requests |
| `SchedulePreview` | `runSchedulePlan`: two plans and what a sales draft is shown |
| `SchedulePreview_proofs` | the inductive invariant of both passes and the theorems about drafts |
| `MCSchedulePreview` | small drafts |
| `SchedulePlan`, `PlanOnce` | the function that `scheduler.Plan` computes, without its loops and its ledger, and the promise to answer with it |
| `SchedulePlan_proofs` | sums and folds over finite sets, and what a plan contains, for every request |
| `OrderRules` | what both stores have in common: who may do what to an order, planning, splitting, the tables after a plan or a confirmation |
| `OrderRules_proofs` | what the split of a plan and the tables after it contain, for every request |
| `OrderStore` | `MemoryStore`: orders, allocations, previews and jobs under one mutex, and the mapping to `OrderBook` |
| `OrderStore_proofs` | its inductive invariant and theorems, and that it implements `OrderBook` |
| `OrderBook` | the abstract promise: where the wafers of an order are, and how they may move |
| `MCOrderStore` | a small line |
| `OrderTables` | the PostgreSQL handlers, split at their queries, next to the worker's transaction |
| `OrderTables_proofs` | its inductive invariant and theorems |
| `MCOrderTables` | a small line |
| `Sessions` | accounts, tokens, Redis sessions and the shared Redis connection |
| `Sessions_proofs` | its inductive invariant and theorems |
| `MCSessions` | small sets of accounts, and the liveness property |

## 3. ScheduleJobs

### Correspondence with the code

| Variables | Code |
|---|---|
| `revision` | `production_lines.schedule_revision` |
| `previews` | rows of `schedule_previews`, and the local variables of a `PreviewSchedule` call that has not inserted its row yet (`stage` "line", "orders") |
| `status`, `attempts`, `request` | rows of `schedule_jobs`, committed |
| `audit` | the `audit_logs` rows about jobs |
| `jobRow`, `lineRow` | who holds the row lock of `SELECT ... FOR UPDATE` |
| `handler` | where the API handler that created the job stands (`handleScheduleJobs`) |
| `cachedPreviews`, `cachedRevision` | `MemoryStore.previews` and `MemoryStore.lines` of each replica |
| `kafka` | jobs with a message that may still be fetched |
| `lock` | the Redis key of a line; its random value is modelled by the thread that drew it |
| `thread` | a worker goroutine: where it is, its job, and whether handling succeeded |
| `batch` | rows read by `queryQueuedJobBatch` and not processed yet |
| `applied` | history only: which preview was written on which revision of which line |

`ordersAt` and `allocsAt` of a preview are history as well: the revisions at
which its second and third read took place.

Each transaction is split at the statements another transaction can interleave
with.  PostgreSQL runs at READ COMMITTED: a statement sees what is committed
when it starts, `FOR UPDATE` and `UPDATE` wait for the row, and writes appear at
the commit.  The statements after the last lock (`persistPreviewAllocations`
beyond `validatePreviewRevisionTx`, `markCompleted`, the commit) are therefore
one step.  The status 'running' and the attempt of `markRunning` are written in
the same transaction and are never visible to anybody else, which is why
`MarkRunning` changes only the lock.

Errors inside the transaction are of three kinds, and the code treats them
differently: stale data (`PreviewGone`, `PreviewStale`) fails the job at once;
an error that leaves the transaction usable (the stored allocations cannot be
decoded: `MarkRetryAfterRun`, `RetriesExhausted`) spends one attempt; and a
failed SQL statement poisons the transaction, so that everything including the
attempt is rolled back (`RollbackTx`).

Simplifications: jobs without a preview (`persistLineSchedule`) are left out,
because no endpoint creates one; partitions and offsets are a set of messages
that may be fetched again or lost; renewals of the Redis key are not steps,
since a key that is renewed is a key that has not expired, and a renewal that
fails cancels the context, which is `RollbackTx`.

### Runs

| Run | Instance | Question |
|---|---|---|
| `jobs_redelivery` | 1 preview, 2 jobs for it, 1 message loop, 1 backfill loop | Is a preview written at most once, and are outcomes final, although the lock expires at any time and messages come again? |
| `jobs_competing` | 2 previews of the same line state, 2 jobs | Is only the first of them written? |
| `jobs_changes` | 1 preview, 2 replicas, up to 2 changes of the line | Is what is written always planned from the line's present orders and allocations? |
| `jobs_crash` | 1 job, 2 attempts, 1 crash of the replica or of a worker | Do job row and schedule agree, are attempts bounded, does the job settle? |
| `jobs_refused` | 1 job | Is a job that was answered with 502 never carried out? **No.** |
| `jobs_retries` | 1 job, 1 attempt | Is the number of executions bounded by `WORKER_MAX_RETRIES`? **No.** |

Bounds.  `MaxRevision` bounds the changes of a line's orders: two changes are
enough to have one between two reads of a preview and one after it.
`MaxCrashes` is one, which TLC places before or after every step.  Two jobs and
two threads suffice for every race on a row, since each property relates at most
two jobs.  The proofs need none of these bounds.

Every run says `CHECK_DEADLOCK FALSE`: when all jobs are settled, all
previews have expired and the bounds are used up, nothing is left to do.

Fairness (`jobs_crash`).  A worker thread that can take a job, give up waiting
for a lock, go on with its transaction or release does so (weak fairness: the
goroutine is scheduled and the database answers).  A lock that is free again and
again is acquired some time (strong fairness on `AcquireLineLock`: `Acquire`
polls).  Keys and previews expire (clocks move).  The only commit assumed to get
through eventually is that of `PreviewGone`, which fails a stale job (strong
fairness); writes may fail forever, messages may all be lost, and neither the
replica's handlers nor Kafka are assumed to be fair.  Under this the backfill
alone settles every queued job.

### What the two violated properties show

* `RefusedIsNotCarriedOut`.  The test `server_test.go:645` says that a
  publication failure "should rollback queued job".  The job row is committed
  before the message is sent, so the backfill loop can take the job, and complete
  it, while the write to Kafka is failing.  `DeleteQueuedScheduleJob` then deletes
  the job's audit row but not the completed job, and the client is answered 502.
  `CompletedIsAudited`, also in the module, fails for the same reason.
* `RetriesBounded`.  `README.md:116` calls `WORKER_MAX_RETRIES` the maximum of
  retries for database errors.  An SQL error inside the transaction rolls the
  attempt back with everything else, so the job is executed again and again
  until its preview expires.

### What is proved

`ScheduleJobs_proofs` proves, for all finite or infinite sets of lines, previews,
jobs, replicas and threads and all values of the bounds, from
`NamesAssumption` (the special values "none", "free" and "orphan" are not ids,
message loops and backfill loops are different threads) and `BoundsAssumption`
(the limits are natural numbers):

| Theorem | Property |
|---|---|
| `TypeCorrect` | `TypeOK` |
| `NoDoubleApplication` | `OneApplicationPerRevision` |
| `PreviewsAppliedOnce` | `AppliedAtMostOnce` |
| `PlansAreCurrent` | `AppliedOnItsBasis` |
| `CompletionIsAtomic` | `CompletedIffApplied` |
| `ValidationHolds` | `ValidatedStaysCurrent` |
| `RetriesEnd` | `AttemptsBounded` |
| `OutcomesAreFinal` | `SettledStaysSettled` |
| `LocksOfOthersAreKept` | `ReleaseOnlyOwnLock` |

None of these is inductive alone.  The inductive invariant `IInv` has four
layers, each preserved once the ones before it are known:

1. `References`: the type invariant, and that ids point to rows that exist.  A
   cached preview is a saved one; a job's columns agree with its preview's; work
   in Kafka, in a batch or in a thread is on a job that was created.
2. `RowLocks`: a thread inside a transaction holds its job's row and the job is
   queued; a thread that has validated holds the line's row and the line is still
   at the job's revision; and every held row lock belongs to such a thread.  This
   is where mutual exclusion comes from: the Redis lock does not appear in it.
3. `History`: a preview's reads happened in order
   (`revision <= ordersAt <= allocsAt <=` the line's present revision), every
   application is recorded by a completed job on the revision all three reads saw,
   and that revision is less than the line's present one.  So when a worker finds
   the line at the preview's revision, all three reads saw this very revision, and
   no earlier application can have been made on it.
4. `AttemptsRemain`: a queued job has an attempt left.

`Invariance` combines `InitIInv` and `NextIInv`, which rests on one preservation
lemma per layer (`ReferencesStep`, `RowLocksStep`, `HistoryStep`, `AttemptsStep`),
with one step per action.

`ReleaseOnlyOwnLock` needs no invariant beyond the types: `Release` compares the
value of the key with its own.  Model-checked only: `QueuedEventuallySettles` (liveness
is out of the prover's reach).

## 4. Scheduler and SchedulePreview

### Correspondence with the code

`scheduler.Plan` is sequential and shares nothing, but it is a nest of loops over
one mutable ledger, and what it promises relates all orders of a request with each
other.  `Scheduler` is therefore a state machine whose steps are the iterations of
its loops, and its properties are invariants of all intermediate states.

| Variables | Code |
|---|---|
| `request` | `Request`; chosen once from the constant `Requests` |
| `unread` | position of the loop of `buildCapacityLedger` |
| `highUsed`, `lowUsed`, `newUsed`, `lowByDate`, `lockedByDate`, `reported` | the maps of `capacityLedger` |
| `todo`, `order`, `remaining`, `day` | the loops of `Plan` and `planOrder` |
| `finish`, `missing` | the loop of `estimateFinishDate` |
| `allocations`, `conflicts`, `finishDate` | `Result` |

| Action | Code |
|---|---|
| `ReadExisting` | one iteration of `buildCapacityLedger`: `SkipOtherLine`, `NoteForReview` (manual force) or `TakeCapacity` |
| `NextOrder`, `NoOrderLeft` | `sortedOrders` and the loop of `Plan`; the first of the sorted orders is the one that ranks before all others |
| `SkipFullDay`, `PlaceQuantity`, `OrderPlaced` | one iteration of `planOrder`; `PlaceQuantity` includes `recordManualForceConflict` |
| `GiveUp`, `EstimateDay`, `RecordLateConflict` | `recordLateCapacityConflict`, with one step for each day of `estimateFinishDate` |

Dates are natural numbers, and -1 stands for no date.  All dates of a request are
parsed as `YYYY-MM-DD` or are midnights of the line's time zone
(`currentDateInLineTimezone`), so `truncateDate` has nothing to cut off.  A list of order
ids without repetitions (`appendUnique`) is a set.  Order ids are numbers that
compare as the strings do.  Customer, status and the dates that are only copied
into an allocation are left out.  Requests that `validateRequest` or
`validateOrder` refuses return an error and no plan; `IsRequest` states what
is left.  Nothing is assumed of the existing allocations: days may be overbooked,
allocations may belong to other lines or to orders of the request.

`SchedulePreview` is `runSchedulePlan`: for a sales draft, `Plan` runs once without
the draft (the baseline) and once with it, and `salesDraftPreviewResult` hides the
conflicts that the baseline has, too, and takes the finish date from the
draft's own allocations.  It extends `Scheduler` and runs its steps (`PlanStep`)
in two passes.

### Runs

| Run | Instance | Question |
|---|---|---|
| `scheduler_plan` | 2 orders of 1 or 3 wafers, 2 wafers a day, up to 2 existing allocations, due days 1 and 2, every combination of priority, age, manual force and late completion | Does a plan respect capacity, rank and due dates, keep every wafer, report what it cannot keep, and end? |
| `draft_preview` | 2 pending orders and a draft of id 9, or no draft; one day half taken | Does a draft displace nobody ahead of it, are exactly the orders shown that it pushes past their due dates, and is the finish date the draft's? |

Bounds.  Capacity 2 with quantities 1 and 3 has orders that fit a day, fill it,
leave one wafer of it, and span days; two existing allocations on one day of a
capacity of 2 overbook it.  Due days 1 and 2 with starts 0 to 2 have orders that are
in time, late by part of their wafers, and late from the start.  Rank is a relation
of two orders, so two orders show every case of it; the third of `draft_preview`
is the draft.  `MCRequests` is the union of three such sets, because their product
is too large; each varies fully what the others hold fixed.
`CHECK_DEADLOCK FALSE`: a plan, or a preview, that is finished stops.

The function.  `SchedulePlan!Plan` says what the answer to a request is, with sums
instead of a ledger and without loops: what an order has placed up to a day is the
lesser of its quantity and of what the days up to there have free (`PlacedBy`), its
pieces are where that grows, and the plan of a request is a fold over its orders in
rank.  `ImplementsPlan`, in `Scheduler`, is the refinement
`INSTANCE PlanOnce WITH answer <- ...`: when the loops end they have that answer, list
order and conflicts included, and until then they have given none.  TLC checks it on the
small requests, and it is proved for all.  The order
modules use the function in place of the loops.

Reference definitions.  `LedgerIsExact`, `QuantityKept` and `EarliestFinishIsExact`, in
`Scheduler`, compare the result with sums over the request and the allocations that do not use
the ledger.  `LedgerIsExact` is what gives `CapacityRespected` and
`NoCapacityWasted`, which are stated with the ledger, their meaning in wafers.

Fairness.  `Terminates` assumes weak fairness of `Next`: `Plan` runs in one
goroutine and waits for nothing.

What the runs do not say: `QuantityKept` shows that an order reported late keeps
the pieces placed before its due date.  What becomes of its other wafers is decided
by whoever writes the plan, see section 5 and `main.go:285` there.

### What is proved

`Scheduler_proofs` proves, for every set of requests with `RequestsAssumption`
(positive capacity and quantities, dates that are natural numbers):

| Theorem | Property |
|---|---|
| `TypesAreRespected` | `TypeOK` |
| `DaysAreNotOverbooked` | `CapacityRespected` |
| `PlansAreTight` | `NoCapacityWasted` |
| `RankIsRespected` | `NoOvertaking` |
| `DueDatesAreKept` | `DueDates` |
| `OrdersAreSplitByDay` | `OnePiecePerDay` |
| `ForceIsNotSilent` | `ForceIsReported` |
| `LedgerCountsEachWaferOnce` | `LedgerIsExact` |
| `QuantitiesAreKept` | `QuantityKept` |
| `EstimatesAreExact` | `EarliestFinishIsExact` |
| `PlanIsFollowed` | `Spec => []PlanInv`, the invariant of the refinement |
| `LoopsImplementPlan` | `ImplementsPlan` |

The inductive invariant adds to these properties:

* `LedgerFirst`: nothing is planned while the ledger is still being read, so
  capacity only ever falls afterwards (`AvailableFalls`).
* `RankOrder`: orders with a piece or a conflict rank before those in `todo`, and
  before the order being planned or are that order.
* `Frontier`: while an order is planned, all days from the start date to `day` are
  full, and the order's own pieces lie before `day`, or on it with nothing more to
  place there.
* `Reviews`: every existing allocation that has been read is among those named on
  its day, and each piece placed where somebody is named has its conflict.

The argument for `NoOvertaking` shows why they are needed.  A new piece is on a
day with free capacity.  By `NoCapacityWasted` no earlier piece is on a later
day (`FreeDayIsLater`); by `DueDates` the due date of a late order has passed; and
by `RankOrder` nothing planned earlier ranks after it (`NoneAfter`).

The sums.  `SchedulePlan_proofs` begins with what all proofs about plans need of sums and folds over finite
sets (empty, one element more or less, equal functions, images).  Induction over sets
is not available to the provers, so each lemma goes by a smallest counterexample: inclusion
is well-founded on the subsets of a finite set (`SmallestSubset`), and taking an element
out of the smallest subset that violates a lemma gives a smaller one.  With them, each step of `Plan` adds a wafer to the
ledger, to an order and to a day at once, and the three reference definitions follow.

The loops compute the function (`LoopsImplementPlan`).  `PlanInv` is `IInv` with three conjuncts:

* `Rosters`: `lowByDate` and `lockedByDate` hold the orders of the existing allocations
  read so far, so that a conflict names whom `Plan` names.
* `ReportsHavePieces`: nothing is reported of a day before the order has a piece there.
  Without it the code could take a review of this day for one it has reported.
* `FollowsPlan`: between two orders the result is `PlanAfter(request, Taken)`, the plan of
  the orders taken so far; while an order is planned, the result is the plan of the others
  and what the order gets up to some `last`, which is `day` or the day before it
  (`PlannedTo`).

`FreeIsAvailable` ties the two sides together: what the ledger has left of a day is the
capacity without the sums of the plan, by `LoadIsExact`.  One iteration of the
loop is then one more day of `PlacedBy` (`NextDayTakes`): a full day adds nothing (`PlannedFullDay`),
another adds the piece and perhaps its conflict (`PlannedPiece`).  Lists are described by what they
continue and by the order of their days (`Continues`), and two lists of one description
are equal (`SameContinuation`), since days are sorted and no day occurs twice.  An order ends
with all its wafers (`PlannedWhole`) or late (`PlannedLate`); for the latter, `FinishFound` shows that the day
the estimate finds on the ledger is the `FinishDay` of the function.  `Plan` itself is a
fold over a set, and `PlanSteps` takes it apart in rank order, which is the order of
`NextOrder`.

`SchedulePreview_proofs` proves, for every set of requests that contains with a request the
one without its draft (`DraftAssumption`):

| Theorem | Statement |
|---|---|
| `PreviewInvariance` | `PreviewSpec => []PreviewInv`, the inductive invariant of both passes |
| `DraftsDisplaceNobodyAhead` | `DraftDisplacesNobodyAhead` |
| `OnlyPushedOrdersAreFlagged` | `PushedOrdersAreFlagged` |
| `FinishDatesAreKept` | `FinishDateIsKept` |

The first of them compares two runs of the planner.  A plan that is done is greedy
(`PlansFor`): each order takes on each day what is left of it or of the day.  Two such plans
of requests that agree on the orders ranking before the draft have the same pieces for
all of them (`PlansAgree`): otherwise there is a first order in rank, and for it a
least day, on which they differ, and that day has the same room in both.  The second
one follows from `Accounts`: in either plan an order is whole or reported late.

Model-checked only: `Terminates` (liveness).

## 5. Orders

### OrderRules and OrderStore

The in-memory store holds one mutex from the first check of a method to its last
write, so each method is one action of `OrderStore`.  What interleaves are the
requests of one piece of work: a preview is planned, a job is created from it, and
the job is executed after the mutex was released in between; a draft is previewed
and confirmed later.

| Variables | Code |
|---|---|
| `orders`, `allocations` | `MemoryStore.orders`, `.allocations` |
| `revision` | `MemoryStore.lines[..].ScheduleRevision` |
| `previews`, `jobs` | `.previews`; `.jobs` with `.jobRequests` |
| `nextOrderID` | `.nextOrderID` |

| Action | Code |
|---|---|
| `CreateOrder`, `UpdateOrderDueDate`, `RejectOrders`, `ResubmitOrder`, `CancelOrders` | the methods of these names |
| `PreviewSchedule`, `PreviewDraft` | `PreviewSchedule` without and with a draft order, through `planLocked` and `runSchedulePlan` |
| `ConfirmPreviewOrder` | the draft becomes an order; `deferDraft` and `deferred` are what the salesperson gives up for it |
| `CreateScheduleJob`, `ExecuteScheduleJob` | the methods; execution plans again, and `MayExecute` decides between `CompleteJob` and `FailJob` |
| `StartProduction`, `CompleteProduction`, `PartialProduction` | `StartProduction`, and the two outcomes of `ConfirmProduction` |

`OrderRules` holds the checks (`CanUpdate`, `CanReject`, ..., one for each function of
the code), the selection of what is planned (`Selected`, `CanMove`, `PlanRequest`),
and splitting: `Split` gives each later piece of an order an id of its own,
`OrdersPlanned` and `AllocationsPlanned` are the tables after a plan is written.  `ORD-n`
is the number 10n and its parts are 10n+1 to 10n+9, so that ids compare as the strings
do.  `MaxParts` (9) bounds the parts of an order for that reason; the code has no such
bound, and an action that would need a tenth part is not taken.  Texts (customer, note,
reasons), audit entries and update times are left out.
An order's age is the revision of its line when it was created.

`OrderBook` is the promise to the customer, without ids, days or plans: the wafers of
an order and its parts lie in stages, and each step moves wafers from stages to stages
without changing their sum, except that an amendment changes what waits.
`ImplementsOrderBook` maps the store to it by adding up the quantities of an original
order and all its parts, for each status.

### Run `orders_memory`

One line of 2 wafers a day, a low-priority order of 3 wafers that needs two days and
is split, a high-priority draft of 2 that fills a day, one salesperson, one scheduler,
two orders, one preview and one job at a time, with manual force or late completion.
Each order can be planned, moved, forced, confirmed in part, planned again and
cancelled within `MaxRevision` (6) changes; `MaxEdits` allows edits only early, since
edits are always possible and would use up the changes.  `MaxRevision` counts
new orders twice.

| Property | What it says of the code |
|---|---|
| `TypeOK` | no order is empty, no part lacks its origin |
| `AllocationsMatchOrders` | whoever is scheduled or in production has one open allocation, of all its wafers; a finished order has one that is done, of all its wafers unless another order was made of some; nobody else is on the calendar |
| `OverbookedByForceOnly` | a stale preview, a moved order or work in production never makes a job overbook a day unless it is by manual force |
| `ExecutedAsShown` | a job that is executed writes the days and quantities that its preview showed, although it plans again |
| `MovedByChoiceOnly` | high-priority orders and orders in production are not moved by anybody's job |
| `ImplementsOrderBook` | no wafer is lost or made twice |

`CHECK_DEADLOCK FALSE`: nothing happens once the bounds are used up.

What the code does and `README.md:223` has otherwise.  After a partial confirmation

- the order keeps its id, the produced quantity and the status completed, and the rest
  waits under a new id (`ORD-n-1`), where the README says that "the same order ID"
  returns to pending;
- the order is cut to the produced quantity while its allocation keeps the planned one
  (`server.go:2089`, `finalizeProductionConfirmationTx` in `postgres_store.go`; a test,
  `server_test.go:3043`, has 800 produced of a day that stays at 900), where the README
  says that "the produced quantity on that date" is kept.  A later plan therefore takes
  more of that day for used than was made.

`AllocationsMatchOrders` is stated as the code is: an order of which others were made
(`HasParts`) is exempt from the equality, and only has at least its own wafers on the
calendar.  What it has there is exactly what it was planned with, since the quantity of
an allocation never changes while it is on its day (`MovedByChoiceOnly`), and what it
gives away is counted in `ImplementsOrderBook`.

### OrderTables

In PostgreSQL a handler reads an order (and perhaps allocations or a preview), checks
it in Go, and then writes in a transaction that addresses the rows by id and does not
look at them again.  Each query is a step of its own, and `calls[r]` is what request
`r` remembers between them.

| `calls[r].op` | Where the request is |
|---|---|
| `write` | `UpdateOrderDueDate`, `RejectOrders` or `ResubmitOrder` has read its order; `updateOrderAndRevision` is next |
| `cancel` | `cancelOrderTx` has read its order, on another connection than the transaction's |
| `count`, `start` | `StartProduction` has read the order, has counted its allocations |
| `load`, `confirm` | `ConfirmProduction` has read the order, the allocation of the day |
| `inputs`, `plan` | a preview has read the line's revision, its orders |
| `draft` | `ConfirmPreviewOrder` has read the preview and the orders to defer |

`ApplyPreview` is the worker's transaction for a preview that is current.
`ScheduleJobs` is about everything around it, and justifies that it is one step: the
line row stays locked from the comparison of revisions to the commit.  A job carries
its preview's revision and revisions only grow, so the check at the creation of the
job adds nothing to the one in the transaction, and jobs are not a variable here.

Simplifications.  A write transaction is one step.  At READ COMMITTED its statements
could interleave with those of others; that is finer than what is modelled.  A bulk
call names one order (`RejectOrders` has a transaction for each, `CancelOrders` one
for all).  The orders to plan and the orders to move are
read in one step: a change between the two queries raises the revision, which was read
before both, and `ApplyPreview` refuses the preview.

### Runs `orders_db` and `orders_races`

One line of 4 wafers a day; an order may have 2 to 6 wafers, the code's 25 to 2500
scaled down so that a part can be too small.  An order of 6 wafers for two days
(split into 4 and 2), or changed to 5 (split into 4 and 1, which the CHECK refuses), a
high-priority draft of 4, two requests in flight, two orders, the last of which comes
from a draft, two previews, of which drafts expire, and five changes (`MaxRevision`,
which counts new orders twice).  Races are between two requests, or a request and the worker.  Requests are
interchangeable (`SYMMETRY`); the run checks no liveness.

| Property | What it says of the code |
|---|---|
| `TypeOK` | the CHECKs of the tables stop every plan and every confirmation that would break them, and the transaction with it |
| `DraftConfirmedOnce` | two confirmations of one draft create one order: the second `DELETE` of the preview finds no row |
| `NothingWaitingIsOnTheCalendar` | writing back a stale order deletes its allocations too, so what waits is never on the calendar |
| `OverbookedOpenly` | no interleaving overbooks a day, only a job whose conflicts were shown or accepted |
| `JobKeepsQuantities` | a job's plan has the quantities of its revision, because the revision is read before the orders |
| `OrdersMoveLegally` | **violated** |

`OrdersMoveLegally` states which status the store's own error texts allow after
which ("only pending or rejected orders can change order details", `server.go:1084`).
TLC's counterexample: a request reads a pending order in order to change it, another
request cancels the order, and the first one writes it back; the cancelled order is
pending.  The same shape is in all the handlers that read and write in two steps.
The second conjunct, from "only in-progress orders can be confirmed" (`server.go:2048`,
`postgres_store.go:1291`), is violated as well when it is checked alone: two
confirmations of one allocation are both read before either writes, the one completes
the order and the other then cuts it and makes an order of a "rest" that has been
produced; two in part make two orders of the rest.  No unique id stands in the way,
because the id of the rest is looked up in the second transaction.

Conflicts.  The worker writes the allocations of a preview that has conflicts
(`main.go:285` and `persistPreviewAllocations` do not look at them), where the in-memory
store refuses to unless they are days to review under manual force
(`server.go:1604`).  A plan with a late conflict has too few wafers for its order; split
and written, the order has fewer wafers than were ordered.  `JobKeepsQuantities` and
`OverbookedOpenly` are therefore stated for plans without conflicts, which is how
the client uses them (`README.md:221`).

### What is proved

`OrderRules_proofs`, with `SchedulePlan_proofs`, is about the operators that both stores use,
for every request.  A plan is a fold; `PlanInduction` proves what holds of every plan from what one order adds
to it (`OrderPlanned`, `DaysOfOrder`): a piece is of an order of the request, on a day from the
start on, of at least one wafer and at most the order's.  `SplitOfPlan` says the same
after splitting (`PiecesFit`), and that the ids of parts are new and different; that a plan
without conflicts gives every selected order all its wafers (`WholePlanned`); and that one
without manual force leaves no day with a piece above the capacity (`RoomLeft`).
`PlanOfLine` and `SameSplit` say what a plan and its split depend on: the orders and
allocations of the line, whatever the other lines have.
`OrdersAfterPlan`, `RowsAfterPlan` and `AllocationsAfterPlan` say what the tables have then, and the
`LoadOf...` lemmas what that does to the wafers of a line and a day.

`OrderStore_proofs`, from `RulesAssumption` (capacities and quantities are positive) and
`StoreAssumption` (claims have the roles of their sets, wishes are numbers), for all lines,
capacities, claims, wishes and bounds:

| Theorem | Statement |
|---|---|
| `StoreInvariance` | `Spec => []StoreInv` |
| `StoreIsTyped` | `Spec => []TypeOK` |
| `CalendarMatchesOrders` | `Spec => []AllocationsMatchOrders` |
| `OnlyChosenOrdersMove` | `Spec => MovedByChoiceOnly` |
| `OnlyForceOverbooks` | `Spec => OverbookedByForceOnly` |
| `StoreImplementsOrderBook` | `Spec => ImplementsOrderBook` |
| `PreviewsStayTrue` | `Spec => []ShownInv` |
| `JobsExecuteWhatWasShown` | `Spec => ExecutedAsShown` |

The first half of `AllocationsMatchOrders` (`Matched`) is nearly inductive.  `StoreInv` adds the types of all rows; that ids
are below the next one, so that a new order does not take the id of a part; that an
allocation has the priority of its order, which is what `CanMove` and `Plan` go by; and that
previews and jobs ask for their own line, so that a job touches no other.
`TablesChanged` reduces a step to the orders it touches.  The second half, that a finished
order has all its wafers on the calendar unless others were made of some, is
`FinishedInFull`, inductive on top of `StoreInv`: `NextFinishes` shows that every step keeps
the finished orders with their allocations and the origins of all orders, and that who
gets finished has its wafers in full or a rest that names it.

`OnlyForceOverbooks` is about the loads of days: `OnlyJobsBook` shows that every other step
drops allocations or marks them where they are, and `JobBooks` that a job without manual
force leaves a day with a piece within what `RoomLeft` counted, and every other day with
what it had or less.

`StoreImplementsOrderBook` is the refinement.  A page of the book is a sum for each status over
an order and its parts (`Page`); `PageTotal` says that a page counts every wafer of that
family once, and `FlowOf` that a step at whose end each order is where it was or went
from stages in `from` to stages in `to`, and whose families have the wafers they had, is a flow
between those stages.  Then each action has a lemma of its own: bulk calls and production are moves
(`OrdersMove`), a confirmation in part gives the rest to a part of the same original
(`FamilyCut`, `PartIsNoOriginal`), a new order opens a page (`OrderPlaced`: its id is above
all others, so it has no parts), and an edit amends the page of the original, or of nobody
when a part's original is not an order (`OrderAmended`).  A job is harder, since an order that
is scheduled already may be cut and its wafers scheduled again as parts: `FlowOfSchedule`
shows that nothing but `pending` can have lost wafers, so that `scheduled` gained what it
lost.  That a family keeps its wafers is `FamilyKept`, and needs that an executed job has
no late conflict (`CanPersist`).  Sums are those of `SchedulePlan_proofs`.

`JobsExecuteWhatWasShown` is why a job may plan again and still write what the
scheduler confirmed: the only link between the two is a number, the revision of the line.
`ShownInv` says what the number is worth: a preview whose line still has its revision shows
what would be planned *now*; a queued job whose preview is saved is the one made of it;
and an order is on one line with its parts.  It is inductive because every step raises
the revision of each line on which it changes an order or an allocation (`LinesStay`, one
lemma for each action: `EditsStay`, `BulksStay`, `ConfirmStays`, `ProductionStays`, `JobStays`...),
revisions only grow, and a plan sees nothing of other lines (`PlanOnLine`, from `PlanOfLine`).
The last part of `ShownInv` is for the split, which takes ids for parts next to those that
are taken: a part of the same original on another line would change them.

`OrderTables_proofs`, from `RulesAssumption` and `TablesAssumption`, for all lines, orders,
requests and bounds:

| Theorem | Statement |
|---|---|
| `DraftsConfirmedOnce` | `Spec => []DraftConfirmedOnce` |
| `TablesInvariance` | `Spec => []TablesInv` |
| `TablesAreTyped` | `Spec => []TypeOK` |
| `NobodyWaitsOnTheCalendar` | `Spec => []NothingWaitingIsOnTheCalendar` |
| `JobsKeepQuantities` | `Spec => JobKeepsQuantities` |
| `OnlyOpenlyOverbooked` | `Spec => OverbookedOpenly` |

A count of at most one is not inductive: a second confirmation needs the preview's row,
so `DraftInv` adds that a preview that is saved, or whose id is not given out yet, has
no order.

In `TablesInv` every call and every preview remembers things that may be wrong by the time they
are used, and the invariant says what is still right.  What a call writes back has a
status that waits, which is why `WriteOrder` drops the allocations.  What a preview read
of a line is what the tables hold *if* the line is still at the revision that the preview
read first (`HasRead`, `PreviewFits`).  `Later` is the reason: every step that changes an
order or an allocation of a line bumps the line's revision, and revisions only grow, so
orders and allocations of a line whose revision stays are those they were.  That the ids chosen for parts are
still free then needs one more thing, that an order is on one line with all its
parts: an order that took such an id would be on this line.  With this the worker, which
compares revisions in its transaction, splits and schedules orders that are pending, or
scheduled and chosen to move, and no others (`ApplyPreviewKeeps`).

The last two theorems are about what such a schedule says (`Schedules`).  `FamilyKept`:
pieces of an order become the order and its parts, each with its piece's quantity, so that
the wafers of a family are those of the pieces, and by `WholePlanned` those of the orders
before.  `JobBooks`: whatever is to move has a piece, so that all its old allocations go,
and what stays is what `RoomLeft` counted; a day without a piece has what it had, or less.
All other steps drop allocations or mark them where they are (`RequestBooksNothing`).

## 6. Sessions

With `AUTH_SESSION_STORE=redis` a token is good while its Redis key exists.  Its claims
are what the account was at log-in.

| Variables | Code |
|---|---|
| `users` | `users`: role, line, disabled |
| `referenced` | users with rows in `orders`, `schedule_previews` or `audit_logs` |
| `keys` | the Redis keys `woms:token:...` with their expiry |
| `connected`, `wire`, `replies` | `RedisTokenSessionStore.conn` and what is on its way in either direction |
| `orphans` | commands written to connections that were closed |
| `calls` | a request: verifying a password, waiting for the mutex ("ready"), holding it ("sent"), accepted, or inside `DeleteUser` |
| `issued` | tokens that clients have; of each, how long the log-in took that was first answered with it |
| `now` | time in seconds |

`held` (when an account last had a role) and `ended` (tokens whose session Redis deleted
for a log-out) are history, and so are the lengths in `issued` and `took`, `age` and `late`
of a call.

A log-in is three steps and more.  `Authenticate` reads the account's row
(`postgres_store.go:61`), then `VerifyPassword` takes its time or says no (`Refuse`), then
`Login` makes the token of what was read, good for `TTL` from *now* (`jwt.go:31`), and
the command to save it waits for the mutex.  An administrator, and the clock, may come in
between.
`Send` is `commandLocked` up to the write, `Read` is `readRedisValue`, `GiveUp` every
error of it (deadline, broken connection, error reply) with `closeLocked`.  Redis
executes what is on the wire at any time, also after the connection was closed.
`DeleteUser` of an account is three statements without a transaction: `CheckUser`,
`RecordDeletion`, `DeleteUser` or `DisableUser`.

### Run `sessions`

Two accounts, two requests in flight, tokens that live for two ticks, a clock of two
ticks.  Log-ins begin at tick 0, and end at any (two of one account that end in the same
tick are the same token); the administrator changes the other account at tick 0
(`LastChange`), before it is read, while its password is verified or later.  Two requests
suffice for one to be served on the connection on which the other gave up.  One command
of that account may come late (`MaxOrphans`, `Delayed`), by ticks as well.  The clock moves
while requests verify passwords or nobody is served (`Pauses`).  Ages of 0, 1 and 2 occur: a
request is let in with claims lost two ticks, a whole `TTL`, ago when its log-in took
a tick or more.  `CHECK_DEADLOCK FALSE`: when all tokens have expired nobody can log in any
more within the bound.

| Property | What it says of the code |
|---|---|
| `LogoutEndsSession` | a request that begins after Redis deleted the key is refused: no answer meant for somebody else lets it in. A log-in of the same second, which has the same token, may open the session again |
| `ClaimsAreRecent` | a request acts with what its account was allowed less than the token's lifetime *and the length of its log-in* before it came, whatever happened to the account, and whatever the Redis key says. The lifetime alone is no bound: it is counted from the end of the log-in, what the token says from its beginning |
| `EveryWaitEnds` | a request that waits for the mutex, or for Redis, gets on |

Fairness.  A read ends, by an answer or by its deadline (weak fairness of `GiveUp` or
an answer): `SetDeadline` bounds it.  The mutex is handed to a request that waits (strong
fairness of `Send` or `NotSent`, since others take it in between): Go's mutexes
do so after a millisecond of waiting.  That dialling ends is assumed as well; it has no
deadline in the code (`token_session.go:203`), only the operating system's.  Redis is
not fair at all.  `EveryWaitEnds` is checked for one request; they are alike.

### What is proved

`Sessions_proofs` proves, for every set of accounts, roles and requests, every lifetime,
and without `MaxTime`, `LastChange`, `Pauses`, `MaxTokens`, `MaxOrphans` and `Delayed` (the proof uses no guard that
mentions them):

| Theorem | Statement |
|---|---|
| `Invariance` | `Spec => []IInv`, the inductive invariant |
| `LogoutsHold` | `Spec => []LogoutEndsSession` |
| `ClaimsAge` | `Spec => []ClaimsAreRecent` |

The only assumption is `SessionsAssumption`.  `LogoutEndsSession` is not inductive: it
speaks of a request that was let in, and the reason why it should not be lies with
commands and answers under way.  `IInv` adds three things.  `Connection`: at most one
request is on the connection, with its own command or with one answer, and when nobody
is, nothing is left on it (this is what `closeLocked` is for).  `EndedIsOver`: a token whose
session was deleted has no key, and no command that would set it is with a request or
among the late ones.  `LateIsRefused`: a request that came after that waits for the
mutex, or for an answer that is not "1".  `ClaimsAreRecent` rests on `Recent`: an
account that is enabled has its present role until now, an account that was read had
what was read at that time or later, and a token expires at most `TTL` and the length of its log-in after
its account last had the token's role.  `CallStep` and `SameCalls` say what
a step may do to one call, or to none, without breaking the invariant; each action is
then shown to be such a step.

`EveryWaitEnds` is a liveness property and stays with TLC.

## 7. Plan and what is not modelled

Done: `ScheduleJobs`, `Scheduler`, `SchedulePreview` and `Sessions` with their proofs,
`SchedulePlan` with the proof that the loops compute it, the orders of both stores with
`OrderBook`, and the invariants of both stores with what follows from them.

Open, in this order:

1. `RowLocks`: the orders in which API and worker transactions lock rows.  API
   transactions lock an order and then its line (`postgres_store.go:2129`), the worker
   the job, the line and then the orders.
2. The statements inside the write transactions of `OrderTables` at READ COMMITTED.

Left out on purpose:

* Schedule calendar and history: queries that change nothing.
* HPA peak demo and demo conflict orders: the first is a generator of load on lines of
  its own, the second repeats `CreateOrder`.
* In-memory store: `DeleteQueuedScheduleJob` (publishing cannot fail without a
  publisher); previews by administrators, which nobody can confirm; the second half of a bulk call
  that fails midway, since its effect is that of a shorter call; numbers of previews and
  jobs, which the model uses again when nothing depends on the old ones.
* The current date is fixed: a date that passes makes previews start later than
  shown, which the client sees as a plan made on another day.
* Sessions: how passwords are hashed and tokens encoded (pure functions), the in-memory accounts and
  the in-memory sessions (maps under a mutex), and the store that accepts every token.
* HTTP decoding and wording, CORS, metrics, health checks, start-up polling, the web
  client and the deployment: stateless or sequential, with no state shared with the
  rest.
