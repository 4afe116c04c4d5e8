----------------------------- MODULE OrderStore -----------------------------
(***************************************************************************)
(* MemoryStore (internal/api/server.go): orders, allocations, previews and *)
(* schedule jobs, kept in maps under one mutex.  Every method holds the    *)
(* mutex from its first check to its last write, so every method is one    *)
(* action.  The steps between them interleave: a preview is planned in one *)
(* request, confirmed or turned into a job in a later one, and the job is  *)
(* executed after the mutex was released.                                  *)
(*                                                                         *)
(* A bulk call that fails at its second order has changed the first one    *)
(* and keeps that change: it has the effect of a shorter call.             *)
(***************************************************************************)
EXTENDS OrderRules

CONSTANTS
    Sales, Schedulers,      \* claims: [subject, role, line]
    Wants, Drafts,          \* what is ordered, at once or after a preview of it:
                            \* [line, quantity, high, due]
    Changes,                \* what an order may be changed to: [quantity, due]
    StartDays,              \* start dates a scheduler may ask for
    MaxOrders,              \* bound: orders created, their parts not counted
    MaxPreviews, MaxJobs,   \* bounds: previews and jobs at a time
    Options,                \* [force, late]: manualForce and allowLateCompletion
    MaxEdits,               \* bound: no order is edited or rejected after so many changes
    MaxRevision             \* bound: no request is made after so many changes

ASSUME StoreAssumption ==
    /\ \A c \in Sales : c.role = "sales"
    /\ \A c \in Schedulers : c.role = "scheduler" /\ c.line \in DOMAIN Capacity
    /\ \A wanted \in Wants \cup Drafts : wanted.high \in BOOLEAN /\ wanted.due \in Nat
    /\ \A change \in Changes : change.quantity \in Nat /\ change.due \in Nat
    /\ \A option \in Options : option.force \in BOOLEAN /\ option.late \in BOOLEAN
    /\ StartDays \subseteq Nat
    /\ MaxPreviews \in Nat /\ MaxRevision \in Nat

VARIABLES
    orders,         \* id -> order
    allocations,
    revision,       \* line -> schedule revision
    previews,       \* id -> previewRecord
    jobs,           \* id -> schedule job with its request
    nextOrderID

vars == <<orders, allocations, revision, previews, jobs, nextOrderID>>

Lines == DOMAIN Capacity

NoMap == [x \in {} |-> 0]

Init ==
    /\ orders = NoMap /\ allocations = {}
    /\ revision = [l \in Lines |-> 0]
    /\ previews = NoMap /\ jobs = NoMap
    /\ nextOrderID = 1

\* Fewer changes the more orders there are.
Bounded == \A l \in Lines : revision[l] + nextOrderID - 1 < MaxRevision

Editable == \A l \in Lines : revision[l] < MaxEdits

(***************************************************************************)
(* Shared steps                                                            *)
(***************************************************************************)
\* bumpLineRevisionLocked, once for every order of the set.
Bump(S) ==
    revision' = [l \in Lines |-> revision[l] + Cardinality({o \in S : orders[o].line = l})]

Write(o, order) == orders' = [orders EXCEPT ![o] = order]

SetStatus(S, status) ==
    orders' = [o \in DOMAIN orders |->
                  IF o \in S THEN [orders[o] EXCEPT !.status = status] ELSE orders[o]]

\* removeAllocationsLocked
RemoveAllocations(S) == allocations' = {a \in allocations : a.order \notin S}

NothingElse == UNCHANGED <<previews, jobs, nextOrderID>>

(***************************************************************************)
(* Orders                                                                  *)
(***************************************************************************)
\* Mutant: a new order does not change the line's revision.
CreateOrder_NoBump(c, wanted) ==
    /\ Wanted(wanted)
    /\ orders' = With(orders, 10 * nextOrderID,
                      NewOrder(wanted, c.subject, revision[wanted.line]))
    /\ nextOrderID' = nextOrderID + 1
    /\ UNCHANGED <<allocations, revision, previews, jobs>>

CreateOrder(c, wanted) ==
    /\ Wanted(wanted)
    /\ orders' = With(orders, 10 * nextOrderID,
                      NewOrder(wanted, c.subject, revision[wanted.line]))
    /\ nextOrderID' = nextOrderID + 1
    /\ revision' = [revision EXCEPT ![wanted.line] = @ + 1]
    /\ UNCHANGED <<allocations, previews, jobs>>

UpdateOrderDueDate(c, o, change) ==
    /\ CanUpdate(orders[o], c) /\ Acceptable(change)
    /\ Write(o, Amended(orders[o], change))
    /\ RemoveAllocations({o}) /\ Bump({o}) /\ NothingElse

RejectOrders(c, S) ==
    /\ \A o \in S : CanReject(orders[o], c)
    /\ SetStatus(S, "rejected")
    /\ RemoveAllocations(S) /\ Bump(S) /\ NothingElse

ResubmitOrder(c, o, change) ==
    /\ CanResubmit(orders[o], c) /\ Acceptable(change)
    /\ Write(o, [Amended(orders[o], change) EXCEPT !.status = "pending"])
    /\ RemoveAllocations({o}) /\ Bump({o}) /\ NothingElse

\* Mutant: cancelled orders keep their days.
CancelOrders_KeepDays(c, S) ==
    /\ \A o \in S : orders[o].status # "cancelled" /\ CanCancel(orders[o], c)
    /\ SetStatus(S, "cancelled")
    /\ Bump(S) /\ NothingElse /\ UNCHANGED allocations

\* Orders that are unknown or already cancelled are skipped.
CancelOrders(c, S) ==
    /\ \A o \in S : orders[o].status # "cancelled" /\ CanCancel(orders[o], c)
    /\ SetStatus(S, "cancelled")
    /\ RemoveAllocations(S) /\ Bump(S) /\ NothingElse

(***************************************************************************)
(* Previews                                                                *)
(***************************************************************************)
\* The store never drops a preview that is not used; here the number of one that
\* is out of date is used again, unless a job that is not executed yet holds it.
Free(p) ==
    /\ p \in DOMAIN previews => previews[p].revision # revision[previews[p].line]
    /\ \A j \in DOMAIN jobs : jobs[j].status = "queued" => jobs[j].preview # p

NewPreview(p, preview) ==
    /\ previews' = With(previews, p, preview)
    /\ UNCHANGED <<orders, allocations, revision, jobs, nextOrderID>>

\* planLocked of a request without a draft.
PlanLocked(req) == Plan(PlanRequest(OrderInputs(orders, req), allocations, req))

PreviewSchedule(c, p, req) ==
    LET plan  == PlanLocked(req)
        split == Split(orders, plan.allocations)
    IN
    /\ req.line = c.line
    /\ \A o \in req.resolution : CanMove(orders, allocations, req.line, o)
    /\ PartsSuffice(split)
    /\ NewPreview(p, [actor |-> c, line |-> req.line, revision |-> revision[req.line],
                   request |-> req, allocations |-> split, conflicts |-> plan.conflicts])

PreviewDraft(c, p, req) ==
    LET plan == DraftPlan(OrderInputs(orders, req), allocations, req, revision[req.line]) IN
    /\ Wanted(req.draft)
    /\ NewPreview(p, [actor |-> c, line |-> req.line, revision |-> revision[req.line],
                   request |-> req, allocations |-> plan.allocations,
                   conflicts |-> plan.conflicts])

\* validateSalesDeferredOrdersLocked
MayDefer(c, preview, deferred) ==
    /\ deferred \subseteq NamedInConflicts(preview.conflicts)
    /\ \A o \in deferred : CanDefer(orders[o], c, preview.line)

\* The draft becomes an order, and what the salesperson gives up for it, the
\* draft itself or orders it conflicts with, is rejected.
ConfirmPreviewOrder(c, p, deferDraft, deferred) ==
    LET preview == previews[p]
        draft   == preview.request.draft
        order   == NewOrder(draft, c.subject, revision[draft.line])
    IN
    /\ preview.actor = c
    /\ deferDraft => preview.conflicts # <<>> /\ deferred = {}
    /\ MayDefer(c, preview, deferred)
    /\ orders' = With([o \in DOMAIN orders |->
                          IF o \in deferred THEN [orders[o] EXCEPT !.status = "rejected"]
                                            ELSE orders[o]],
                      10 * nextOrderID,
                      [order EXCEPT !.status = IF deferDraft THEN "rejected" ELSE @])
    /\ nextOrderID' = nextOrderID + 1
    /\ revision' = [revision EXCEPT ![draft.line] = @ + 1 + Cardinality(deferred)]
    /\ previews' = Without(previews, p)
    /\ UNCHANGED <<allocations, jobs>>

(***************************************************************************)
(* Schedule jobs                                                           *)
(***************************************************************************)
\* The number of a job that is finished is used again.
CreateScheduleJob(c, j, p) ==
    LET preview == previews[p] IN
    /\ j \in DOMAIN jobs => jobs[j].status # "queued"
    /\ preview.actor = c
    /\ revision[preview.line] = preview.revision
    /\ jobs' = With(jobs, j,
                    [status |-> "queued", preview |-> p, line |-> preview.line,
                     revision |-> preview.revision, request |-> preview.request])
    /\ UNCHANGED <<orders, allocations, revision, previews, nextOrderID>>

\* canPersistConflicts: manual force, and nothing but days to review.
CanPersist(req, conflicts) ==
    conflicts # <<>> =>
        req.manualForce /\ \A i \in DOMAIN conflicts : conflicts[i].reason = "review"

MayExecute(job, plan) ==
    /\ revision[job.line] = job.revision
    /\ \A o \in job.request.resolution : CanMove(orders, allocations, job.line, o)
    /\ CanPersist(job.request, plan.conflicts)

FailJob(j) ==
    /\ jobs' = [jobs EXCEPT ![j].status = "failed"]
    /\ UNCHANGED <<orders, allocations, revision, previews, nextOrderID>>

CompleteJob(j, plan) ==
    LET job   == jobs[j]
        split == Split(orders, plan.allocations)
    IN
    /\ PartsSuffice(split)
    /\ jobs' = [jobs EXCEPT ![j].status = "completed"]
    /\ orders' = OrdersPlanned(orders, split, PlannedOrders(split), revision[job.line])
    /\ allocations' = AllocationsPlanned(allocations, split, job.line)
    /\ revision' = [revision EXCEPT ![job.line] = @ + 1]
    /\ previews' = Without(previews, job.preview)
    /\ UNCHANGED <<nextOrderID>>

\* The job plans again what the preview planned.
ExecuteScheduleJob(j) ==
    LET plan == PlanLocked(jobs[j].request) IN
    /\ jobs[j].status = "queued"
    /\ IF MayExecute(jobs[j], plan) THEN CompleteJob(j, plan) ELSE FailJob(j)

(***************************************************************************)
(* Production                                                              *)
(***************************************************************************)
StartProduction(c, o) ==
    /\ CanStart(orders[o], o, allocations, c)
    /\ SetStatus({o}, "inProgress")
    /\ allocations' = Started(allocations, o)
    /\ Bump({o}) /\ NothingElse

CompleteProduction(c, o, day) ==
    LET done == {a \in OpenOf(allocations, o) : a.day = day} IN
    /\ CanConfirm(orders[o], o, allocations, c, day, orders[o].quantity)
    /\ SetStatus({o}, "completed")
    /\ allocations' = (allocations \ done) \cup
           {[a EXCEPT !.locked = TRUE, !.status = "completed"] : a \in done}
    /\ Bump({o}) /\ NothingElse

\* Mutant: the comparison is off by one, and the rest can be nothing.
PartialProduction_All(c, o, day, produced) ==
    LET done == {a \in OpenOf(allocations, o) : a.day = day}
        part == NextPart(o, DOMAIN orders)
    IN
    /\ produced <= orders[o].quantity
    /\ CanConfirm(orders[o], o, allocations, c, day, produced)
    /\ part # NoPart
    /\ orders' = With([orders EXCEPT ![o].quantity = produced, ![o].status = "completed"],
                      part, Remainder(orders[o], o, produced, revision[orders[o].line]))
    /\ allocations' = (allocations \ OpenOf(allocations, o)) \cup
           {[a EXCEPT !.locked = TRUE, !.status = "completed"] : a \in done}
    /\ Bump({o}) /\ NothingElse

\* The order keeps what was produced, and the rest is a new pending order.
PartialProduction(c, o, day, produced) ==
    LET done == {a \in OpenOf(allocations, o) : a.day = day}
        part == NextPart(o, DOMAIN orders)
    IN
    /\ produced < orders[o].quantity
    /\ CanConfirm(orders[o], o, allocations, c, day, produced)
    /\ part # NoPart
    /\ orders' = With([orders EXCEPT ![o].quantity = produced, ![o].status = "completed"],
                      part, Remainder(orders[o], o, produced, revision[orders[o].line]))
    /\ allocations' = (allocations \ OpenOf(allocations, o)) \cup
           {[a EXCEPT !.locked = TRUE, !.status = "completed"] : a \in done}
    /\ Bump({o}) /\ NothingElse

(***************************************************************************)
(* All requests                                                            *)
(***************************************************************************)
Request(line, start, chosen, resolution, option, draft) ==
    [line |-> line, start |-> start, orders |-> chosen, resolution |-> resolution,
     manualForce |-> option.force, allowLate |-> option.late, draft |-> draft]

NoOption == [force |-> FALSE, late |-> FALSE]

\* A bulk call names at most two orders.
Bulks == {S \in SUBSET DOMAIN orders : Cardinality(S) \in {1, 2}}

\* A scheduler leaves the choice to the store or names one order.
ChosenOrders == {{}} \cup {{o} : o \in {p \in DOMAIN orders : orders[p].status = "pending"}}

NoDraft == [line |-> "", quantity |-> 0, high |-> FALSE, due |-> 0]

SalesNext ==
    \E c \in Sales :
        \/ \E wanted \in Wants : nextOrderID <= MaxOrders /\ CreateOrder(c, wanted)
        \/ \E o \in DOMAIN orders, change \in Changes : Editable /\ ResubmitOrder(c, o, change)
        \/ \E p \in 1 .. MaxPreviews, wanted \in Drafts :
              nextOrderID <= MaxOrders /\ Free(p) /\ PreviewDraft(c, p, Request(wanted.line, Today, {}, {}, NoOption, wanted))
        \/ \E p \in DOMAIN previews, deferDraft \in BOOLEAN, deferred \in SUBSET DOMAIN orders :
              nextOrderID <= MaxOrders /\ ConfirmPreviewOrder(c, p, deferDraft, deferred)

SchedulerNext ==
    \E c \in Schedulers :
        \/ \E S \in Bulks : Editable /\ RejectOrders(c, S)
        \/ \E p \in 1 .. MaxPreviews, start \in StartDays, chosen \in ChosenOrders, option \in Options,
             resolution \in {{}} \cup {{o} : o \in DOMAIN orders} :
              Free(p) /\ PreviewSchedule(c, p, Request(c.line, start, chosen, resolution, option, NoDraft))
        \/ \E j \in 1 .. MaxJobs, p \in DOMAIN previews : CreateScheduleJob(c, j, p)
        \/ \E o \in DOMAIN orders : StartProduction(c, o)
        \/ \E o \in DOMAIN orders : \E a \in Of(allocations, o) :
              \/ CompleteProduction(c, o, a.day)
              \/ \E produced \in 1 .. orders[o].quantity : PartialProduction(c, o, a.day, produced)

AnyoneNext ==
    \E c \in Sales \cup Schedulers :
        \/ \E o \in DOMAIN orders, change \in Changes : Editable /\ UpdateOrderDueDate(c, o, change)
        \/ \E S \in Bulks : CancelOrders(c, S)

JobsNext == \E j \in DOMAIN jobs : ExecuteScheduleJob(j)

Next == (Bounded /\ (SalesNext \/ SchedulerNext \/ AnyoneNext)) \/ JobsNext

Spec == Init /\ [][Next]_vars

(***************************************************************************)
(* Properties                                                              *)
(***************************************************************************)
\* Every order has wafers, every part an origin, and every allocation an order,
\* through all planning, splitting and confirming in part.
TypeOK ==
    /\ \A o \in DOMAIN orders :
          /\ orders[o].status \in Statuses
          /\ orders[o].quantity \in 1 .. MaxQuantity
          /\ orders[o].source \in {0} \cup DOMAIN orders
    /\ \A a \in allocations :
          /\ a.order \in DOMAIN orders
          /\ a.quantity \in 1 .. MaxQuantity
          /\ a.status \in {"scheduled", "inProgress", "completed"}
    /\ \A j \in DOMAIN jobs : jobs[j].status \in {"queued", "completed", "failed"}

\* The allocations that an order has: an open order one, of all its wafers, and a
\* finished one that which it had in production.
Matches(order, own) ==
    /\ order.status \in {"scheduled", "inProgress"} =>
          \E a \in own : /\ own = {a}
                         /\ a.quantity = order.quantity
                         /\ a.status = order.status
                         /\ a.line = order.line
    /\ order.status = "completed" =>
          \E a \in own : own = {a} /\ a.status = "completed" /\ a.quantity >= order.quantity
    /\ order.status \in {"pending", "rejected", "cancelled"} => own = {}

\* Somebody made an order of wafers that this one was to make: a plan of several
\* days or a partial confirmation.
HasParts(o) == \E p \in DOMAIN orders : orders[p].source = o

\* What an order says and what the calendar says of it agree: a scheduled order
\* and one in production have one open allocation, of all its wafers; a finished
\* order has one that is done, of all its wafers unless other orders were made of
\* some; nobody else has any.  The exception is there because after a partial
\* confirmation the calendar keeps the planned quantity and not, as the
\* repository's README.md:223 has it, the produced one.
AllocationsMatchOrders ==
    \A o \in DOMAIN orders :
        /\ Matches(orders[o], Of(allocations, o))
        /\ orders[o].status = "completed" /\ ~HasParts(o) =>
              \A a \in Of(allocations, o) : a.quantity = orders[o].quantity

Executed(j) == j \in DOMAIN jobs /\ jobs[j].status = "queued" /\ jobs'[j].status = "completed"

\* A day gets more than the line can make only by manual force.
OverbookedByForceOnly ==
    [][\A a \in allocations' :
          \/ Load(allocations', a.line, a.day) <= Load(allocations, a.line, a.day)
          \/ Load(allocations', a.line, a.day) <= Capacity[a.line]
          \/ \E j \in DOMAIN jobs : Executed(j) /\ jobs[j].request.manualForce]_vars

\* What is executed is what the scheduler saw: day, order and quantity.
ExecutedAsShown ==
    [][\A j \in DOMAIN jobs :
          (Executed(j) /\ jobs[j].preview \in DOMAIN previews) =>
             LET shown == previews[jobs[j].preview].allocations
             IN  /\ allocations' = AllocationsPlanned(allocations, shown, jobs[j].line)
                 /\ \A i \in DOMAIN shown :
                       orders'[shown[i].order].quantity = shown[i].quantity]_vars

\* An allocation leaves the calendar when its order is cancelled, when its day is
\* confirmed or when a scheduler moves the order, which takes a low-priority
\* order that is not yet in production.
MovedByChoiceOnly ==
    [][\A a \in allocations :
          \/ \E b \in allocations' : b.order = a.order /\ b.day = a.day /\ b.quantity = a.quantity
          \/ orders'[a.order].status = "cancelled"
          \/ /\ ~a.high
             /\ a.status = "scheduled"
             /\ \E j \in DOMAIN jobs : Executed(j) /\ a.order \in jobs[j].request.resolution]_vars

(***************************************************************************)
(* The promise to the customer                                             *)
(***************************************************************************)
\* The orders that are at a stage: an original and its parts.
Stage(rows, o, s) == {p \in DOMAIN rows : Original(p) = o /\ rows[p].status = s}

Page(rows, o) ==
    [s \in Statuses |-> SumFunctionOnSet([p \in DOMAIN rows |-> rows[p].quantity], Stage(rows, o, s))]

Originals(rows) == {o \in DOMAIN rows : o % 10 = 0}

Book == [o \in Originals(orders) |-> Page(orders, o)]

Promise == INSTANCE OrderBook WITH book <- Book

\* Whatever is planned, split, moved, confirmed in part or pushed back: the wafers of
\* an order, with all its parts, are somewhere, and move along the stages of OrderBook.
ImplementsOrderBook == Promise!Spec
=============================================================================
