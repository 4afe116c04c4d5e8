----------------------------- MODULE OrderTables -----------------------------
(***************************************************************************)
(* The PostgreSQL store (internal/api/postgres_store.go): orders,          *)
(* allocations, line revisions and saved previews as tables that several   *)
(* API processes and the worker change.  A request reads rows first,       *)
(* checks what it read, and then writes in one transaction that does not   *)
(* look again: what the call remembers in between is its entry in "calls". *)
(* What is read at different times is read in different steps; of a        *)
(* preview these are the line's revision, its orders and its allocations.  *)
(* The orders to plan and the orders to move are two queries and one step: *)
(* a change between them raises the revision, which was read before both,  *)
(* and nobody applies such a preview.                                      *)
(*                                                                         *)
(* The worker applies a saved preview in one transaction that locks the    *)
(* line; jobs, retries and locks around it are ScheduleJobs.  A job's      *)
(* revision is its preview's, and revisions only grow, so that the check   *)
(* of the transaction covers the one at the creation of the job.           *)
(*                                                                         *)
(* A write transaction is one step.  The calls that name several orders    *)
(* name one here.                                                          *)
(***************************************************************************)
EXTENDS OrderRules

CONSTANTS
    Requests,               \* requests that may be in flight
    Claims,                 \* who asks: [subject, role, line]
    Wants, Drafts,          \* what is ordered, at once or after a preview of it
    Changes,                \* what an order may be changed to
    Options,                \* [force, late] of a scheduler's preview
    Amounts,                \* what is confirmed as produced
    MaxOrders, MaxPreviews, \* bounds: orders created, the last one from a draft;
                            \* previews saved
    MaxRevision             \* bound: no call starts after about so many changes

ASSUME TablesAssumption ==
    /\ \A c \in Claims : c.role \in {"sales", "scheduler"}
    /\ \A wanted \in Wants \cup Drafts : wanted.high \in BOOLEAN /\ wanted.due \in Nat
    /\ \A change \in Changes : change.quantity \in Nat /\ change.due \in Nat
    /\ \A option \in Options : option.force \in BOOLEAN /\ option.late \in BOOLEAN
    /\ MaxPreviews \in Nat /\ MaxRevision \in Nat

VARIABLES
    orders, allocations, revision, previews,
    nextOrderID, nextPreviewID,
    calls,          \* request -> what it has read
    confirmed       \* history: preview -> orders created from it

vars == <<orders, allocations, revision, previews, nextOrderID, nextPreviewID, calls, confirmed>>

tables == <<orders, allocations, revision, previews, nextOrderID, nextPreviewID, confirmed>>

Lines == DOMAIN Capacity

NoMap == [x \in {} |-> 0]

Idle == [op |-> "idle"]

Init ==
    /\ orders = NoMap /\ allocations = {} /\ previews = NoMap
    /\ revision = [l \in Lines |-> 0]
    /\ nextOrderID = 1 /\ nextPreviewID = 1
    /\ calls = [r \in Requests |-> Idle]
    /\ confirmed = [p \in 1 .. MaxPreviews |-> 0]

\* Fewer changes the more orders there are.
Bounded == \A l \in Lines : revision[l] + nextOrderID - 1 < MaxRevision

(***************************************************************************)
(* A request: it reads, goes on reading, is refused, or commits            *)
(***************************************************************************)
Begin(r, call) ==
    /\ calls[r] = Idle
    /\ Bounded
    /\ calls' = [calls EXCEPT ![r] = call]
    /\ UNCHANGED tables

GoOn(r, call) ==
    calls' = [calls EXCEPT ![r] = call] /\ UNCHANGED tables

Refuse(r) == GoOn(r, Idle)

Return(r) == calls' = [calls EXCEPT ![r] = Idle]

Bump(l) == revision' = [revision EXCEPT ![l] = @ + 1]

DropAllocations(o) == allocations' = allocations \ Of(allocations, o)

\* Mutant: the table has no CHECK.
Storable_Unchecked(quantity) == quantity \in Nat

\* The CHECK on orders.quantity.
Storable(quantity) == quantity \in MinQuantity .. MaxQuantity

(***************************************************************************)
(* Orders                                                                  *)
(***************************************************************************)
CreateOrder(c, wanted) ==
    /\ c.role = "sales"
    /\ Bounded /\ nextOrderID < MaxOrders
    /\ Wanted(wanted)
    /\ orders' = With(orders, 10 * nextOrderID,
                      NewOrder(wanted, c.subject, revision[wanted.line]))
    /\ nextOrderID' = nextOrderID + 1
    /\ Bump(wanted.line)
    /\ UNCHANGED <<allocations, previews, nextPreviewID, calls, confirmed>>

ReadToUpdate(r, c, o, change) ==
    /\ CanUpdate(orders[o], c) /\ Acceptable(change)
    /\ Begin(r, [op |-> "write", id |-> o, order |-> Amended(orders[o], change)])

ReadToReject(r, c, o) ==
    /\ CanReject(orders[o], c)
    /\ Begin(r, [op |-> "write", id |-> o,
                 order |-> [orders[o] EXCEPT !.status = "rejected"]])

ReadToResubmit(r, c, o, change) ==
    /\ CanResubmit(orders[o], c) /\ Acceptable(change)
    /\ Begin(r, [op |-> "write", id |-> o,
                 order |-> [Amended(orders[o], change) EXCEPT !.status = "pending"]])

\* Mutant: the allocations of the order stay.
WriteOrder_OrderOnly(r) ==
    LET o == calls[r].id IN
    /\ calls[r].op = "write"
    /\ orders' = [orders EXCEPT ![o].status = calls[r].order.status]
    /\ Bump(orders[o].line) /\ Return(r)
    /\ UNCHANGED <<allocations, previews, nextOrderID, nextPreviewID, confirmed>>

\* updateOrderAndRevision: the order goes back as it was read and changed.
WriteOrder(r) ==
    LET o == calls[r].id
        read == calls[r].order
    IN
    /\ calls[r].op = "write"
    /\ orders' = [orders EXCEPT ![o].quantity = read.quantity, ![o].status = read.status,
                                ![o].due = read.due]
    /\ DropAllocations(o) /\ Bump(read.line) /\ Return(r)
    /\ UNCHANGED <<previews, nextOrderID, nextPreviewID, confirmed>>

\* cancelOrderTx reads the order outside the transaction it was given.
ReadToCancel(r, c, o) ==
    /\ orders[o].status # "cancelled" /\ CanCancel(orders[o], c)
    /\ Begin(r, [op |-> "cancel", id |-> o])

CancelOrder(r) ==
    LET o == calls[r].id IN
    /\ calls[r].op = "cancel"
    /\ orders' = [orders EXCEPT ![o].status = "cancelled"]
    /\ DropAllocations(o) /\ Bump(orders[o].line) /\ Return(r)
    /\ UNCHANGED <<previews, nextOrderID, nextPreviewID, confirmed>>

(***************************************************************************)
(* Production                                                              *)
(***************************************************************************)
ReadToStart(r, c, o) ==
    /\ c.role = "scheduler" /\ orders[o].line = c.line
    /\ orders[o].status = "scheduled"
    /\ Begin(r, [op |-> "count", id |-> o])

CountAllocations(r) ==
    /\ calls[r].op = "count"
    /\ IF OpenOf(allocations, calls[r].id) = {}
       THEN Refuse(r)
       ELSE GoOn(r, [calls[r] EXCEPT !.op = "start"])

StartProduction(r) ==
    LET o == calls[r].id IN
    /\ calls[r].op = "start"
    /\ orders' = [orders EXCEPT ![o].status = "inProgress"]
    /\ allocations' = Started(allocations, o)
    /\ Bump(orders[calls[r].id].line) /\ Return(r)
    /\ UNCHANGED <<previews, nextOrderID, nextPreviewID, confirmed>>

\* loadConfirmableProductionOrder
ReadToConfirm(r, c, o, day, produced) ==
    /\ c.role = "scheduler" /\ orders[o].line = c.line
    /\ orders[o].status = "inProgress"
    /\ Begin(r, [op |-> "load", id |-> o, order |-> orders[o], day |-> day,
                 produced |-> produced])

\* loadProductionAllocation takes any row of the day; then the checks on it, and
\* scheduler.ConfirmProduction's on the order.
LoadAllocation(r) ==
    LET call   == calls[r]
        rows   == {a \in Of(allocations, call.id) : a.day = call.day}
        Usable(a) == a.status # "completed" /\ call.produced <= a.quantity
    IN
    /\ call.op = "load"
    /\ \/ /\ \E a \in rows : Usable(a)
          /\ call.produced <= call.order.quantity
          /\ GoOn(r, [call EXCEPT !.op = "confirm"])
       \/ /\ \/ rows = {} \/ \E a \in rows : ~Usable(a)
             \/ call.produced > call.order.quantity
          /\ Refuse(r)

CompleteProduction(r) ==
    LET call == calls[r] IN
    /\ call.op = "confirm" /\ call.produced = call.order.quantity
    /\ orders' = [orders EXCEPT ![call.id].status = "completed"]
    /\ allocations' = {IF a.order = call.id /\ a.day = call.day
                       THEN [a EXCEPT !.locked = TRUE, !.status = "completed"] ELSE a :
                          a \in allocations}
    /\ Bump(orders[calls[r].id].line) /\ Return(r)
    /\ UNCHANGED <<previews, nextOrderID, nextPreviewID, confirmed>>

\* The remainder is a copy of the order as it was read.
PartialProduction(r) ==
    LET call == calls[r]
        o    == call.id
        part == NextPart(o, DOMAIN orders)
        rest == Remainder(call.order, o, call.produced, revision[call.order.line])
    IN
    /\ call.op = "confirm" /\ call.produced # call.order.quantity
    /\ IF Storable(call.produced) /\ Storable(rest.quantity)
       THEN /\ part # NoPart
            /\ orders' =
                  With([orders EXCEPT ![o].quantity = call.produced, ![o].status = "completed"],
                       part, rest)
            /\ allocations' = (allocations \ Of(allocations, o)) \cup
                  {[a EXCEPT !.locked = TRUE, !.status = "completed"] :
                      a \in {b \in Of(allocations, o) : b.day = call.day}}
            /\ Bump(orders[calls[r].id].line) /\ Return(r)
            /\ UNCHANGED <<previews, nextOrderID, nextPreviewID, confirmed>>
       ELSE Refuse(r)

(***************************************************************************)
(* Previews                                                                *)
(***************************************************************************)
\* resolvePreviewLineFromDB: the revision is read before anything else.
ReadLine(r, c, req) ==
    /\ nextPreviewID <= MaxPreviews
    /\ req.line \in Lines
    /\ Begin(r, [op |-> "inputs", by |-> c, request |-> req, revision |-> revision[req.line]])

\* schedulerInputs: a draft is checked before the orders are read, except for its
\* due date.
ReadInputs(r) ==
    LET req == calls[r].request IN
    /\ calls[r].op = "inputs"
    /\ IF /\ calls[r].by.role = "sales" => req.draft.quantity \in MinQuantity .. MaxQuantity
          /\ \A o \in req.resolution : CanMove(orders, allocations, req.line, o)
       THEN GoOn(r, [op |-> "plan", by |-> calls[r].by, request |-> req,
                     revision |-> calls[r].revision, inputs |-> OrderInputs(orders, req)])
       ELSE Refuse(r)

SavePreview(r, revisionRead, allocs, conflicts) ==
    /\ nextPreviewID <= MaxPreviews
    /\ previews' = With(previews, nextPreviewID,
          [actor |-> calls[r].by.subject, role |-> calls[r].by.role,
           request |-> calls[r].request, revision |-> revisionRead,
           allocations |-> allocs, conflicts |-> conflicts])
    /\ nextPreviewID' = nextPreviewID + 1
    /\ Return(r)
    /\ UNCHANGED <<orders, allocations, revision, nextOrderID, confirmed>>

\* Mutant: the preview is stamped with the revision it is saved at.
PlanPreview_StampedLate(r) ==
    LET call == calls[r]
        plan == Plan(PlanRequest(call.inputs, allocations, call.request))
    IN
    /\ call.op = "plan" /\ call.by.role = "scheduler"
    /\ SavePreview(r, revision[call.request.line], Split(orders, plan.allocations),
                   plan.conflicts)

PlanPreview(r) ==
    LET call  == calls[r]
        plan  == Plan(PlanRequest(call.inputs, allocations, call.request))
        split == Split(orders, plan.allocations)
    IN
    /\ call.op = "plan" /\ call.by.role = "scheduler"
    /\ PartsSuffice(split)
    /\ SavePreview(r, call.revision, split, plan.conflicts)

PlanDraft(r) ==
    LET call == calls[r]
        plan == DraftPlan(call.inputs, allocations, call.request, revision[call.request.line])
    IN
    /\ call.op = "plan" /\ call.by.role = "sales"
    /\ SavePreview(r, call.revision, plan.allocations, plan.conflicts)

\* After ten minutes a preview is not found any more.  A schedule that expires is
\* one that nobody applies, so that only drafts need to go.
ExpirePreview(p) ==
    /\ previews[p].role = "sales"
    /\ previews' = Without(previews, p)
    /\ UNCHANGED <<orders, allocations, revision, nextOrderID, nextPreviewID, calls, confirmed>>

(***************************************************************************)
(* A draft becomes an order                                                *)
(***************************************************************************)
ReadToConfirmDraft(r, c, p, deferDraft, deferred) ==
    LET preview == previews[p] IN
    /\ nextOrderID <= MaxOrders
    /\ preview.actor = c.subject /\ preview.role = "sales" /\ c.role = "sales"
    /\ deferDraft => preview.conflicts # <<>> /\ deferred = {}
    /\ deferred \subseteq NamedInConflicts(preview.conflicts)
    /\ \A o \in deferred : CanDefer(orders[o], c, preview.request.line)
    /\ Begin(r, [op |-> "draft", by |-> c, preview |-> p, draft |-> preview.request.draft,
                 deferDraft |-> deferDraft, deferred |-> deferred])

\* Mutant: the DELETE of the preview does not count its rows.
StillAsRead_AnyPreview(call) == \A o \in call.deferred : orders[o].status = "pending"

\* Each deferred order must still be pending, and the preview still be there.
StillAsRead(call) ==
    /\ \A o \in call.deferred : orders[o].status = "pending"
    /\ call.preview \in DOMAIN previews

ConfirmPreviewOrder(r) ==
    LET call  == calls[r]
        line  == call.draft.line
        order == NewOrder(call.draft, call.by.subject, revision[line])
    IN
    /\ call.op = "draft" /\ nextOrderID <= MaxOrders
    /\ IF Wanted(call.draft) /\ StillAsRead(call)
       THEN /\ orders' =
                  With([o \in DOMAIN orders |->
                          IF o \in call.deferred
                          THEN [orders[o] EXCEPT !.status = "rejected"] ELSE orders[o]],
                       10 * nextOrderID,
                       [order EXCEPT !.status = IF call.deferDraft THEN "rejected" ELSE @])
            /\ nextOrderID' = nextOrderID + 1
            /\ Bump(line)
            /\ previews' = Without(previews, call.preview)
            /\ confirmed' = [confirmed EXCEPT ![call.preview] = @ + 1]
            /\ Return(r)
            /\ UNCHANGED <<allocations, nextPreviewID>>
       ELSE Refuse(r)

(***************************************************************************)
(* The worker's transaction                                                *)
(***************************************************************************)
\* Only an order that has parts is cut down to its first piece.
Cut(split) == {split[i].source : i \in DOMAIN split} \ {0}

\* Mutant: a preview is as good as new.
Current_Always(preview) == preview.request.line \in Lines

\* validatePreviewRevisionTx
Current(preview) == preview.revision = revision[preview.request.line]

ApplyPreview(p) ==
    LET preview == previews[p]
        split   == preview.allocations
        line    == preview.request.line
        planned == OrdersPlanned(orders, split, Cut(split), revision[line])
    IN
    /\ preview.role = "scheduler"
    /\ Current(preview)
    /\ split # <<>>
    /\ \A o \in Cut(split) \cup Parts(split) : Storable(planned[o].quantity)
    /\ orders' = planned
    /\ allocations' = AllocationsPlanned(allocations, split, line)
    /\ Bump(line)
    /\ UNCHANGED <<previews, nextOrderID, nextPreviewID, calls, confirmed>>

(***************************************************************************)
(* All calls                                                               *)
(***************************************************************************)
Request(line, chosen, resolution, option, draft) ==
    [line |-> line, start |-> Today, orders |-> chosen, resolution |-> resolution,
     manualForce |-> option.force, allowLate |-> option.late, draft |-> draft]

NoDraft == [line |-> "", quantity |-> 0, high |-> FALSE, due |-> 0]

NoOption == [force |-> FALSE, late |-> FALSE]

OrderNamed(r, c) ==
    \E o \in DOMAIN orders :
        \/ \E change \in Changes :
              ReadToUpdate(r, c, o, change) \/ ReadToResubmit(r, c, o, change)
        \/ ReadToReject(r, c, o)
        \/ ReadToCancel(r, c, o)
        \/ ReadToStart(r, c, o)
        \/ \E a \in Of(allocations, o), produced \in Amounts :
              ReadToConfirm(r, c, o, a.day, produced)

PreviewAsked(r, c) ==
    \/ /\ c.role = "scheduler"
       /\ \E option \in Options, resolution \in {{}} \cup {{o} : o \in DOMAIN orders} :
             ReadLine(r, c, Request(c.line, {}, resolution, option, NoDraft))
    \/ /\ c.role = "sales"
       /\ \E wanted \in Drafts :
             ReadLine(r, c, Request(wanted.line, {}, {}, NoOption, wanted))

DraftAnswered(r, c) ==
    \E p \in DOMAIN previews, deferDraft \in BOOLEAN, deferred \in SUBSET DOMAIN orders :
        ReadToConfirmDraft(r, c, p, deferDraft, deferred)

WentOn(r) == CountAllocations(r) \/ LoadAllocation(r) \/ ReadInputs(r)

Wrote(r) ==
    \/ WriteOrder(r) \/ CancelOrder(r) \/ StartProduction(r)
    \/ CompleteProduction(r) \/ PartialProduction(r)
    \/ PlanPreview(r) \/ PlanDraft(r) \/ ConfirmPreviewOrder(r)

Next ==
    \/ \E c \in Claims, wanted \in Wants : CreateOrder(c, wanted)
    \/ \E r \in Requests :
          \/ \E c \in Claims : OrderNamed(r, c) \/ PreviewAsked(r, c) \/ DraftAnswered(r, c)
          \/ WentOn(r) \/ Wrote(r)
    \/ \E p \in DOMAIN previews : ExpirePreview(p) \/ ApplyPreview(p)

Spec == Init /\ [][Next]_vars

(***************************************************************************)
(* Properties                                                              *)
(***************************************************************************)
\* Two confirmations of one draft that were both read before either wrote create
\* one order.
DraftConfirmedOnce == \A p \in DOMAIN confirmed : confirmed[p] <= 1

\* Quantities fit the CHECK on orders.quantity whatever is planned, split and
\* confirmed, and an allocation is of an order that exists.
TypeOK ==
    /\ \A o \in DOMAIN orders :
          orders[o].status \in Statuses /\ orders[o].quantity \in MinQuantity .. MaxQuantity
    /\ \A a \in allocations : a.order \in DOMAIN orders /\ a.quantity \in 1 .. MaxQuantity
    /\ \A r \in Requests : calls[r] # Idle =>
          calls[r].op \in {"write", "cancel", "count", "start", "load", "confirm",
                           "inputs", "plan", "draft"}

\* The calendar is overbooked with the scheduler's eyes open only: however calls
\* interleave, a day gets more than the line can make by nothing but a job, and a
\* job does it only for a preview by manual force or with conflicts shown.
OverbookedOpenly ==
    [][\A a \in allocations' :
          \/ Load(allocations', a.line, a.day) <= Load(allocations, a.line, a.day)
          \/ Load(allocations', a.line, a.day) <= Capacity[a.line]
          \/ \E p \in DOMAIN previews :
                /\ ApplyPreview(p)
                /\ previews[p].request.manualForce \/ previews[p].conflicts # <<>>]_vars

\* An order that waits to be planned, or was rejected, has no allocation left, even
\* when a job scheduled it between the read and the write of a request.
NothingWaitingIsOnTheCalendar ==
    \A a \in allocations : orders[a.order].status \notin {"pending", "rejected"}

\* Wafers of an order and its parts.
Family(all, o) ==
    SumFunctionOnSet([p \in DOMAIN all |-> all[p].quantity],
                     {p \in DOMAIN all : Original(p) = Original(o)})

\* A job that schedules and splits orders neither adds nor loses wafers: the
\* quantities it plans with are those of its revision, although the preview read
\* them long ago and in several queries.  This is about schedules without
\* conflicts: the worker also writes a schedule with a late conflict
\* (cmd/worker/main.go:285), which has fewer wafers than its order.
JobKeepsQuantities ==
    [][\A p \in DOMAIN previews :
          (ApplyPreview(p) /\ previews[p].conflicts = <<>>) =>
             \A o \in DOMAIN orders : Family(orders', o) = Family(orders, o)]_vars

\* Which status the error texts of the store allow after which.
Follows ==
    [pending |-> {"scheduled", "rejected", "cancelled"},
     rejected |-> {"pending", "cancelled"},
     scheduled |-> {"inProgress", "cancelled"},
     inProgress |-> {"completed"},
     completed |-> {}, cancelled |-> {}]

\* A new order of the rest of another one.
Rest(o, q) == q \notin DOMAIN orders /\ orders'[q].source = o /\ orders'[q].status = "pending"

\* What the error texts promise of every order: only pending or rejected orders
\* can be changed, only pending ones rejected, only scheduled ones started, none
\* in production or completed cancelled, and only orders in production confirmed,
\* so that no order is made of a rest that has been produced.
OrdersMoveLegally ==
    [][\A o \in DOMAIN orders :
          /\ orders'[o].status \in {orders[o].status} \cup Follows[orders[o].status]
          /\ \A q \in DOMAIN orders' : Rest(o, q) => orders[o].status = "inProgress"]_vars
=============================================================================
