----------------------------- MODULE OrderRules -----------------------------
(***************************************************************************)
(* What the in-memory store and the PostgreSQL store have in common: who   *)
(* may do what to an order, how a preview is planned, how an order that is *)
(* planned on several days is split into orders, and what the tables are   *)
(* after a plan, a production start or a confirmation.                     *)
(*                                                                         *)
(* The id ORD-n is 10 * n, and ORD-n-k, a part of it that was split off    *)
(* later, is 10 * n + k.  Dates are day numbers.                           *)
(***************************************************************************)
EXTENDS SchedulePlan

CONSTANTS
    Capacity,                   \* production line -> wafers a day
    MinQuantity, MaxQuantity,   \* 25 and 2500
    Today                       \* the current date of the lines

ASSUME RulesAssumption ==
    /\ \A l \in DOMAIN Capacity : Capacity[l] \in Nat \ {0}
    /\ MinQuantity \in Nat \ {0} /\ MaxQuantity \in Nat /\ Today \in Nat

Statuses ==
    {"pending", "scheduled", "inProgress", "completed", "rejected", "cancelled"}

\* A table with one more row, or another one for the same id.
With(table, id, row) ==
    [x \in DOMAIN table \cup {id} |-> IF x = id THEN row ELSE table[x]]

Without(table, id) == [x \in DOMAIN table \ {id} |-> table[x]]

Original(o) == o - (o % 10)

\* Bound: parts of an order.
MaxParts == 9

NoPart == 0

\* nextRemainderOrderID: the next suffix nobody has.
NextPart(o, taken) ==
    LET parts == (o + 1 .. Original(o) + MaxParts) \ taken
    IN  IF parts = {} THEN NoPart ELSE Min(parts)

(***************************************************************************)
(* Orders                                                                  *)
(***************************************************************************)
NewOrder(wanted, subject, now) ==
    [line |-> wanted.line, quantity |-> wanted.quantity, high |-> wanted.high,
     due |-> wanted.due, status |-> "pending", createdBy |-> subject,
     createdAt |-> now, source |-> 0]

Wanted(wanted) ==
    /\ wanted.quantity \in MinQuantity .. MaxQuantity
    /\ wanted.line \in DOMAIN Capacity
    /\ wanted.due > Today

\* A quantity or a due date of 0 is left as it is.
Amended(order, change) ==
    [order EXCEPT !.quantity = IF change.quantity = 0 THEN @ ELSE change.quantity,
                  !.due = IF change.due = 0 THEN @ ELSE change.due]

Acceptable(change) ==
    /\ change.quantity # 0 => change.quantity \in MinQuantity .. MaxQuantity
    /\ change.due # 0 => change.due > Today

CanUpdate(order, c) ==
    /\ c.role = "scheduler" => order.line = c.line
    /\ c.role = "sales" => order.createdBy = c.subject
    /\ order.status \in {"pending", "rejected"}

CanReject(order, c) ==
    c.role = "scheduler" /\ order.line = c.line /\ order.status = "pending"

CanResubmit(order, c) ==
    /\ c.role = "sales" /\ order.createdBy = c.subject
    /\ order.status \in {"pending", "rejected"}

CanCancel(order, c) ==
    /\ c.role = "sales" =>
          order.createdBy = c.subject /\ order.status \in {"pending", "rejected"}
    /\ c.role = "scheduler" => order.line = c.line
    /\ order.status \notin {"inProgress", "completed"}

CanDefer(order, c, line) ==
    order.createdBy = c.subject /\ order.line = line /\ order.status = "pending"

(***************************************************************************)
(* Allocations                                                             *)
(***************************************************************************)
Of(allocations, o) == {a \in allocations : a.order = o}

OpenOf(allocations, o) == {a \in Of(allocations, o) : a.status # "completed"}

\* The wafers that a line is to make on a day.
Load(allocations, l, d) ==
    SumFunctionOnSet([a \in allocations |-> a.quantity],
                     {a \in allocations : a.line = l /\ a.day = d})

\* The open allocations of an order go into production, and stay where they are.
Started(allocations, o) ==
    (allocations \ OpenOf(allocations, o)) \cup
        {[a EXCEPT !.locked = TRUE, !.status = "inProgress"] : a \in OpenOf(allocations, o)}

CanStart(order, o, allocations, c) ==
    /\ c.role = "scheduler" /\ order.line = c.line
    /\ order.status = "scheduled"
    /\ OpenOf(allocations, o) # {}

CanConfirm(order, o, allocations, c, day, produced) ==
    /\ c.role = "scheduler" /\ order.line = c.line
    /\ order.status = "inProgress"
    /\ produced > 0 /\ produced <= order.quantity
    /\ \E a \in OpenOf(allocations, o) : a.day = day /\ produced <= a.quantity

\* What is left of an order after a partial confirmation is a new order.
Remainder(order, o, produced, now) ==
    [order EXCEPT !.quantity = @ - produced, !.status = "pending", !.source = o,
                  !.createdAt = now]

(***************************************************************************)
(* Planning a preview                                                      *)
(***************************************************************************)
\* Mutant: neither priorities nor locks are looked at.
CanMove_Unguarded(orders, allocations, line, o) ==
    /\ o \in DOMAIN orders
    /\ orders[o].line = line /\ orders[o].status = "scheduled"
    /\ Of(allocations, o) # {}

\* canMoveScheduledOrderLocked: low priority, and every allocation untouched.
CanMove(orders, allocations, line, o) ==
    /\ o \in DOMAIN orders
    /\ orders[o].line = line /\ orders[o].status = "scheduled" /\ ~orders[o].high
    /\ Of(allocations, o) # {}
    /\ \A a \in Of(allocations, o) : ~a.locked /\ a.status = "scheduled"

\* PREVIEW-DRAFT sorts after every order id.
DraftId == 1000

Input(order) ==
    [quantity |-> order.quantity, high |-> order.high, due |-> order.due,
     createdAt |-> order.createdAt]

\* All pending orders of the line unless some are selected, and the orders to move.
Selected(orders, req) ==
    {o \in DOMAIN orders :
        /\ orders[o].line = req.line
        /\ IF orders[o].status = "pending" THEN req.orders \in {{}, req.orders \cup {o}}
                                           ELSE o \in req.resolution}

\* Plan counts what exists; the order of the list does not matter.
Listed(allocations) == [a \in allocations |-> a]

\* Mutant: what is in production or done takes no capacity.
PlanRequest_Unlocked(inputs, allocations, req) ==
    [line |-> req.line, capacity |-> Capacity[req.line],
     start |-> req.start, currentDate |-> Today, orders |-> inputs,
     existing |-> Listed({a \in allocations : a.order \notin req.resolution /\ ~a.locked}),
     manualForce |-> req.manualForce, allowLate |-> req.allowLate]

PlanRequest(inputs, allocations, req) ==
    [line |-> req.line, capacity |-> Capacity[req.line],
     start |-> req.start, currentDate |-> Today, orders |-> inputs,
     existing |-> Listed({a \in allocations : a.order \notin req.resolution}),
     manualForce |-> req.manualForce, allowLate |-> req.allowLate]

OrderInputs(orders, req) == [o \in Selected(orders, req) |-> Input(orders[o])]

\* salesDraftPreviewResult: conflicts that exist without the draft are hidden.
DraftPlan(backlog, allocations, req, now) ==
    LET inputs   == With(backlog, DraftId, Input(NewOrder(req.draft, "", now)))
        baseline == Plan(PlanRequest(backlog, allocations, req)).conflicts
        plan     == Plan(PlanRequest(inputs, allocations, req))
    IN  [plan EXCEPT !.conflicts = SelectSeq(@, LAMBDA c :
            \/ c.order = DraftId
            \/ \A i \in DOMAIN baseline :
                  baseline[i].order # c.order \/ baseline[i].reason # c.reason)]

\* previewDeferredOrderIDs
NamedInConflicts(conflicts) ==
    UNION {{conflicts[i].order} \cup conflicts[i].affected : i \in DOMAIN conflicts}
        \ {DraftId}

(***************************************************************************)
(* Splitting                                                               *)
(***************************************************************************)
FirstOfOrder(pieces, i) == \A k \in 1 .. i - 1 : pieces[k].order # pieces[i].order

\* The first piece of an order keeps its id, each later one gets an id that
\* neither an order nor a piece before it has.
SplitIds(orders, pieces) ==
    LET ids[i \in DOMAIN pieces] ==
            IF FirstOfOrder(pieces, i) THEN pieces[i].order
            ELSE NextPart(pieces[i].order, DOMAIN orders \cup {ids[k] : k \in 1 .. i - 1})
    IN  ids

\* splitAllocationOrderIDs: each later piece becomes an order of its own.
Split(orders, pieces) ==
    LET ids == SplitIds(orders, pieces) IN
    [i \in DOMAIN pieces |->
        [order |-> ids[i], day |-> pieces[i].day, quantity |-> pieces[i].quantity,
         locked |-> pieces[i].locked,
         source |-> IF FirstOfOrder(pieces, i) THEN 0 ELSE pieces[i].order]]

\* The bound on parts is not reached.
PartsSuffice(split) == \A i \in DOMAIN split : split[i].order # NoPart

PieceOf(split, o) == split[CHOOSE i \in DOMAIN split : split[i].order = o]

Parts(split) == {split[i].order : i \in {k \in DOMAIN split : split[k].source # 0}}

PlannedOrders(split) == {split[i].order : i \in DOMAIN split}

\* Mutant: an order that is split keeps its quantity.
OrdersPlanned_NotCut(orders, split, resized, now) ==
    [o \in DOMAIN orders \cup Parts(split) |->
        IF o \in DOMAIN orders
        THEN [orders[o] EXCEPT !.status =
                 IF @ = "pending" /\ o \in PlannedOrders(split) THEN "scheduled" ELSE @]
        ELSE LET piece == PieceOf(split, o)
             IN  [orders[piece.source] EXCEPT !.quantity = piece.quantity,
                     !.status = "scheduled", !.source = piece.source, !.createdAt = now]]

\* A split order keeps the quantity of its first piece, the parts have theirs,
\* and whoever was pending is scheduled.
OrdersPlanned(orders, split, resized, now) ==
    [o \in DOMAIN orders \cup Parts(split) |->
        IF o \notin PlannedOrders(split) THEN orders[o]
        ELSE LET piece == PieceOf(split, o)
             IN  IF o \notin DOMAIN orders
                 THEN [orders[piece.source] EXCEPT
                          !.quantity = piece.quantity, !.status = "scheduled",
                          !.source = piece.source, !.createdAt = now]
                 ELSE [orders[o] EXCEPT
                          !.quantity = IF o \in resized THEN piece.quantity ELSE @,
                          !.status = IF @ = "pending" THEN "scheduled" ELSE @]]

\* The pieces replace the open allocations of their orders.
AllocationsPlanned(allocations, split, line) ==
    (allocations \ UNION {OpenOf(allocations, o) : o \in PlannedOrders(split)})
       \cup {[order |-> split[i].order, line |-> line, day |-> split[i].day,
              quantity |-> split[i].quantity, high |-> split[i].locked,
              locked |-> split[i].locked, status |-> "scheduled"] : i \in DOMAIN split}
=============================================================================
