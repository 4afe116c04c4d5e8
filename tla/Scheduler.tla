------------------------------ MODULE Scheduler ------------------------------
(***************************************************************************)
(* scheduler.Plan: the orders of one request are placed, one after the     *)
(* other in the order of their rank, on the days of one production line.   *)
(* One step is one iteration of one of its loops: over the existing        *)
(* allocations (buildCapacityLedger), over the orders (Plan), over the     *)
(* days of an order (planOrder) and over the days of the estimate for a    *)
(* late order (estimateFinishDate).                                        *)
(*                                                                         *)
(* Dates are day numbers.  A request that validateRequest or validateOrder *)
(* refuses has no plan and is left out.                                    *)
(***************************************************************************)
EXTENDS SchedulePlan

CONSTANT Requests   \* the requests to plan

Smaller(a, b) == IF a < b THEN a ELSE b

Later(a, b) == IF a < b THEN b ELSE a

(***************************************************************************)
(* Requests.  orders maps the id of an order to its data; ids are numbered *)
(* as the strings sort.  No current date is -1, before every day.          *)
(***************************************************************************)
OrderInput ==
    [quantity : Nat \ {0}, high : BOOLEAN, due : Nat, createdAt : Nat]

ExistingAllocation ==
    [order : Nat, line : STRING, day : Nat, quantity : Nat \ {0}, high : BOOLEAN,
     locked : BOOLEAN]

IsRequest(r) ==
    /\ r.line \in STRING
    /\ r.capacity \in Nat \ {0}
    /\ r.start \in Nat
    /\ r.currentDate \in Nat \cup {-1}
    /\ r.manualForce \in BOOLEAN
    /\ r.allowLate \in BOOLEAN
    /\ DOMAIN r.orders \subseteq Nat /\ IsFiniteSet(DOMAIN r.orders)
    /\ \A o \in DOMAIN r.orders : r.orders[o] \in OrderInput
    /\ r.existing \in Seq(ExistingAllocation)

ASSUME RequestsAssumption == \A r \in Requests : IsRequest(r)

VARIABLES
    request,
    \* the capacity ledger: maps whose domain is the days recorded so far
    unread,        \* index of the next existing allocation
    highUsed,
    lowUsed,
    newUsed,
    lowByDate,     \* day -> ids of orders that may be moved
    lockedByDate,  \* day -> ids of orders that may not
    reported,      \* <<order, day>> of the manual-force conflicts
    \* the loops
    pc,            \* "orders", "days", "estimate" or "done"
    todo,          \* orders not planned yet
    order,         \* the order being planned, and how much of it is left
    remaining,
    day,
    finish,        \* the estimate, and how much it still has to place
    missing,
    \* the result
    allocations,
    conflicts,
    finishDate     \* -1 is the zero date

ledgerVars == <<unread, highUsed, lowUsed, newUsed, lowByDate, lockedByDate, reported>>
loopVars   == <<pc, todo, order, remaining, day, finish, missing>>
resultVars == <<allocations, conflicts, finishDate>>
vars == <<request, ledgerVars, loopVars, resultVars>>

(***************************************************************************)
(* Maps: a missing key reads as zero, or as no orders.                     *)
(***************************************************************************)
EmptyMap == [d \in {} |-> 0]

Used(map, d) == IF d \in DOMAIN map THEN map[d] ELSE 0

OrdersOn(map, d) == IF d \in DOMAIN map THEN map[d] ELSE {}

Add(map, d, quantity) ==
    [x \in DOMAIN map \cup {d} |->
        IF x = d THEN Used(map, d) + quantity ELSE map[x]]

AddOrder(map, d, o) ==
    [x \in DOMAIN map \cup {d} |->
        IF x = d THEN OrdersOn(map, d) \cup {o} ELSE map[x]]

(***************************************************************************)
(* The capacity ledger                                                     *)
(***************************************************************************)
Existing == request.existing[unread]

SkipOtherLine ==
    /\ Existing.line # request.line
    /\ UNCHANGED <<highUsed, lowUsed, lowByDate, lockedByDate>>

\* Manual force plans as if the line were empty, and only remembers whom the
\* plan collides with.
NoteForReview ==
    /\ Existing.line = request.line
    /\ request.manualForce
    /\ IF Existing.high \/ Existing.locked
       THEN /\ lockedByDate' = AddOrder(lockedByDate, Existing.day, Existing.order)
            /\ UNCHANGED lowByDate
       ELSE /\ lowByDate' = AddOrder(lowByDate, Existing.day, Existing.order)
            /\ UNCHANGED lockedByDate
    /\ UNCHANGED <<highUsed, lowUsed>>

\* Mutant: = instead of +=.
TakeCapacity_Overwrite ==
    /\ Existing.line = request.line
    /\ ~request.manualForce
    /\ IF Existing.locked
       THEN /\ highUsed' = Add(EmptyMap, Existing.day, Existing.quantity)
            /\ lockedByDate' = AddOrder(lockedByDate, Existing.day, Existing.order)
            /\ UNCHANGED <<lowUsed, lowByDate>>
       ELSE /\ lowUsed' = Add(EmptyMap, Existing.day, Existing.quantity)
            /\ lowByDate' = AddOrder(lowByDate, Existing.day, Existing.order)
            /\ UNCHANGED <<highUsed, lockedByDate>>

TakeCapacity ==
    /\ Existing.line = request.line
    /\ ~request.manualForce
    /\ IF Existing.locked
       THEN /\ highUsed' = Add(highUsed, Existing.day, Existing.quantity)
            /\ lockedByDate' = AddOrder(lockedByDate, Existing.day, Existing.order)
            /\ UNCHANGED <<lowUsed, lowByDate>>
       ELSE /\ lowUsed' = Add(lowUsed, Existing.day, Existing.quantity)
            /\ lowByDate' = AddOrder(lowByDate, Existing.day, Existing.order)
            /\ UNCHANGED <<highUsed, lockedByDate>>

LedgerComplete == unread \notin DOMAIN request.existing

ReadExisting ==
    /\ ~LedgerComplete
    /\ unread' = unread + 1
    /\ SkipOtherLine \/ NoteForReview \/ TakeCapacity
    /\ UNCHANGED <<request, newUsed, reported, loopVars, resultVars>>

(***************************************************************************)
(* The orders of the request, by rank                                      *)
(***************************************************************************)
\* sortedOrders: high priority, then due date, then age, then id.
Before(o, p) ==
    LET a == request.orders[o]
        b == request.orders[p]
    IN  \/ a.high /\ ~b.high
        \/ /\ a.high = b.high
           /\ \/ a.due < b.due
              \/ a.due = b.due /\ a.createdAt < b.createdAt
              \/ a.due = b.due /\ a.createdAt = b.createdAt /\ o < p

\* scheduleStartDate: never on the current date or before it.
Start == Later(request.start, request.currentDate + 1)

\* Mutant: the orders are planned as the query returned them.
NextOrder_Unsorted ==
    /\ pc = "orders"
    /\ LedgerComplete
    /\ \E o \in todo :
          /\ todo' = todo \ {o}
          /\ order' = o
          /\ remaining' = request.orders[o].quantity
    /\ pc' = "days"
    /\ day' = Start
    /\ UNCHANGED <<request, ledgerVars, finish, missing, resultVars>>

NextOrder ==
    /\ pc = "orders"
    /\ LedgerComplete
    /\ \E o \in todo :
          /\ \A p \in todo \ {o} : Before(o, p)
          /\ todo' = todo \ {o}
          /\ order' = o
          /\ remaining' = request.orders[o].quantity
    /\ pc' = "days"
    /\ day' = Start
    /\ UNCHANGED <<request, ledgerVars, finish, missing, resultVars>>

NoOrderLeft ==
    /\ pc = "orders"
    /\ LedgerComplete
    /\ todo = {}
    /\ pc' = "done"
    /\ UNCHANGED <<request, ledgerVars, todo, order, remaining, day, finish,
                   missing, resultVars>>

(***************************************************************************)
(* The days of an order                                                    *)
(***************************************************************************)
\* availableCapacity: everything counted on the day ...
Load(d) ==
    Used(highUsed, d) + Used(newUsed, d)
      + IF request.manualForce THEN 0 ELSE Used(lowUsed, d)

\* Mutant: what this plan has placed on the day already is not counted.
Available_OldOnly(d) == request.capacity - (Load(d) - Used(newUsed, d))

\* ... and what is left of it, negative where the line is overbooked.
Available(d) == request.capacity - Load(d)

\* Mutant: off by one.
TooLate_OffByOne == day > request.orders[order].due + 1 /\ ~request.allowLate

TooLate == day > request.orders[order].due /\ ~request.allowLate

\* Mutant: a day with anything on it is skipped.
SkipFullDay_PartlyUsed ==
    /\ pc = "days" /\ remaining > 0 /\ ~TooLate
    /\ Available(day) < request.capacity
    /\ day' = day + 1
    /\ UNCHANGED <<request, ledgerVars, pc, todo, order, remaining, finish,
                   missing, resultVars>>

\* Mutant: the day is not advanced.
SkipFullDay_Stuck ==
    /\ pc = "days" /\ remaining > 0 /\ ~TooLate
    /\ Available(day) <= 0
    /\ UNCHANGED vars

SkipFullDay ==
    /\ pc = "days" /\ remaining > 0 /\ ~TooLate
    /\ Available(day) <= 0
    /\ day' = day + 1
    /\ UNCHANGED <<request, ledgerVars, pc, todo, order, remaining, finish,
                   missing, resultVars>>

\* recordManualForceConflict: everybody who is on this day already.
Affected == OrdersOn(lowByDate, day) \cup OrdersOn(lockedByDate, day)

ReviewConflict ==
    [order |-> order, reason |-> "review", earliestFinish |-> day,
     affected |-> Affected]

\* Mutant: one report for each order.
NeedsReview_PerOrder ==
    request.manualForce /\ Affected # {} /\ \A r \in reported : r[1] # order

NeedsReview ==
    request.manualForce /\ Affected # {} /\ <<order, day>> \notin reported

\* Mutant: the smaller of the two is forgotten.
PlaceQuantity_WholeDay ==
    /\ pc = "days" /\ remaining > 0 /\ ~TooLate
    /\ Available(day) > 0
    /\ allocations' = Append(allocations,
          [order |-> order, day |-> day, quantity |-> Available(day),
           locked |-> request.orders[order].high])
    /\ newUsed' = Add(newUsed, day, Available(day))
    /\ remaining' = remaining - Available(day)
    /\ finishDate' = Later(finishDate, day)
    /\ UNCHANGED <<request, unread, highUsed, lowUsed, lowByDate, lockedByDate,
                   reported, pc, todo, order, day, finish, missing, conflicts>>

\* Mutant: the ledger is passed by value.
PlaceQuantity_LedgerByValue ==
    LET quantity == Smaller(remaining, Available(day))
    IN  /\ pc = "days" /\ remaining > 0 /\ ~TooLate
        /\ Available(day) > 0
        /\ allocations' = Append(allocations,
              [order |-> order, day |-> day, quantity |-> quantity,
               locked |-> request.orders[order].high])
        /\ remaining' = remaining - quantity
        /\ finishDate' = Later(finishDate, day)
        /\ UNCHANGED <<request, ledgerVars, pc, todo, order, day, finish,
                       missing, conflicts>>

PlaceQuantity ==
    LET quantity == Smaller(remaining, Available(day))
    IN  /\ pc = "days" /\ remaining > 0 /\ ~TooLate
        /\ Available(day) > 0
        /\ allocations' = Append(allocations,
              [order |-> order, day |-> day, quantity |-> quantity,
               locked |-> request.orders[order].high])
        /\ newUsed' = Add(newUsed, day, quantity)
        /\ remaining' = remaining - quantity
        /\ finishDate' = Later(finishDate, day)
        /\ IF NeedsReview
           THEN /\ conflicts' = Append(conflicts, ReviewConflict)
                /\ reported' = reported \cup {<<order, day>>}
           ELSE UNCHANGED <<conflicts, reported>>
        /\ UNCHANGED <<request, unread, highUsed, lowUsed, lowByDate, lockedByDate,
                       pc, todo, order, day, finish, missing>>

\* Mutant: the loop also ends at the due date, without a conflict.
OrderPlaced_SilentlyLate ==
    /\ pc = "days" /\ (remaining = 0 \/ TooLate)
    /\ pc' = "orders"
    /\ UNCHANGED <<request, ledgerVars, todo, order, remaining, day, finish,
                   missing, resultVars>>

OrderPlaced ==
    /\ pc = "days" /\ remaining = 0
    /\ pc' = "orders"
    /\ UNCHANGED <<request, ledgerVars, todo, order, remaining, day, finish,
                   missing, resultVars>>

(***************************************************************************)
(* Late orders                                                             *)
(***************************************************************************)
GiveUp ==
    /\ pc = "days" /\ remaining > 0 /\ TooLate
    /\ pc' = "estimate"
    /\ finish' = day
    /\ missing' = remaining
    /\ UNCHANGED <<request, ledgerVars, todo, order, remaining, day, resultVars>>

\* Mutant: the day is advanced after the last one, too.
EstimateDay_OneMore ==
    LET placeable == IF Available(finish) > 0
                     THEN Smaller(missing, Available(finish)) ELSE 0
    IN  /\ pc = "estimate" /\ missing > 0
        /\ missing' = missing - placeable
        /\ finish' = finish + 1
        /\ UNCHANGED <<request, ledgerVars, pc, todo, order, remaining, day,
                       resultVars>>

\* estimateFinishDate, one day.
EstimateDay ==
    LET placeable == IF Available(finish) > 0
                     THEN Smaller(missing, Available(finish)) ELSE 0
    IN  /\ pc = "estimate" /\ missing > 0
        /\ missing' = missing - placeable
        /\ finish' = IF missing > placeable THEN finish + 1 ELSE finish
        /\ UNCHANGED <<request, ledgerVars, pc, todo, order, remaining, day,
                       resultVars>>

\* Mutant: orders on days after the due date are not named.
RecordLateConflict_UpToDue ==
    /\ pc = "estimate" /\ missing = 0
    /\ pc' = "orders"
    /\ conflicts' = Append(conflicts,
          [order |-> order, reason |-> "late", earliestFinish |-> finish,
           affected |-> UNION {OrdersOn(lowByDate, d) :
                 d \in Start..request.orders[order].due}])
    /\ UNCHANGED <<request, ledgerVars, todo, order, remaining, day, finish,
                   missing, allocations, finishDate>>

\* recordLateCapacityConflict: whoever could make room by moving.
RecordLateConflict ==
    /\ pc = "estimate" /\ missing = 0
    /\ pc' = "orders"
    /\ conflicts' = Append(conflicts,
          [order |-> order, reason |-> "late", earliestFinish |-> finish,
           affected |-> UNION {OrdersOn(lowByDate, d) :
                 d \in Start..Later(finish, request.orders[order].due)}])
    /\ UNCHANGED <<request, ledgerVars, todo, order, remaining, day, finish,
                   missing, allocations, finishDate>>

(***************************************************************************)
(* Specification                                                           *)
(***************************************************************************)
PlanBegins ==
    /\ unread = 1
    /\ highUsed = EmptyMap /\ lowUsed = EmptyMap /\ newUsed = EmptyMap
    /\ lowByDate = EmptyMap /\ lockedByDate = EmptyMap
    /\ reported = {}
    /\ pc = "orders"
    /\ todo = DOMAIN request.orders
    /\ order = 0 /\ remaining = 0 /\ day = 0 /\ finish = 0 /\ missing = 0
    /\ allocations = <<>> /\ conflicts = <<>> /\ finishDate = -1

Init == request \in Requests /\ PlanBegins

PlanOrders == NextOrder \/ NoOrderLeft

PlanOrder == SkipFullDay \/ PlaceQuantity \/ OrderPlaced

PlanLate == GiveUp \/ EstimateDay \/ RecordLateConflict

Next == ReadExisting \/ PlanOrders \/ PlanOrder \/ PlanLate

Spec == Init /\ [][Next]_vars

\* Plan is a loop that nothing blocks.
FairSpec == Spec /\ WF_vars(Next)

(***************************************************************************)
(* Properties                                                              *)
(***************************************************************************)
IsCounter(map) == DOMAIN map \subseteq Nat /\ \A d \in DOMAIN map : map[d] \in Nat

IsRoster(map) == DOMAIN map \subseteq Nat /\ \A d \in DOMAIN map : map[d] \subseteq Nat

Piece == [order : Nat, day : Nat, quantity : Nat \ {0}, locked : BOOLEAN]

Conflict ==
    [order : Nat, reason : {"late", "review"}, earliestFinish : Nat,
     affected : SUBSET Nat]

\* The variables have their types: in particular no quantity is ever
\* negative, and every piece that planOrder places has a quantity.
TypeOK ==
    /\ request \in Requests
    /\ unread \in Nat \ {0}
    /\ IsCounter(highUsed) /\ IsCounter(lowUsed) /\ IsCounter(newUsed)
    /\ IsRoster(lowByDate) /\ IsRoster(lockedByDate)
    /\ reported \subseteq Nat \X Nat
    /\ pc \in {"orders", "days", "estimate", "done"}
    /\ todo \subseteq DOMAIN request.orders
    /\ pc \in {"days", "estimate"} => order \in DOMAIN request.orders
    /\ order \in Nat /\ remaining \in Nat /\ day \in Nat
    /\ finish \in Nat /\ missing \in Nat
    /\ allocations \in Seq(Piece)
    /\ conflicts \in Seq(Conflict)
    /\ finishDate \in Nat \cup {-1}

\* No day on which planOrder has placed anything is overbooked, together with
\* everything that is on the line already (unless manual force ignores that).
CapacityRespected ==
    \A d \in DOMAIN newUsed : newUsed[d] > 0 => Load(d) <= request.capacity

\* Orders are placed as early as possible: whatever comes later, the days
\* before a piece, from the start date on, are full and stay full.
NoCapacityWasted ==
    \A i \in DOMAIN allocations :
        \A d \in Start .. allocations[i].day - 1 : Available(d) <= 0

\* An order takes nothing from an order of higher rank: none of its pieces is
\* on a day before a piece of that order, or in time for that order when that
\* order is late.
NoOvertaking ==
    \A i \in DOMAIN allocations :
        /\ \A j \in DOMAIN allocations :
              Before(allocations[j].order, allocations[i].order)
                => allocations[j].day <= allocations[i].day
        /\ \A c \in DOMAIN conflicts :
              /\ conflicts[c].reason = "late"
              /\ Before(conflicts[c].order, allocations[i].order)
              => request.orders[conflicts[c].order].due < allocations[i].day

\* Due dates are kept unless the request allows otherwise, and an order is only
\* reported late when not a wafer more of it fits in before its due date.
DueDates ==
    /\ \A i \in DOMAIN allocations :
          allocations[i].day > request.orders[allocations[i].order].due
            => request.allowLate
    /\ \A c \in DOMAIN conflicts :
          conflicts[c].reason = "late" =>
             \A d \in Start .. request.orders[conflicts[c].order].due : Available(d) <= 0

\* An order has at most one piece a day: later pieces become orders of their
\* own (splitAllocationOrderIDsDB), and one conflict reports each piece.
OnePiecePerDay ==
    \A i, j \in DOMAIN allocations :
        /\ allocations[i].order = allocations[j].order
        /\ allocations[i].day = allocations[j].day
        => i = j

\* Manual force collides with nobody silently: each order that is already on
\* the day of a new piece is named by a conflict of that piece's order and day.
ForceIsReported ==
    \A i \in DOMAIN allocations, k \in DOMAIN request.existing :
        /\ request.manualForce
        /\ request.existing[k].line = request.line
        /\ request.existing[k].day = allocations[i].day
        => \E c \in DOMAIN conflicts :
              /\ conflicts[c].reason = "review"
              /\ conflicts[c].order = allocations[i].order
              /\ conflicts[c].earliestFinish = allocations[i].day
              /\ request.existing[k].order \in conflicts[c].affected

\* How many wafers are on a day, placed on a day or placed of an order: counted
\* from the request and the result.
OldOn(d) ==
    Wafers(request.existing, {k \in DOMAIN request.existing :
              request.existing[k].line = request.line /\ request.existing[k].day = d})

NewOn(d) == Wafers(allocations, {i \in DOMAIN allocations : allocations[i].day = d})

Placed(o) == Wafers(allocations, {i \in DOMAIN allocations : allocations[i].order = o})

Late(o) == \E c \in DOMAIN conflicts :
              conflicts[c].order = o /\ conflicts[c].reason = "late"

\* The days that the ledger, the request or the result has something on.
DaysInUse ==
    DOMAIN highUsed \cup DOMAIN lowUsed \cup DOMAIN newUsed
       \cup {request.existing[k].day : k \in DOMAIN request.existing}
       \cup {allocations[i].day : i \in DOMAIN allocations}

\* The ledger counts every existing allocation of the line and every piece of
\* the plan once, so that CapacityRespected speaks of real wafers; under manual
\* force it counts the pieces only.
LedgerIsExact ==
    LedgerComplete =>
        \A d \in DaysInUse :
            Load(d) = NewOn(d)
                         + IF request.manualForce THEN 0 ELSE OldOn(d)

\* Wafers are neither lost nor invented: an order that is planned has all its
\* wafers on the calendar, or is reported late and has fewer; never anything
\* else, and an order reported late under manual force is no exception.
QuantityKept ==
    \A o \in DOMAIN request.orders \ todo :
        \/ pc \in {"days", "estimate"} /\ order = o
           /\ Placed(o) + remaining = request.orders[o].quantity
        \/ Placed(o) = request.orders[o].quantity /\ ~Late(o)
        \/ Placed(o) < request.orders[o].quantity /\ Late(o)

\* What the line has free from the day on which the order was given up.
FreeUntil(last) == SumFunction([d \in day .. last |-> Later(Available(d), 0)])

\* The earliest finish date of a late order is exactly the first day by which
\* the free capacity after its due date holds what is left of it.
EarliestFinishIsExact ==
    pc = "estimate" /\ missing = 0 =>
        FreeUntil(finish) >= remaining /\ FreeUntil(finish - 1) < remaining

\* Plan returns, however full the line is.
Terminates == <>(pc = "done")

(***************************************************************************)
(* The answer                                                              *)
(***************************************************************************)
Result == [allocations |-> allocations, conflicts |-> conflicts]

Promise == INSTANCE PlanOnce WITH answer <- IF pc = "done" THEN <<Result>> ELSE <<>>

\* The loops of Plan, whatever they do on the way, answer each request once
\* with the plan that is defined without them (module SchedulePlan).
ImplementsPlan == Promise!Spec
=============================================================================
