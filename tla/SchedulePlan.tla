---------------------------- MODULE SchedulePlan ----------------------------
(***************************************************************************)
(* What scheduler.Plan answers, as a function of its request: the capacity *)
(* ledger and the loops of the code are replaced by sums.  Scheduler.tla   *)
(* is the loops; it is checked to compute this function.  The stores use   *)
(* the function where the code calls Plan.                                 *)
(***************************************************************************)
EXTENDS Integers, Sequences, FiniteSets, FiniteSetsExt, Functions

Lesser(a, b) == IF a < b THEN a ELSE b

Greater(a, b) == IF a < b THEN b ELSE a

\* The items appended to a list, each under a number, by their numbers.
Listing(list, items) ==
    MapThenFoldSet(LAMBDA item, before : Append(before, item), list,
                   LAMBDA i : items[i], LAMBDA S : Max(S), DOMAIN items)

Wafers(list, indices) ==
    SumFunctionOnSet([i \in DOMAIN list |-> list[i].quantity], indices)

(***************************************************************************)
(* What a request says of a day                                            *)
(***************************************************************************)
\* scheduleStartDate: never on the current date or before it.
StartDay(r) == Greater(r.start, r.currentDate + 1)

ExistingOfLine(r) == {k \in DOMAIN r.existing : r.existing[k].line = r.line}

ExistingOn(r, d) == {k \in ExistingOfLine(r) : r.existing[k].day = d}

\* Who may be moved off a day: manual force looks at the priority as well.
Movable(r, e) == ~e.locked /\ (r.manualForce => ~e.high)

OrdersToMove(r, d) ==
    {r.existing[k].order : k \in {i \in ExistingOn(r, d) : Movable(r, r.existing[i])}}

OrdersAffected(r, d) == {r.existing[k].order : k \in ExistingOn(r, d)}

(***************************************************************************)
(* Capacity, next to the pieces placed so far                              *)
(***************************************************************************)
UsedOn(r, pieces, d) ==
    Wafers(pieces, {i \in DOMAIN pieces : pieces[i].day = d})
       + IF r.manualForce THEN 0 ELSE Wafers(r.existing, ExistingOn(r, d))

FreeOn(r, pieces, d) == Greater(0, r.capacity - UsedOn(r, pieces, d))

\* Later days have nothing on them.
LastDayUsed(r, pieces) ==
    Max({StartDay(r)} \cup {r.existing[k].day : k \in ExistingOfLine(r)}
           \cup {pieces[i].day : i \in DOMAIN pieces})

(***************************************************************************)
(* One order                                                               *)
(***************************************************************************)
\* How much of the order is placed up to a day, when it takes every free wafer
\* from its start on.
PlacedBy(r, pieces, o, d) ==
    LET days == StartDay(r) .. d
    IN  Lesser(r.orders[o].quantity,
               SumFunctionOnSet([e \in days |-> FreeOn(r, pieces, e)], days))

PlacedOn(r, pieces, o, d) ==
    PlacedBy(r, pieces, o, d) - PlacedBy(r, pieces, o, d - 1)

\* By this day all of it is placed: an empty day takes a wafer.
Horizon(r, pieces, o) == LastDayUsed(r, pieces) + r.orders[o].quantity

Days(r, pieces, o) ==
    {d \in StartDay(r) .. Horizon(r, pieces, o) : PlacedOn(r, pieces, o, d) > 0}

FinishDay(r, pieces, o) == Max(Days(r, pieces, o))

FinishesLate(r, pieces, o) ==
    ~r.allowLate /\ FinishDay(r, pieces, o) > r.orders[o].due

\* The days it is given: a late order keeps those up to its due date.
DaysGiven(r, pieces, o) ==
    {d \in Days(r, pieces, o) : r.allowLate \/ d <= r.orders[o].due}

PiecesOf(r, pieces, o) ==
    [d \in DaysGiven(r, pieces, o) |->
        [order |-> o, day |-> d, quantity |-> PlacedOn(r, pieces, o, d),
         locked |-> r.orders[o].high]]

\* A review conflict for each day that manual force shares with others ...
ReviewsOf(r, pieces, o) ==
    [d \in {e \in DaysGiven(r, pieces, o) : r.manualForce /\ OrdersAffected(r, e) # {}} |->
        [order |-> o, reason |-> "review", earliestFinish |-> d,
         affected |-> OrdersAffected(r, d)]]

\* ... and a conflict for what cannot be placed by the due date.
LatenessOf(r, pieces, o) ==
    [order |-> o, reason |-> "late", earliestFinish |-> FinishDay(r, pieces, o),
     affected |-> UNION {OrdersToMove(r, d) :
         d \in StartDay(r) .. Greater(FinishDay(r, pieces, o), r.orders[o].due)}]

(***************************************************************************)
(* The whole request, order by order                                       *)
(***************************************************************************)
\* sortedOrders: high priority, then due date, then age, then id.
RanksBefore(r, o, p) ==
    LET a == r.orders[o]
        b == r.orders[p]
    IN  \/ a.high /\ ~b.high
        \/ /\ a.high = b.high
           /\ \/ a.due < b.due
              \/ a.due = b.due /\ a.createdAt < b.createdAt
              \/ a.due = b.due /\ a.createdAt = b.createdAt /\ o < p

LastInRank(r, S) == CHOOSE o \in S : \A p \in S \ {o} : RanksBefore(r, p, o)

NothingPlanned == [allocations |-> <<>>, conflicts |-> <<>>]

PlanNext(r, o, plan) ==
    LET pieces == plan.allocations IN
    [allocations |-> Listing(pieces, PiecesOf(r, pieces, o)),
     conflicts |-> Listing(plan.conflicts, ReviewsOf(r, pieces, o))
        \o IF FinishesLate(r, pieces, o) THEN <<LatenessOf(r, pieces, o)>> ELSE <<>>]

Plan(r) ==
    MapThenFoldSet(LAMBDA o, plan : PlanNext(r, o, plan), NothingPlanned,
                   LAMBDA o : o, LAMBDA S : LastInRank(r, S), DOMAIN r.orders)
=============================================================================
