-------------------------- MODULE Scheduler_proofs --------------------------
(***************************************************************************)
(* The safety of Scheduler for every request: any capacity, any number of  *)
(* orders and existing allocations, any dates and quantities.              *)
(***************************************************************************)
EXTENDS Scheduler, SchedulePlan_proofs

(***************************************************************************)
(* The inductive invariant                                                 *)
(***************************************************************************)
Planning == pc \in {"days", "estimate"}

\* Nothing is planned before the ledger is complete.
LedgerFirst ==
    ~LedgerComplete =>
        /\ pc = "orders"
        /\ DOMAIN newUsed = {}
        /\ allocations = <<>>
        /\ conflicts = <<>>
        /\ reported = {}

\* An order that has a piece or a conflict was taken from todo, and ranks before
\* everything still there and before (or is) the order being planned.
TakenInRank(o) ==
    /\ o \in DOMAIN request.orders \ todo
    /\ \A p \in todo : Before(o, p)
    /\ Planning => o = order \/ Before(o, order)

RankOrder ==
    /\ \A i \in DOMAIN allocations : TakenInRank(allocations[i].order)
    /\ \A c \in DOMAIN conflicts : TakenInRank(conflicts[c].order)
    /\ Planning => TakenInRank(order)
    /\ \A o \in DOMAIN request.orders \ todo : TakenInRank(o)

\* While an order is planned, every day passed is full; its pieces lie on days
\* passed or on a day it has used up.
Frontier ==
    Planning =>
        /\ day >= Start
        /\ \A d \in Start .. day - 1 : Available(d) <= 0
        /\ \A i \in DOMAIN allocations :
              allocations[i].order = order =>
                 /\ allocations[i].day <= day
                 /\ allocations[i].day = day => remaining = 0 \/ Available(day) <= 0
        /\ pc = "estimate" => TooLate

\* The orders to be named when something is forced onto a day.
NamedOn(d) == OrdersOn(lowByDate, d) \cup OrdersOn(lockedByDate, d)

Names(c, o, d) ==
    /\ c.reason = "review" /\ c.order = o
    /\ c.earliestFinish = d /\ c.affected = NamedOn(d)

Reviews ==
    /\ \A k \in DOMAIN request.existing :
          request.manualForce /\ k < unread /\ request.existing[k].line = request.line
            => request.existing[k].order \in NamedOn(request.existing[k].day)
    /\ \A r \in reported : \E c \in DOMAIN conflicts : Names(conflicts[c], r[1], r[2])
    /\ \A i \in DOMAIN allocations :
          request.manualForce /\ NamedOn(allocations[i].day) # {} =>
             \E c \in DOMAIN conflicts :
                Names(conflicts[c], allocations[i].order, allocations[i].day)

\* The existing allocations read so far that use a day of the line.
ReadOn(d) ==
    Wafers(request.existing, {k \in DOMAIN request.existing :
              /\ k < unread
              /\ request.existing[k].line = request.line
              /\ request.existing[k].day = d})

\* What is on the line on a day before anything is planned.
Backlog(d) == IF request.manualForce THEN 0 ELSE OldOn(d)

\* Each map of the ledger is a sum over what it was built from.
LedgerSums ==
    \A d \in Nat :
        /\ Used(newUsed, d) = NewOn(d)
        /\ Used(highUsed, d) + Used(lowUsed, d)
              = IF request.manualForce THEN 0 ELSE ReadOn(d)

\* The order being planned has so much placed and so much left; it is not yet
\* reported late, and only orders with something left are given up.
QuantitySums ==
    /\ Planning =>
          Placed(order) + remaining = request.orders[order].quantity /\ ~Late(order)
    /\ pc = "estimate" => remaining > 0
    /\ \A o \in DOMAIN request.orders \ todo :
          \/ Planning /\ order = o
          \/ Placed(o) = request.orders[o].quantity /\ ~Late(o)
          \/ Placed(o) < request.orders[o].quantity /\ Late(o)

\* estimateFinishDate has filled every free wafer before the day it looks at.
Estimating ==
    pc = "estimate" =>
        /\ finish >= day
        /\ missing > 0 => missing + FreeUntil(finish - 1) = remaining
        /\ missing = 0 =>
              FreeUntil(finish) >= remaining /\ FreeUntil(finish - 1) < remaining

\* What a list of pieces has of an order on a day and before it, and of the
\* orders that rank before it on that day.
OrderOn(list, o, d) ==
    Wafers(list, {i \in DOMAIN list : list[i].order = o /\ list[i].day = d})

OrderBefore(list, o, d) ==
    Wafers(list, {i \in DOMAIN list : list[i].order = o /\ list[i].day < d})

AheadOn(list, o, d) ==
    Wafers(list, {i \in DOMAIN list : Before(list[i].order, o) /\ list[i].day = d})

\* What the orders that rank before it leave of a day for an order.
Room(list, o, d) == Later(request.capacity - Backlog(d) - AheadOn(list, o, d), 0)

UsableDay(o, d) == d >= Start /\ (d <= request.orders[o].due \/ request.allowLate)

\* On each day that it may use, an order takes what is left of it or of the day.
TakesAllRoom(list, o, d) ==
    OrderOn(list, o, d) =
        IF UsableDay(o, d)
        THEN Smaller(request.orders[o].quantity - OrderBefore(list, o, d), Room(list, o, d))
        ELSE 0

\* Every order that was taken from todo has taken all its room, but for the days
\* that the order being planned comes to next.
Greedy ==
    /\ \A o \in DOMAIN request.orders \ todo, d \in Nat :
          \/ pc = "days" /\ o = order /\ d >= day /\ OrderOn(allocations, o, d) = 0
          \/ TakesAllRoom(allocations, o, d)
    /\ \A i \in DOMAIN allocations :
          allocations[i].locked = request.orders[allocations[i].order].high

\* An order gets its days from the first to the last, and a plan that is done has
\* taken every order.
DaysRise ==
    /\ \A i, j \in DOMAIN allocations :
          allocations[i].order = allocations[j].order /\ i < j
             => allocations[i].day < allocations[j].day
    /\ pc = "done" => todo = {}

IInv ==
    /\ TypeOK
    /\ LedgerFirst
    /\ RankOrder
    /\ Frontier
    /\ Reviews
    /\ LedgerSums
    /\ QuantitySums
    /\ Estimating
    /\ Greedy
    /\ DaysRise
    /\ CapacityRespected
    /\ NoCapacityWasted
    /\ NoOvertaking
    /\ DueDates
    /\ OnePiecePerDay

(***************************************************************************)
(* Operators                                                               *)
(***************************************************************************)
\* The request is one of those the constant allows.
LEMMA RequestFields ==
    ASSUME request \in Requests
    PROVE  IsRequest(request)
BY RequestsAssumption

\* A map read at any key, and after an addition.
LEMMA UsedOfType ==
    ASSUME NEW map, IsCounter(map), NEW d
    PROVE  Used(map, d) \in Nat
BY DEF IsCounter, Used

\* ledger[key] += quantity changes that key only.
LEMMA AddType ==
    ASSUME NEW map, IsCounter(map), NEW d \in Nat, NEW q \in Nat
    PROVE  /\ IsCounter(Add(map, d, q))
           /\ Used(Add(map, d, q), d) = Used(map, d) + q
           /\ \A x : x # d => Used(Add(map, d, q), x) = Used(map, x)
BY UsedOfType DEF IsCounter, Add, Used

\* The same, read at one key.
LEMMA AddAt ==
    ASSUME NEW map, IsCounter(map), NEW d \in Nat, NEW q \in Nat, NEW x
    PROVE  Used(Add(map, d, q), x) = Used(map, x) + IF x = d THEN q ELSE 0
<1>1. Used(map, x) \in Nat
      BY UsedOfType
<1>2. CASE x = d
      BY <1>2, AddType
<1>3. CASE x # d
  <2>1. Used(Add(map, d, q), x) = Used(map, x)
        BY <1>3, AddType
  <2> QED
      BY <1>1, <1>3, <2>1
<1> QED
    BY <1>2, <1>3

\* appendUnique on a key of lowByDate or lockedByDate changes that key only.
LEMMA AddOrderType ==
    ASSUME NEW map, IsRoster(map), NEW d \in Nat, NEW o \in Nat
    PROVE  /\ IsRoster(AddOrder(map, d, o))
           /\ OrdersOn(AddOrder(map, d, o), d) = OrdersOn(map, d) \cup {o}
           /\ \A x : x # d => OrdersOn(AddOrder(map, d, o), x) = OrdersOn(map, x)
BY DEF IsRoster, AddOrder, OrdersOn

\* A roster read at any day is a set of orders.
LEMMA OrdersOnType ==
    ASSUME NEW map, IsRoster(map), NEW d
    PROVE  OrdersOn(map, d) \subseteq Nat
BY DEF IsRoster, OrdersOn

\* scheduleStartDate is a day, even without a current date.
LEMMA StartType ==
    ASSUME TypeOK
    PROVE  Start \in Nat
BY RequestFields DEF TypeOK, IsRequest, Start, Later

\* A placed piece has an order and a day.
LEMMA PieceFields ==
    ASSUME TypeOK, NEW i \in DOMAIN allocations
    PROVE  allocations[i].order \in Nat /\ allocations[i].day \in Nat
<1>1. allocations[i] \in Piece
      BY DEF TypeOK
<1> QED
    BY <1>1 DEF Piece

\* availableCapacity is never more than the capacity of a day.
LEMMA AvailableType ==
    ASSUME TypeOK, NEW d
    PROVE  Load(d) \in Nat /\ Available(d) \in Int /\ Available(d) <= request.capacity
BY RequestFields, UsedOfType DEF TypeOK, IsRequest, Load, Available

\* The rank of sortedOrders is irreflexive and asymmetric.
LEMMA RankStrict ==
    ASSUME TypeOK, NEW o \in DOMAIN request.orders, NEW p \in DOMAIN request.orders,
           Before(o, p)
    PROVE  o # p /\ ~Before(p, o)
<1>1. request.orders[o] \in OrderInput /\ request.orders[p] \in OrderInput
      BY RequestFields DEF TypeOK, IsRequest
<1>2. o \in Nat /\ p \in Nat
      BY RequestFields DEF TypeOK, IsRequest
<1>3. QED
      BY <1>1, <1>2 DEF Before, OrderInput

(***************************************************************************)
(* What the steps do to the ledger and to the pieces                       *)
(***************************************************************************)
\* Steps that neither read an existing allocation nor place anything.
Quiet == UNCHANGED <<request, ledgerVars, allocations, finishDate>>

\* Of the steps after the ledger is read, only PlaceQuantity is not quiet.
LEMMA QuietSteps ==
    ASSUME NextOrder \/ NoOrderLeft \/ SkipFullDay \/ OrderPlaced \/ GiveUp
             \/ EstimateDay \/ RecordLateConflict
    PROVE  Quiet
BY DEF NextOrder, NoOrderLeft, SkipFullDay, OrderPlaced, GiveUp, EstimateDay,
       RecordLateConflict, Quiet, resultVars

\* What the properties read of the ledger and the request.
LEMMA LedgerKept ==
    ASSUME UNCHANGED <<request, ledgerVars>>
    PROVE  /\ \A d : Load(d)' = Load(d) /\ Available(d)' = Available(d)
           /\ \A d : NamedOn(d)' = NamedOn(d)
           /\ Start' = Start
           /\ \A o, p : Before(o, p)' = Before(o, p)
           /\ LedgerComplete' = LedgerComplete
BY DEF ledgerVars, Load, Available, NamedOn, Start, Before, LedgerComplete

\* A piece takes what is left of the order or of the day, whatever is less.
LEMMA Placing ==
    ASSUME TypeOK, PlaceQuantity
    PROVE  \E q \in Nat \ {0} :
              /\ q <= remaining /\ q <= Available(day)
              /\ q = remaining \/ q = Available(day)
              /\ remaining' = remaining - q
              /\ allocations' = Append(allocations,
                    [order |-> order, day |-> day, quantity |-> q,
                     locked |-> request.orders[order].high])
              /\ newUsed' = Add(newUsed, day, q)
              /\ Load(day)' = Load(day) + q
              /\ Available(day)' = Available(day) - q
              /\ \A d : d # day => Load(d)' = Load(d) /\ Available(d)' = Available(d)
<1> DEFINE q == Smaller(remaining, Available(day))
<1>1. /\ remaining \in Nat /\ remaining > 0 /\ day \in Nat
      /\ Available(day) \in Int /\ Available(day) > 0
      BY AvailableType DEF TypeOK, PlaceQuantity
<1>2. /\ q \in Nat \ {0}
      /\ q <= remaining /\ q <= Available(day)
      /\ q = remaining \/ q = Available(day)
      BY <1>1 DEF Smaller
<1>3. /\ newUsed' = Add(newUsed, day, q)
      /\ remaining' = remaining - q
      /\ allocations' = Append(allocations,
            [order |-> order, day |-> day, quantity |-> q,
             locked |-> request.orders[order].high])
      /\ UNCHANGED <<request, highUsed, lowUsed>>
      BY DEF PlaceQuantity
<1>4. /\ Used(newUsed', day) = Used(newUsed, day) + q
      /\ \A d : d # day => Used(newUsed', d) = Used(newUsed, d)
      BY <1>1, <1>2, <1>3, AddType DEF TypeOK
<1>5. /\ Used(highUsed, day) \in Nat
      /\ Used(lowUsed, day) \in Nat
      /\ Used(newUsed, day) \in Nat
      /\ request.capacity \in Nat
      BY UsedOfType, RequestFields DEF TypeOK, IsRequest
<1>6. Load(day)' = Load(day) + q
  <2>1. /\ Load(day) = Used(highUsed, day) + Used(newUsed, day)
                         + IF request.manualForce THEN 0 ELSE Used(lowUsed, day)
        /\ Load(day)' = Used(highUsed, day) + (Used(newUsed, day) + q)
                         + IF request.manualForce THEN 0 ELSE Used(lowUsed, day)
        BY <1>3, <1>4, day' = day DEF Load, PlaceQuantity
  <2> QED
        BY <1>2, <1>5, <2>1
<1>7. \A d : d # day => Load(d)' = Load(d)
      BY <1>3, <1>4 DEF Load
<1>8. /\ Available(day)' = Available(day) - q
      /\ \A d : d # day => Available(d)' = Available(d)
  <2>1. Load(day) \in Nat
        BY AvailableType
  <2>2. Available(day)' = Available(day) - q
        BY <1>2, <1>3, <1>5, <1>6, <2>1 DEF Available
  <2>3. \A d : d # day => Available(d)' = Available(d)
        BY <1>3, <1>7 DEF Available
  <2> QED
        BY <2>2, <2>3
<1> QED
      BY <1>2, <1>3, <1>6, <1>7, <1>8

(***************************************************************************)
(* Types                                                                   *)
(***************************************************************************)
\* buildCapacityLedger reads within the list.
LEMMA ExistingFields ==
    ASSUME TypeOK, ~LedgerComplete
    PROVE  Existing \in ExistingAllocation
BY RequestFields DEF TypeOK, IsRequest, LedgerComplete, Existing

\* Plan starts with empty maps and an empty result.
LEMMA TypeInit ==
    ASSUME Init
    PROVE  TypeOK
BY RequestFields DEF Init, PlanBegins, TypeOK, EmptyMap, IsCounter, IsRoster, IsRequest

\* Every loop iteration of Plan keeps the types.
LEMMA TypeStep ==
    ASSUME TypeOK, [Next]_vars
    PROVE  TypeOK'
<1> USE DEF TypeOK
<1> IsRequest(request)
    BY RequestFields
<1>1. CASE ReadExisting
  <2>1. Existing \in ExistingAllocation
        BY <1>1, ExistingFields DEF ReadExisting
  <2>2. /\ Existing.day \in Nat /\ Existing.order \in Nat
        /\ Existing.quantity \in Nat
        BY <2>1 DEF ExistingAllocation
  <2>3. IsCounter(highUsed') /\ IsCounter(lowUsed') /\ IsCounter(newUsed')
        BY <1>1, <2>2, AddType DEF ReadExisting, SkipOtherLine, NoteForReview, TakeCapacity
  <2>4. IsRoster(lowByDate') /\ IsRoster(lockedByDate')
    <3> DEFINE low == AddOrder(lowByDate, Existing.day, Existing.order)
               locked == AddOrder(lockedByDate, Existing.day, Existing.order)
    <3>1. IsRoster(low) /\ IsRoster(locked)
          BY <2>2, AddOrderType
    <3>2. lowByDate' \in {lowByDate, low} /\ lockedByDate' \in {lockedByDate, locked}
          BY <1>1 DEF ReadExisting, SkipOtherLine, NoteForReview, TakeCapacity
    <3> QED
        BY <3>1, <3>2
  <2>5. unread' \in Nat \ {0} /\ UNCHANGED <<request, reported, loopVars, resultVars>>
        BY <1>1 DEF ReadExisting
  <2> QED
      BY <2>3, <2>4, <2>5 DEF loopVars, resultVars
<1>2. CASE NextOrder
  <2>1. PICK o \in todo : order' = o /\ remaining' = request.orders[o].quantity
                            /\ todo' = todo \ {o}
        BY <1>2 DEF NextOrder
  <2>2. o \in Nat /\ request.orders[o] \in OrderInput
        BY DEF IsRequest
  <2>3. day' \in Nat
        BY <1>2, StartType DEF NextOrder
  <2> QED
      BY <1>2, <2>1, <2>2, <2>3 DEF NextOrder, ledgerVars, resultVars, OrderInput
<1>3. CASE NoOrderLeft
      BY <1>3 DEF NoOrderLeft, ledgerVars, resultVars
<1>4. CASE SkipFullDay
      BY <1>4 DEF SkipFullDay, ledgerVars, resultVars
<1>5. CASE PlaceQuantity
  <2>1. PICK q \in Nat \ {0} :
              /\ q <= remaining
              /\ remaining' = remaining - q
              /\ allocations' = Append(allocations,
                    [order |-> order, day |-> day, quantity |-> q,
                     locked |-> request.orders[order].high])
              /\ newUsed' = Add(newUsed, day, q)
        BY <1>5, Placing
  <2>2. remaining' \in Nat /\ IsCounter(newUsed')
        BY <2>1, AddType
  <2>3. allocations' \in Seq(Piece)
    <3>1. request.orders[order].high \in BOOLEAN
          BY <1>5 DEF PlaceQuantity, IsRequest, OrderInput
    <3> QED
        BY <2>1, <3>1 DEF Piece
  <2>4. conflicts' \in Seq(Conflict) /\ reported' \subseteq Nat \X Nat
    <3>1. ReviewConflict \in Conflict
          BY OrdersOnType DEF ReviewConflict, Affected, Conflict
    <3>2. Append(conflicts, ReviewConflict) \in Seq(Conflict)
          BY <3>1
    <3>3. reported \cup {<<order, day>>} \subseteq Nat \X Nat
          OBVIOUS
    <3> HIDE DEF TypeOK
    <3>4. conflicts' \in {conflicts, Append(conflicts, ReviewConflict)}
          /\ reported' \in {reported, reported \cup {<<order, day>>}}
          BY <1>5 DEF PlaceQuantity
    <3> QED
        BY <3>2, <3>3, <3>4 DEF TypeOK
  <2>5. finishDate' \in Nat \cup {-1}
        BY <1>5 DEF PlaceQuantity, Later
  <2> QED
      BY <1>5, <2>2, <2>3, <2>4, <2>5 DEF PlaceQuantity
<1>6. CASE OrderPlaced
      BY <1>6 DEF OrderPlaced, ledgerVars, resultVars
<1>7. CASE GiveUp
      BY <1>7 DEF GiveUp, ledgerVars, resultVars
<1>8. CASE EstimateDay
  <2>1. /\ missing' \in Nat /\ finish' \in Nat
        BY <1>8, AvailableType DEF EstimateDay, Smaller
  <2> QED
      BY <1>8, <2>1 DEF EstimateDay, ledgerVars, resultVars
<1>9. CASE RecordLateConflict
  <2>1. conflicts' \in Seq(Conflict)
    <3> DEFINE days == Start .. Later(finish, request.orders[order].due)
               affected == UNION {OrdersOn(lowByDate, d) : d \in days}
               c == [order |-> order, reason |-> "late",
                     earliestFinish |-> finish, affected |-> affected]
    <3>1. affected \in SUBSET Nat
          BY OrdersOnType
    <3>2. c \in Conflict
          BY <3>1 DEF Conflict
    <3> QED
        BY <1>9, <3>2 DEF RecordLateConflict
  <2> QED
      BY <1>9, <2>1 DEF RecordLateConflict, ledgerVars
<1>10. CASE UNCHANGED vars
      BY <1>10 DEF vars, ledgerVars, loopVars, resultVars
<1> QED
    BY <1>1, <1>2, <1>3, <1>4, <1>5, <1>6, <1>7, <1>8, <1>9, <1>10
    DEF Next, PlanOrders, PlanOrder, PlanLate

(***************************************************************************)
(* The result grows at its end                                             *)
(***************************************************************************)
\* append keeps the elements it had and adds one.
LEMMA Appended ==
    ASSUME NEW S, NEW s \in Seq(S), NEW x \in S
    PROVE  LET t == Append(s, x)
           IN  /\ Len(s) + 1 \in DOMAIN t /\ t[Len(s) + 1] = x
               /\ \A i \in DOMAIN s : i \in DOMAIN t /\ t[i] = s[i]
               /\ \A i \in DOMAIN t :
                     i \in DOMAIN s \/ (i = Len(s) + 1 /\ t[i] = x)
OBVIOUS

\* planOrder adds at most one piece at a time, for its order and its day.
LEMMA NewPiece ==
    ASSUME TypeOK, PlaceQuantity
    PROVE  \A i \in DOMAIN allocations' :
              \/ i \in DOMAIN allocations /\ allocations'[i] = allocations[i]
              \/ /\ i \notin DOMAIN allocations
                 /\ i = Len(allocations) + 1
                 /\ allocations'[i].order = order
                 /\ allocations'[i].day = day
<1>1. PICK q : allocations' = Append(allocations,
                  [order |-> order, day |-> day, quantity |-> q,
                   locked |-> request.orders[order].high])
      BY Placing
<1> DEFINE piece == [order |-> order, day |-> day, quantity |-> q,
                     locked |-> request.orders[order].high]
<1>2. allocations \in Seq(Piece \cup {piece}) /\ piece \in Piece \cup {piece}
      BY DEF TypeOK
<1>3. Len(allocations) + 1 \notin DOMAIN allocations
      BY <1>2
<1> QED
    BY <1>1, <1>2, <1>3, Appended

\* Conflicts are only added, for the order being planned; they are late ones if
\* recordLateCapacityConflict adds them.
LEMMA NewConflict ==
    ASSUME TypeOK, TypeOK', PlaceQuantity \/ RecordLateConflict
    PROVE  /\ \A c \in DOMAIN conflicts :
                 c \in DOMAIN conflicts' /\ conflicts'[c] = conflicts[c]
           /\ \A c \in DOMAIN conflicts' :
                 \/ c \in DOMAIN conflicts /\ conflicts'[c] = conflicts[c]
                 \/ /\ conflicts'[c].order = order
                    /\ conflicts'[c].reason = "late" <=> RecordLateConflict
<1>1. CASE conflicts' = conflicts
      BY <1>1
<1>2. ASSUME NEW x, conflicts' = Append(conflicts, x), x.order = order,
             x.reason = "late" <=> RecordLateConflict
      PROVE  /\ \A c \in DOMAIN conflicts :
                   c \in DOMAIN conflicts' /\ conflicts'[c] = conflicts[c]
             /\ \A c \in DOMAIN conflicts' :
                   \/ c \in DOMAIN conflicts /\ conflicts'[c] = conflicts[c]
                   \/ /\ conflicts'[c].order = order
                      /\ conflicts'[c].reason = "late" <=> RecordLateConflict
  <2>1. conflicts \in Seq(Conflict \cup {x}) /\ x \in Conflict \cup {x}
        BY DEF TypeOK
  <2> HIDE DEF RecordLateConflict
  <2> QED
      BY <1>2, <2>1, Appended
<1>3. CASE RecordLateConflict
  <2> DEFINE x == [order |-> order, reason |-> "late", earliestFinish |-> finish,
           affected |-> UNION {OrdersOn(lowByDate, d) :
                 d \in Start..Later(finish, request.orders[order].due)}]
  <2>1. conflicts' = Append(conflicts, x)
        BY <1>3 DEF RecordLateConflict
  <2>2. x.order = order /\ x.reason = "late"
        OBVIOUS
  <2> HIDE DEF x
  <2> QED
      BY <1>2, <1>3, <2>1, <2>2
<1>4. CASE PlaceQuantity
  <2>1. ~RecordLateConflict
        BY <1>4 DEF PlaceQuantity, RecordLateConflict
  <2>2. ReviewConflict.order = order /\ ReviewConflict.reason = "review"
        BY DEF ReviewConflict
  <2>3. conflicts' = conflicts \/ conflicts' = Append(conflicts, ReviewConflict)
        BY <1>4 DEF PlaceQuantity
  <2> QED
      BY <1>1, <1>2, <2>1, <2>2, <2>3
<1> QED
    BY <1>3, <1>4

\* Placing a piece frees no capacity on any day.
LEMMA AvailableFalls ==
    ASSUME TypeOK, PlaceQuantity
    PROVE  \A d : Available(d)' \in Int /\ Available(d)' <= Available(d)
<1> TAKE d
<1>1. PICK q \in Nat \ {0} :
            /\ Available(day)' = Available(day) - q
            /\ \A x : x # day => Available(x)' = Available(x)
      BY Placing
<1>2. Available(day) \in Int /\ Available(d) \in Int
      BY AvailableType
<1>3. CASE d = day
  <2>1. Available(d)' = Available(day)'
        BY <1>3, day' = day DEF PlaceQuantity, Available, Load
  <2> QED
      BY <1>1, <1>2, <1>3, <2>1
<1>4. CASE d # day
      BY <1>1, <1>2, <1>4
<1> QED
    BY <1>3, <1>4

(***************************************************************************)
(* Wafers                                                                  *)
(***************************************************************************)
\* Some elements of a list of quantities.
LEMMA WafersOfType ==
    ASSUME NEW S, NEW list \in Seq(S), \A i \in DOMAIN list : list[i].quantity \in Nat,
           NEW I \in SUBSET DOMAIN list
    PROVE  IsFiniteSet(I) /\ Wafers(list, I) \in Nat
<1>1. IsFiniteSet(DOMAIN list)
      BY FS_Interval, DOMAIN list = 1 .. Len(list), Len(list) \in Nat
<1>2. IsFiniteSet(I)
      BY <1>1, FS_Subset
<1> DEFINE f == [i \in DOMAIN list |-> list[i].quantity]
<1>3. \A i \in I : f[i] \in Nat
      OBVIOUS
<1>4. SumFunctionOnSet(f, I) \in Nat
  <2> HIDE DEF f
  <2> QED
      BY <1>2, <1>3, SumType
<1> QED
    BY <1>2, <1>4 DEF Wafers

\* No element, no wafer.
LEMMA WafersEmpty ==
    ASSUME NEW list
    PROVE  Wafers(list, {}) = 0
BY SumEmpty DEF Wafers

\* One more element.
LEMMA WafersAdd ==
    ASSUME NEW S, NEW list \in Seq(S), \A i \in DOMAIN list : list[i].quantity \in Nat,
           NEW I \in SUBSET DOMAIN list, NEW k \in DOMAIN list, k \notin I
    PROVE  Wafers(list, I \cup {k}) = list[k].quantity + Wafers(list, I)
<1> DEFINE f == [i \in DOMAIN list |-> list[i].quantity]
<1>1. IsFiniteSet(I)
      BY WafersOfType
<1>2. \A i \in I \cup {k} : f[i] \in Nat
      OBVIOUS
<1>3. SumFunctionOnSet(f, I \cup {k}) = f[k] + SumFunctionOnSet(f, I)
  <2> HIDE DEF f
  <2> QED
      BY <1>1, <1>2, SumAdd
<1> QED
    BY <1>3 DEF Wafers

\* A longer list has the same elements at the old places.
LEMMA WafersAppend ==
    ASSUME NEW S, NEW list \in Seq(S), \A i \in DOMAIN list : list[i].quantity \in Nat,
           NEW x \in S, x.quantity \in Nat, NEW I \in SUBSET DOMAIN list
    PROVE  /\ Wafers(Append(list, x), I) = Wafers(list, I)
           /\ Wafers(Append(list, x), I \cup {Len(list) + 1})
                = x.quantity + Wafers(list, I)
<1> DEFINE longer == Append(list, x)
           f == [i \in DOMAIN list |-> list[i].quantity]
           g == [i \in DOMAIN longer |-> longer[i].quantity]
<1>1. /\ longer \in Seq(S)
      /\ Len(list) + 1 \in DOMAIN longer /\ longer[Len(list) + 1] = x
      /\ Len(list) + 1 \notin DOMAIN list
      /\ \A i \in DOMAIN list : i \in DOMAIN longer /\ longer[i] = list[i]
      /\ \A i \in DOMAIN longer : i \in DOMAIN list \/ longer[i] = x
      BY Appended
<1>2. IsFiniteSet(I)
      BY WafersOfType
<1> HIDE DEF longer
<1>3. \A i \in I : g[i] = f[i]
      BY <1>1
<1>4. SumFunctionOnSet(g, I) = SumFunctionOnSet(f, I)
  <2> HIDE DEF f, g
  <2> QED
      BY <1>2, <1>3, SumCongruent
<1>5. Wafers(longer, I) = Wafers(list, I)
      BY <1>4 DEF Wafers
<1>6. \A i \in DOMAIN longer : longer[i].quantity \in Nat
      BY <1>1
<1>7. I \in SUBSET DOMAIN longer /\ Len(list) + 1 \notin I
      BY <1>1
<1>8. Wafers(longer, I \cup {Len(list) + 1})
         = longer[Len(list) + 1].quantity + Wafers(longer, I)
      BY <1>1, <1>6, <1>7, WafersAdd
<1> QED
    BY <1>1, <1>5, <1>8 DEF longer

\* The pieces have quantities.
LEMMA PieceQuantities ==
    ASSUME TypeOK
    PROVE  /\ allocations \in Seq(Piece)
           /\ \A i \in DOMAIN allocations : allocations[i].quantity \in Nat
           /\ \A d : NewOn(d) \in Nat
           /\ \A o : Placed(o) \in Nat
<1>1. allocations \in Seq(Piece)
      BY DEF TypeOK
<1>2. ASSUME NEW i \in DOMAIN allocations
      PROVE  allocations[i].quantity \in Nat
  <2>1. allocations[i] \in Piece
        BY <1>1
  <2> QED
      BY <2>1 DEF Piece
<1> QED
    BY <1>1, <1>2, WafersOfType DEF NewOn, Placed

\* A new piece counts for its day and for its order.
LEMMA PlacedStep ==
    ASSUME TypeOK, PlaceQuantity, NEW q \in Nat \ {0},
           allocations' = Append(allocations,
              [order |-> order, day |-> day, quantity |-> q,
               locked |-> request.orders[order].high])
    PROVE  /\ \A d : NewOn(d)' = NewOn(d) + IF d = day THEN q ELSE 0
           /\ \A o : Placed(o)' = Placed(o) + IF o = order THEN q ELSE 0
<1> DEFINE x == [order |-> order, day |-> day, quantity |-> q,
                 locked |-> request.orders[order].high]
           n == Len(allocations) + 1
<1>1. /\ allocations \in Seq(Piece)
      /\ \A i \in DOMAIN allocations : allocations[i].quantity \in Nat
      /\ \A d : NewOn(d) \in Nat
      /\ \A o : Placed(o) \in Nat
      BY PieceQuantities
<1>2. x \in Piece
  <2>1. order \in DOMAIN request.orders
        BY DEF TypeOK, PlaceQuantity
  <2>2. request.orders[order].high \in BOOLEAN
        BY <2>1, RequestFields DEF TypeOK, IsRequest, OrderInput
  <2> QED
      BY <2>2 DEF Piece, TypeOK
<1>3. x.quantity = q /\ x.day = day /\ x.order = order
      OBVIOUS
<1>4. allocations' = Append(allocations, x)
      OBVIOUS
<1> HIDE DEF x
<1>5. /\ DOMAIN allocations' = DOMAIN allocations \cup {n}
      /\ allocations'[n] = x
      /\ n \notin DOMAIN allocations
      /\ \A i \in DOMAIN allocations : allocations'[i] = allocations[i]
      BY <1>1, <1>2, <1>4
<1>6. ASSUME NEW I \in SUBSET DOMAIN allocations
      PROVE  /\ Wafers(allocations', I) = Wafers(allocations, I)
             /\ Wafers(allocations', I \cup {n}) = q + Wafers(allocations, I)
  <2>1. x.quantity \in Nat
        BY <1>3
  <2>2. /\ Wafers(Append(allocations, x), I) = Wafers(allocations, I)
        /\ Wafers(Append(allocations, x), I \cup {Len(allocations) + 1})
              = x.quantity + Wafers(allocations, I)
        BY <1>1, <1>2, <2>1, WafersAppend
  <2> QED
      BY <1>3, <1>4, <2>2
<1>7. ASSUME NEW d
      PROVE  NewOn(d)' = NewOn(d) + IF d = day THEN q ELSE 0
  <2> DEFINE I == {i \in DOMAIN allocations : allocations[i].day = d}
  <2>1. {i \in DOMAIN allocations' : allocations'[i].day = d}
            = IF d = day THEN I \cup {n} ELSE I
        BY <1>3, <1>5
  <2>2. NewOn(d)' = Wafers(allocations', IF d = day THEN I \cup {n} ELSE I)
        BY <2>1 DEF NewOn
  <2>3. NewOn(d) = Wafers(allocations, I) /\ NewOn(d) \in Nat
        BY <1>1 DEF NewOn
  <2>4. I \in SUBSET DOMAIN allocations
        OBVIOUS
  <2> HIDE DEF I
  <2>5. CASE d = day
    <3>1. NewOn(d)' = q + Wafers(allocations, I)
          BY <1>6, <2>2, <2>4, <2>5
    <3> QED
        BY <2>3, <2>5, <3>1
  <2>6. CASE d # day
    <3>1. NewOn(d)' = Wafers(allocations, I)
          BY <1>6, <2>2, <2>4, <2>6
    <3> QED
        BY <2>3, <2>6, <3>1
  <2> QED
      BY <2>5, <2>6
<1>8. ASSUME NEW o
      PROVE  Placed(o)' = Placed(o) + IF o = order THEN q ELSE 0
  <2> DEFINE I == {i \in DOMAIN allocations : allocations[i].order = o}
  <2>1. {i \in DOMAIN allocations' : allocations'[i].order = o}
            = IF o = order THEN I \cup {n} ELSE I
        BY <1>3, <1>5
  <2>2. Placed(o)' = Wafers(allocations', IF o = order THEN I \cup {n} ELSE I)
        BY <2>1 DEF Placed
  <2>3. Placed(o) = Wafers(allocations, I) /\ Placed(o) \in Nat
        BY <1>1 DEF Placed
  <2>4. I \in SUBSET DOMAIN allocations
        OBVIOUS
  <2> HIDE DEF I
  <2>5. CASE o = order
    <3>1. Placed(o)' = q + Wafers(allocations, I)
          BY <1>6, <2>2, <2>4, <2>5
    <3> QED
        BY <2>3, <2>5, <3>1
  <2>6. CASE o # order
    <3>1. Placed(o)' = Wafers(allocations, I)
          BY <1>6, <2>2, <2>4, <2>6
    <3> QED
        BY <2>3, <2>6, <3>1
  <2> QED
      BY <2>5, <2>6
<1> QED
    BY <1>7, <1>8

(***************************************************************************)
(* The ledger comes first                                                  *)
(***************************************************************************)
\* buildCapacityLedger ends before planOrder begins.
LEMMA LedgerFirstStep ==
    ASSUME TypeOK, LedgerFirst, [Next]_vars
    PROVE  LedgerFirst'
<1>1. CASE ReadExisting
      BY <1>1 DEF ReadExisting, LedgerFirst, loopVars, resultVars
<1>2. CASE Next /\ ~ReadExisting
  <2>1. LedgerComplete
        BY <1>2
        DEF Next, PlanOrders, PlanOrder, PlanLate, NextOrder, NoOrderLeft, SkipFullDay,
            PlaceQuantity, OrderPlaced, GiveUp, EstimateDay, RecordLateConflict, LedgerFirst
  <2>2. UNCHANGED <<request, unread>>
        BY <1>2
        DEF Next, PlanOrders, PlanOrder, PlanLate, NextOrder, NoOrderLeft, SkipFullDay,
            PlaceQuantity, OrderPlaced, GiveUp, EstimateDay, RecordLateConflict, ledgerVars
  <2> QED
      BY <2>1, <2>2 DEF LedgerFirst, LedgerComplete
<1>3. CASE UNCHANGED vars
      BY <1>3 DEF vars, ledgerVars, loopVars, resultVars, LedgerFirst, LedgerComplete
<1> QED
    BY <1>1, <1>2, <1>3

\* While the ledger is read, nothing the other invariants speak of exists.
LEMMA Reading ==
    ASSUME LedgerFirst, ReadExisting
    PROVE  /\ pc' = "orders" /\ DOMAIN newUsed' = {} /\ allocations' = <<>>
           /\ conflicts' = <<>> /\ reported' = {}
BY DEF ReadExisting, LedgerFirst, loopVars, resultVars

(***************************************************************************)
(* Rank and frontier                                                       *)
(***************************************************************************)
\* Steps after which an order that was taken in rank still is.
LEMMA RankOrderStep ==
    ASSUME TypeOK, TypeOK', LedgerFirst, RankOrder, [Next]_vars
    PROVE  RankOrder'
<1>1. CASE ReadExisting
  <2>1. UNCHANGED <<request, todo>> /\ ~Planning'
        BY <1>1, Reading DEF ReadExisting, loopVars, Planning
  <2>2. \A x : TakenInRank(x) => TakenInRank(x)'
        BY <2>1 DEF TakenInRank, Before
  <2> QED
      BY <1>1, <2>1, <2>2, Reading DEF RankOrder
<1>2. CASE NextOrder
  <2>1. PICK o \in todo : /\ \A p \in todo \ {o} : Before(o, p)
                          /\ order' = o /\ todo' = todo \ {o}
        BY <1>2 DEF NextOrder
  <2>2. UNCHANGED <<request, ledgerVars, resultVars>> /\ ~Planning
        BY <1>2 DEF NextOrder, Planning
  <2>3. \A x : TakenInRank(x) => TakenInRank(x)'
        BY <2>1, <2>2, LedgerKept DEF TakenInRank
  <2>4. TakenInRank(o)'
        BY <2>1, <2>2, LedgerKept DEF TakenInRank, TypeOK
  <2>5. DOMAIN request.orders \ todo' \subseteq (DOMAIN request.orders \ todo) \cup {o}
        BY <2>1
  <2> QED
      BY <2>1, <2>2, <2>3, <2>4, <2>5 DEF RankOrder, resultVars
<1>3. CASE NoOrderLeft \/ OrderPlaced
  <2>1. UNCHANGED <<request, ledgerVars, todo, resultVars>> /\ ~Planning'
        BY <1>3 DEF NoOrderLeft, OrderPlaced, Planning
  <2>2. \A x : TakenInRank(x) => TakenInRank(x)'
        BY <2>1, LedgerKept DEF TakenInRank
  <2> QED
      BY <2>1, <2>2 DEF RankOrder, resultVars
<1>4. CASE SkipFullDay \/ GiveUp \/ EstimateDay
  <2>1. UNCHANGED <<request, ledgerVars, todo, order, resultVars>> /\ Planning
        BY <1>4 DEF SkipFullDay, GiveUp, EstimateDay, Planning
  <2>2. \A x : TakenInRank(x) => TakenInRank(x)'
        BY <2>1, LedgerKept DEF TakenInRank
  <2>3. TakenInRank(order)'
        BY <2>1, <2>2 DEF RankOrder
  <2> QED
      BY <2>1, <2>2, <2>3 DEF RankOrder, resultVars
<1>5. CASE PlaceQuantity \/ RecordLateConflict
  <2>1. UNCHANGED <<request, todo, order>> /\ Planning
        BY <1>5 DEF PlaceQuantity, RecordLateConflict, Planning
  <2>2. \A x : TakenInRank(x) => TakenInRank(x)'
        BY <2>1 DEF TakenInRank, Before
  <2>3. TakenInRank(order)'
        BY <2>1, <2>2 DEF RankOrder
  <2>4. \A i \in DOMAIN allocations' :
           \/ i \in DOMAIN allocations /\ allocations'[i] = allocations[i]
           \/ allocations'[i].order = order
        BY <1>5, NewPiece DEF RecordLateConflict
  <2>5. \A c \in DOMAIN conflicts' :
           \/ c \in DOMAIN conflicts /\ conflicts'[c] = conflicts[c]
           \/ conflicts'[c].order = order
        BY <1>5, NewConflict
  <2>6. ASSUME NEW i \in DOMAIN allocations'
        PROVE  TakenInRank(allocations[i].order)'
        BY <2>1, <2>2, <2>3, <2>4 DEF RankOrder, TakenInRank
  <2>7. ASSUME NEW c \in DOMAIN conflicts'
        PROVE  TakenInRank(conflicts[c].order)'
        BY <2>1, <2>2, <2>3, <2>5 DEF RankOrder, TakenInRank
  <2> QED
      BY <2>1, <2>2, <2>3, <2>6, <2>7 DEF RankOrder
<1>6. CASE UNCHANGED vars
      BY <1>6 DEF vars, ledgerVars, loopVars, resultVars, RankOrder, TakenInRank,
                  Planning, Before
<1> QED
    BY <1>1, <1>2, <1>3, <1>4, <1>5, <1>6 DEF Next, PlanOrders, PlanOrder, PlanLate

\* The day of planOrder only moves past days that are full.
LEMMA FrontierStep ==
    ASSUME TypeOK, TypeOK', LedgerFirst, RankOrder, Frontier, [Next]_vars
    PROVE  Frontier'
<1>0. Start \in Nat /\ day \in Nat
      BY StartType DEF TypeOK
<1>1. CASE ReadExisting
      BY <1>1, Reading DEF Frontier, Planning
<1>2. CASE NextOrder
  <2>1. order' \in todo /\ day' = Start /\ pc' = "days"
        BY <1>2 DEF NextOrder
  <2>2. UNCHANGED <<request, ledgerVars, resultVars>>
        BY <1>2 DEF NextOrder
  <2>3. Start' = Start
        BY <2>2, LedgerKept
  <2>4. \A i \in DOMAIN allocations' : allocations'[i].order # order'
        BY <2>1, <2>2 DEF RankOrder, TakenInRank, resultVars
  <2> QED
      BY <1>0, <2>1, <2>3, <2>4 DEF Frontier
<1>3. CASE NoOrderLeft \/ OrderPlaced \/ RecordLateConflict
      BY <1>3 DEF NoOrderLeft, OrderPlaced, RecordLateConflict, Frontier, Planning
<1>4. CASE SkipFullDay
  <2>1. /\ UNCHANGED <<request, ledgerVars, resultVars, order, pc>>
        /\ Available(day) <= 0 /\ day' = day + 1 /\ pc = "days"
        BY <1>4 DEF SkipFullDay
  <2>2. Start' = Start /\ \A d : Available(d)' = Available(d)
        BY <2>1, LedgerKept
  <2>3. \A d \in Start .. day' - 1 : Available(d) <= 0
        BY <1>0, <2>1 DEF Frontier, Planning
  <2>4. \A i \in DOMAIN allocations :
            allocations[i].order = order => allocations[i].day < day'
        BY <1>0, <2>1, PieceFields DEF Frontier, Planning
  <2>5. ASSUME NEW i \in DOMAIN allocations, allocations[i].order = order
        PROVE  allocations[i].day <= day' /\ allocations[i].day # day'
        BY <1>0, <2>1, <2>4, <2>5, PieceFields
  <2>6. /\ pc' = "days" /\ day' >= Start'
        /\ \A d \in Start' .. day' - 1 : Available(d)' <= 0
        BY <1>0, <2>1, <2>2, <2>3 DEF Frontier, Planning
  <2> QED
      BY <2>1, <2>5, <2>6 DEF Frontier, Planning, resultVars
<1>5. CASE PlaceQuantity
  <2>1. /\ UNCHANGED <<request, order, day, pc>> /\ Start' = Start
        /\ pc = "days" /\ remaining > 0 /\ Available(day) > 0
        BY <1>5 DEF PlaceQuantity, Start
  <2>2. \A d \in Start .. day - 1 : Available(d)' <= 0
    <3>1. \A d \in Start .. day - 1 : Available(d) <= 0
          BY <2>1 DEF Frontier, Planning
    <3>2. \A d : Available(d) \in Int /\ Available(d)' \in Int
                /\ Available(d)' <= Available(d)
          BY <1>5, AvailableFalls, AvailableType
    <3> QED
        BY <3>1, <3>2
  <2>3. remaining' = 0 \/ Available(day)' <= 0
    <3>1. PICK q \in Nat : /\ q = remaining \/ q = Available(day)
                           /\ remaining' = remaining - q
                           /\ Available(day)' = Available(day) - q
          BY <1>5, Placing
    <3> QED
        BY <3>1
  <2>4. ASSUME NEW i \in DOMAIN allocations', allocations'[i].order = order
        PROVE  allocations'[i].day <= day
        BY <1>0, <1>5, <2>1, <2>4, NewPiece DEF Frontier, Planning
  <2> QED
      BY <1>0, <2>1, <2>2, <2>3, <2>4 DEF Frontier, Planning, Available, Load
<1>6. CASE GiveUp
  <2>1. /\ UNCHANGED <<request, ledgerVars, resultVars, order, day, remaining>>
        /\ pc = "days" /\ TooLate
        BY <1>6 DEF GiveUp
  <2>2. Start' = Start /\ \A d : Available(d)' = Available(d)
        BY <2>1, LedgerKept
  <2> QED
      BY <2>1, <2>2 DEF Frontier, Planning, resultVars, TooLate
<1>7. CASE EstimateDay
  <2>1. UNCHANGED <<request, ledgerVars, resultVars, order, day, remaining, pc>>
        BY <1>7 DEF EstimateDay
  <2>2. Start' = Start /\ \A d : Available(d)' = Available(d)
        BY <2>1, LedgerKept
  <2> QED
      BY <2>1, <2>2 DEF Frontier, Planning, resultVars, TooLate
<1>8. CASE UNCHANGED vars
  <2>1. Start' = Start /\ \A d : Available(d)' = Available(d)
        BY <1>8, LedgerKept DEF vars
  <2> QED
      BY <1>8, <2>1 DEF vars, loopVars, resultVars, Frontier, Planning, TooLate
<1> QED
    BY <1>1, <1>2, <1>3, <1>4, <1>5, <1>6, <1>7, <1>8
    DEF Next, PlanOrders, PlanOrder, PlanLate

(***************************************************************************)
(* Capacity and days                                                       *)
(***************************************************************************)
\* Steps that leave the ledger, the request and the pieces alone.
LEMMA StepKinds ==
    ASSUME [Next]_vars
    PROVE  ReadExisting \/ PlaceQuantity \/ Quiet
BY QuietSteps
DEF Next, PlanOrders, PlanOrder, PlanLate, vars, Quiet, resultVars

\* What the properties read is not changed by a quiet step.
LEMMA QuietKeeps ==
    ASSUME Quiet
    PROVE  /\ UNCHANGED <<request, newUsed, allocations, lowByDate, lockedByDate>>
           /\ \A d : Load(d)' = Load(d) /\ Available(d)' = Available(d)
           /\ Start' = Start
           /\ \A o, p : Before(o, p)' = Before(o, p)
BY LedgerKept DEF Quiet, ledgerVars

\* Placing what availableCapacity allows does not overbook a day.
LEMMA CapacityStep ==
    ASSUME TypeOK, LedgerFirst, CapacityRespected, [Next]_vars
    PROVE  CapacityRespected'
<1>1. CASE ReadExisting
      BY <1>1, Reading DEF CapacityRespected
<1>2. CASE PlaceQuantity
  <2>1. PICK q \in Nat \ {0} :
              /\ q <= Available(day)
              /\ newUsed' = Add(newUsed, day, q)
              /\ Load(day)' = Load(day) + q
              /\ \A d : d # day => Load(d)' = Load(d)
        BY <1>2, Placing
  <2>2. request' = request /\ request.capacity \in Nat
        BY <1>2, RequestFields DEF PlaceQuantity, TypeOK, IsRequest
  <2>3. ASSUME NEW d \in DOMAIN newUsed', newUsed'[d] > 0
        PROVE  Load(d)' <= request.capacity
    <3>1. CASE d = day
      <4>1. Load(day) + q <= request.capacity
            BY <2>1, <2>2, AvailableType DEF Available
      <4>2. Load(d)' = Load(day)'
            BY <1>2, <3>1, day' = day DEF PlaceQuantity, Load
      <4> QED
          BY <2>1, <4>1, <4>2
    <3>2. CASE d # day
      <4>1. d \in DOMAIN newUsed /\ newUsed'[d] = newUsed[d]
            BY <2>1, <2>3, <3>2 DEF Add
      <4> QED
          BY <2>1, <2>3, <3>2, <4>1 DEF CapacityRespected
    <3> QED
        BY <3>1, <3>2
  <2> QED
      BY <2>2, <2>3 DEF CapacityRespected
<1>3. CASE Quiet
      BY <1>3, QuietKeeps DEF CapacityRespected
<1> QED
    BY <1>1, <1>2, <1>3, StepKinds

\* planOrder places a piece only when the days before it are full.
LEMMA WastedStep ==
    ASSUME TypeOK, LedgerFirst, Frontier, NoCapacityWasted, [Next]_vars
    PROVE  NoCapacityWasted'
<1>1. CASE ReadExisting
      BY <1>1, Reading DEF NoCapacityWasted
<1>2. CASE PlaceQuantity
  <2>1. Start' = Start /\ pc = "days"
        BY <1>2 DEF PlaceQuantity, Start
  <2>2. \A d : Available(d) \in Int /\ Available(d)' \in Int
                 /\ Available(d)' <= Available(d)
        BY <1>2, AvailableFalls, AvailableType
  <2>3. ASSUME NEW i \in DOMAIN allocations',
               NEW d \in Start .. allocations'[i].day - 1
        PROVE  Available(d) <= 0
        BY <1>2, <2>1, <2>3, NewPiece DEF Frontier, Planning, NoCapacityWasted
  <2> QED
      BY <2>1, <2>2, <2>3 DEF NoCapacityWasted
<1>3. CASE Quiet
      BY <1>3, QuietKeeps DEF NoCapacityWasted
<1> QED
    BY <1>1, <1>2, <1>3, StepKinds

\* A free day is after all days of earlier orders.
LEMMA FreeDayIsLater ==
    ASSUME TypeOK, NoCapacityWasted, Frontier, Planning, Available(day) > 0
    PROVE  \A i \in DOMAIN allocations : allocations[i].day <= day
<1> SUFFICES ASSUME NEW i \in DOMAIN allocations, allocations[i].day > day
             PROVE  FALSE
    BY PieceFields DEF TypeOK
<1>1. day \in Start .. allocations[i].day - 1
      BY PieceFields, StartType DEF TypeOK, Frontier
<1>2. Available(day) <= 0
      BY <1>1 DEF NoCapacityWasted
<1> QED
    BY <1>2, AvailableType

(***************************************************************************)
(* The ledger as a sum                                                     *)
(***************************************************************************)
\* The existing allocations have quantities and days.
LEMMA ExistingQuantities ==
    ASSUME TypeOK
    PROVE  /\ request.existing \in Seq(ExistingAllocation)
           /\ \A k \in DOMAIN request.existing :
                 request.existing[k].quantity \in Nat /\ request.existing[k].day \in Nat
<1>1. request.existing \in Seq(ExistingAllocation)
      BY RequestFields DEF TypeOK, IsRequest
<1>2. ASSUME NEW k \in DOMAIN request.existing
      PROVE  request.existing[k].quantity \in Nat /\ request.existing[k].day \in Nat
  <2>1. request.existing[k] \in ExistingAllocation
        BY <1>1
  <2> QED
      BY <2>1 DEF ExistingAllocation
<1> QED
    BY <1>1, <1>2

\* The next existing allocation counts for its day, if it is of the line.
LEMMA ReadGrows ==
    ASSUME TypeOK, ReadExisting
    PROVE  \A d : /\ ReadOn(d) \in Nat
                  /\ ReadOn(d)' = ReadOn(d)
                       + IF Existing.line = request.line /\ d = Existing.day
                         THEN Existing.quantity ELSE 0
<1> TAKE d
<1> DEFINE list == request.existing
           I == {k \in DOMAIN list : k < unread /\ list[k].line = request.line
                                                /\ list[k].day = d}
<1>1. /\ list \in Seq(ExistingAllocation)
      /\ \A k \in DOMAIN list : list[k].quantity \in Nat /\ list[k].day \in Nat
      BY ExistingQuantities
<1>2. /\ unread \in DOMAIN list /\ unread' = unread + 1 /\ request' = request
      /\ unread \in Nat
      BY DEF ReadExisting, LedgerComplete, TypeOK
<1>3. I \in SUBSET DOMAIN list /\ unread \notin I
      BY <1>2
<1>4. /\ ReadOn(d) = Wafers(list, I)
      /\ ReadOn(d)' = Wafers(list, {k \in DOMAIN list : k < unread + 1
                            /\ list[k].line = request.line /\ list[k].day = d})
      BY <1>2 DEF ReadOn
<1>5. {k \in DOMAIN list : k < unread + 1 /\ list[k].line = request.line
                                          /\ list[k].day = d}
         = IF Existing.line = request.line /\ d = Existing.day THEN I \cup {unread} ELSE I
  <2>1. \A k \in DOMAIN list : k < unread + 1 <=> k < unread \/ k = unread
        BY <1>1, <1>2
  <2> QED
      BY <1>2, <2>1 DEF Existing
<1>6. Wafers(list, I) \in Nat
      BY <1>1, <1>3, WafersOfType
<1>7. Wafers(list, I \cup {unread}) = Existing.quantity + Wafers(list, I)
  <2>1. Wafers(list, I \cup {unread}) = list[unread].quantity + Wafers(list, I)
    <3> HIDE DEF I
    <3> QED
        BY <1>1, <1>2, <1>3, WafersAdd
  <2> QED
      BY <2>1 DEF Existing
<1>8. Existing.quantity \in Nat
      BY <1>1, <1>2 DEF Existing
<1> HIDE DEF I, list
<1>9. CASE Existing.line = request.line /\ d = Existing.day
  <2>1. ReadOn(d)' = Existing.quantity + Wafers(list, I)
        BY <1>4, <1>5, <1>7, <1>9
  <2> QED
      BY <1>4, <1>6, <1>8, <1>9, <2>1
<1>10. CASE ~(Existing.line = request.line /\ d = Existing.day)
  <2>1. ReadOn(d)' = Wafers(list, I)
        BY <1>4, <1>5, <1>10
  <2> QED
      BY <1>4, <1>6, <1>10, <2>1
<1> QED
    BY <1>9, <1>10

\* buildCapacityLedger and planOrder add to the ledger what they add to the sums.
LEMMA LedgerSumsStep ==
    ASSUME TypeOK, LedgerFirst, LedgerSums, [Next]_vars
    PROVE  LedgerSums'
<1>0. TypeOK'
      BY TypeStep
<1>1. CASE ReadExisting
  <2>1. /\ UNCHANGED <<request, newUsed, allocations>>
        /\ IsCounter(highUsed) /\ IsCounter(lowUsed)
        BY <1>1 DEF ReadExisting, resultVars, TypeOK
  <2>2. /\ Existing.day \in Nat /\ Existing.quantity \in Nat
    <3>1. Existing \in ExistingAllocation
          BY <1>1, ExistingFields DEF ReadExisting
    <3> QED
        BY <3>1 DEF ExistingAllocation
  <2>3. ASSUME NEW d \in Nat
        PROVE  Used(newUsed', d) = NewOn(d)'
        BY <2>1, <2>3 DEF LedgerSums, NewOn
  <2>4. ASSUME NEW d \in Nat
        PROVE  Used(highUsed', d) + Used(lowUsed', d)
                  = IF request.manualForce THEN 0 ELSE ReadOn(d)'
    <3> DEFINE counts == Existing.line = request.line /\ d = Existing.day
    <3>1. /\ Used(highUsed, d) + Used(lowUsed, d)
               = IF request.manualForce THEN 0 ELSE ReadOn(d)
          /\ Used(highUsed, d) \in Nat /\ Used(lowUsed, d) \in Nat
          BY <2>1, UsedOfType DEF LedgerSums
    <3>2. /\ ReadOn(d) \in Nat
          /\ ReadOn(d)' = ReadOn(d) + IF counts THEN Existing.quantity ELSE 0
          BY <1>1, ReadGrows
    <3>3. CASE SkipOtherLine
          BY <3>1, <3>2, <3>3 DEF SkipOtherLine
    <3>4. CASE NoteForReview
          BY <3>1, <3>2, <3>4 DEF NoteForReview
    <3>5. CASE TakeCapacity
      <4>1. /\ Used(highUsed', d) + Used(lowUsed', d)
                 = Used(highUsed, d) + Used(lowUsed, d)
                      + IF counts THEN Existing.quantity ELSE 0
        <5>1. CASE Existing.locked
          <6>1. /\ highUsed' = Add(highUsed, Existing.day, Existing.quantity)
                /\ lowUsed' = lowUsed /\ Existing.line = request.line
                BY <3>5, <5>1 DEF TakeCapacity
          <6>2. Used(highUsed', d) = Used(highUsed, d)
                    + IF counts THEN Existing.quantity ELSE 0
            <7>1. Used(highUsed', d) = Used(highUsed, d)
                      + IF d = Existing.day THEN Existing.quantity ELSE 0
                  BY <2>1, <2>2, <6>1, AddAt
            <7> QED
                BY <6>1, <7>1
          <6> QED
              BY <2>2, <3>1, <6>1, <6>2
        <5>2. CASE ~Existing.locked
          <6>1. /\ lowUsed' = Add(lowUsed, Existing.day, Existing.quantity)
                /\ highUsed' = highUsed /\ Existing.line = request.line
                BY <3>5, <5>2 DEF TakeCapacity
          <6>2. Used(lowUsed', d) = Used(lowUsed, d)
                    + IF counts THEN Existing.quantity ELSE 0
            <7>1. Used(lowUsed', d) = Used(lowUsed, d)
                      + IF d = Existing.day THEN Existing.quantity ELSE 0
                  BY <2>1, <2>2, <6>1, AddAt
            <7> QED
                BY <6>1, <7>1
          <6> QED
              BY <2>2, <3>1, <6>1, <6>2
        <5> QED
            BY <5>1, <5>2
      <4>2. ~request.manualForce
            BY <3>5 DEF TakeCapacity
      <4> QED
          BY <3>1, <3>2, <4>1, <4>2
    <3> QED
        BY <1>1, <3>3, <3>4, <3>5 DEF ReadExisting
  <2> QED
      BY <2>1, <2>3, <2>4 DEF LedgerSums
<1>2. CASE PlaceQuantity
  <2>1. PICK q \in Nat \ {0} :
              /\ allocations' = Append(allocations,
                    [order |-> order, day |-> day, quantity |-> q,
                     locked |-> request.orders[order].high])
              /\ newUsed' = Add(newUsed, day, q)
        BY <1>2, Placing
  <2>2. /\ UNCHANGED <<request, unread, highUsed, lowUsed>>
        /\ IsCounter(newUsed) /\ day \in Nat
        BY <1>2 DEF PlaceQuantity, TypeOK
  <2>3. ASSUME NEW d \in Nat
        PROVE  Used(newUsed', d) = NewOn(d)'
    <3>1. NewOn(d)' = NewOn(d) + IF d = day THEN q ELSE 0
          BY <1>2, <2>1, PlacedStep
    <3>2. Used(newUsed', d) = Used(newUsed, d) + IF d = day THEN q ELSE 0
          BY <2>1, <2>2, AddAt
    <3> QED
        BY <3>1, <3>2 DEF LedgerSums
  <2>4. \A d : ReadOn(d)' = ReadOn(d)
        BY <2>2 DEF ReadOn
  <2> QED
      BY <2>2, <2>3, <2>4 DEF LedgerSums
<1>3. CASE Quiet
  <2>1. /\ \A d : ReadOn(d)' = ReadOn(d) /\ NewOn(d)' = NewOn(d)
        /\ UNCHANGED <<request, newUsed, highUsed, lowUsed>>
        BY <1>3 DEF Quiet, ledgerVars, ReadOn, NewOn
  <2> QED
      BY <2>1 DEF LedgerSums
<1> QED
    BY <1>1, <1>2, <1>3, StepKinds

\* Once it is read, the ledger has the sums for every day.
LEMMA LoadIsExact ==
    ASSUME TypeOK, LedgerSums, LedgerComplete, NEW d \in Nat
    PROVE  Load(d) = NewOn(d) + Backlog(d)
<1>1. ReadOn(d) = OldOn(d)
  <2>1. request.existing \in Seq(ExistingAllocation) /\ unread \in Nat \ {0}
        BY RequestFields DEF TypeOK, IsRequest
  <2>2. unread > Len(request.existing)
        BY <2>1 DEF LedgerComplete
  <2>3. \A k \in DOMAIN request.existing : k < unread
        BY <2>1, <2>2
  <2> QED
      BY <2>3 DEF ReadOn, OldOn
<1>2. /\ Used(newUsed, d) = NewOn(d)
      /\ Used(highUsed, d) + Used(lowUsed, d) = Backlog(d)
      BY <1>1 DEF LedgerSums, Backlog
<1>3. /\ Used(newUsed, d) \in Nat
      /\ Used(highUsed, d) \in Nat
      /\ Used(lowUsed, d) \in Nat
      BY UsedOfType DEF TypeOK
<1>4. CASE request.manualForce
  <2>1. Used(highUsed, d) = 0
        BY <1>2, <1>3, <1>4 DEF Backlog
  <2> QED
      BY <1>2, <1>3, <1>4, <2>1 DEF Load, Backlog
<1>5. CASE ~request.manualForce
      BY <1>2, <1>3, <1>5 DEF Load
<1> QED
    BY <1>4, <1>5

(***************************************************************************)
(* Quantities and the estimate                                             *)
(***************************************************************************)
\* The wafers of an order are on the calendar or to be placed.
LEMMA QuantitySumsStep ==
    ASSUME TypeOK, TypeOK', LedgerFirst, RankOrder, QuantitySums, Estimating, [Next]_vars
    PROVE  QuantitySums'
<1>0. /\ \A o \in DOMAIN request.orders : request.orders[o].quantity \in Nat \ {0}
      /\ \A o : Placed(o) \in Nat
      /\ todo \subseteq DOMAIN request.orders
      BY RequestFields, PieceQuantities DEF TypeOK, IsRequest, OrderInput
<1>1. CASE ReadExisting
  <2>1. UNCHANGED <<request, todo, allocations, conflicts, pc, order, remaining>>
        BY <1>1 DEF ReadExisting, loopVars, resultVars
  <2> QED
      BY <2>1 DEF QuantitySums, Planning, Placed, Late
<1>2. CASE NextOrder
  <2>1. PICK o \in todo : /\ order' = o /\ todo' = todo \ {o}
                          /\ remaining' = request.orders[o].quantity
        BY <1>2 DEF NextOrder
  <2>2. UNCHANGED <<request, allocations, conflicts>> /\ ~Planning /\ pc' = "days"
        BY <1>2 DEF NextOrder, Planning, resultVars
  <2>3. \A p : Placed(p)' = Placed(p) /\ Late(p)' = Late(p)
        BY <2>2 DEF Placed, Late
  <2>4. Placed(o) = 0 /\ ~Late(o)
    <3>1. \A i \in DOMAIN allocations : allocations[i].order # o
          BY DEF RankOrder, TakenInRank
    <3>2. {i \in DOMAIN allocations : allocations[i].order = o} = {}
          BY <3>1
    <3>3. Placed(o) = 0
          BY <3>2, WafersEmpty DEF Placed
    <3>4. ~Late(o)
          BY DEF RankOrder, TakenInRank, Late
    <3> QED
        BY <3>3, <3>4
  <2>5. Placed(order)' = Placed(o) /\ Late(order)' = Late(o)
        BY <2>1, <2>2 DEF Placed, Late
  <2>6. Placed(order)' + remaining' = request.orders[order'].quantity
    <3>1. request.orders[o].quantity \in Nat
          BY <1>0
    <3> QED
        BY <2>1, <2>4, <2>5, <3>1
  <2>7. ASSUME NEW p \in DOMAIN request.orders \ todo', p # o
        PROVE  \/ Placed(p)' = request.orders[p].quantity /\ ~Late(p)'
               \/ Placed(p)' < request.orders[p].quantity /\ Late(p)'
        BY <2>1, <2>2, <2>3, <2>7 DEF QuantitySums
  <2> QED
      BY <2>1, <2>2, <2>4, <2>5, <2>6, <2>7 DEF QuantitySums, Planning
<1>3. CASE SkipFullDay \/ GiveUp \/ EstimateDay \/ NoOrderLeft \/ UNCHANGED vars
  <2>1. UNCHANGED <<request, todo, allocations, conflicts, order, remaining>>
        BY <1>3 DEF SkipFullDay, GiveUp, EstimateDay, NoOrderLeft, vars, loopVars, resultVars
  <2>2. Planning' = Planning
        BY <1>3 DEF SkipFullDay, GiveUp, EstimateDay, NoOrderLeft, vars, loopVars, Planning
  <2>3. pc' = "estimate" => remaining > 0
        BY <1>3 DEF SkipFullDay, GiveUp, EstimateDay, NoOrderLeft, vars, loopVars,
                    QuantitySums
  <2>4. /\ \A o : Placed(o)' = Placed(o) /\ Late(o)' = Late(o)
        /\ Placed(order)' = Placed(order) /\ Late(order)' = Late(order)
        BY <2>1 DEF Placed, Late
  <2> QED
      BY <2>1, <2>2, <2>3, <2>4 DEF QuantitySums
<1>4. CASE PlaceQuantity
  <2>1. PICK q \in Nat \ {0} :
              /\ q <= remaining /\ remaining' = remaining - q
              /\ allocations' = Append(allocations,
                    [order |-> order, day |-> day, quantity |-> q,
                     locked |-> request.orders[order].high])
        BY <1>4, Placing
  <2>2. /\ UNCHANGED <<request, todo, order, pc>> /\ pc = "days" /\ Planning
        /\ remaining \in Nat
        BY <1>4 DEF PlaceQuantity, Planning, TypeOK
  <2>3. \A o : Placed(o)' = Placed(o) + IF o = order THEN q ELSE 0
        BY <1>4, <2>1, PlacedStep
  <2>4. /\ \A o : Late(o)' <=> Late(o)
        /\ Late(order)' <=> Late(order)
    <3>1. ~RecordLateConflict
          BY <2>2 DEF RecordLateConflict
    <3>2. /\ \A c \in DOMAIN conflicts :
                c \in DOMAIN conflicts' /\ conflicts'[c] = conflicts[c]
          /\ \A c \in DOMAIN conflicts' :
                \/ c \in DOMAIN conflicts /\ conflicts'[c] = conflicts[c]
                \/ conflicts'[c].reason # "late"
          BY <1>4, <3>1, NewConflict
    <3> QED
        BY <2>2, <3>2 DEF Late
  <2>5. Placed(order)' + remaining' = request.orders[order].quantity
    <3>1. Placed(order)' = Placed(order) + q
      <4>1. PICK o : o = order
            OBVIOUS
      <4>2. Placed(o)' = Placed(o) + q
            BY <2>3, <4>1
      <4>3. Placed(order)' = Placed(o)'
            BY <2>2, <4>1 DEF Placed
      <4> QED
          BY <4>1, <4>2, <4>3
    <3>2. Placed(order) + remaining = request.orders[order].quantity
          BY <2>2 DEF QuantitySums
    <3> QED
        BY <1>0, <2>1, <2>2, <3>1, <3>2
  <2>6. ASSUME NEW o \in DOMAIN request.orders \ todo, o # order
        PROVE  Placed(o)' = Placed(o)
        BY <1>0, <2>3, <2>6
  <2> QED
      BY <2>2, <2>4, <2>5, <2>6 DEF QuantitySums, Planning
<1>5. CASE OrderPlaced
  <2>1. /\ UNCHANGED <<request, todo, allocations, conflicts, order, remaining>>
        /\ Planning /\ remaining = 0 /\ pc' = "orders"
        BY <1>5 DEF OrderPlaced, resultVars, Planning
  <2>2. \A o : Placed(o)' = Placed(o) /\ Late(o)' = Late(o)
        BY <2>1 DEF Placed, Late
  <2>3. Placed(order) = request.orders[order].quantity /\ ~Late(order)
        BY <1>0, <2>1 DEF QuantitySums
  <2> QED
      BY <2>1, <2>2, <2>3 DEF QuantitySums, Planning
<1>6. CASE RecordLateConflict
  <2>1. /\ UNCHANGED <<request, todo, allocations, order, remaining>>
        /\ Planning /\ pc = "estimate" /\ pc' = "orders"
        /\ order \in DOMAIN request.orders /\ remaining \in Nat
        BY <1>6 DEF RecordLateConflict, Planning, TypeOK
  <2>2. \A o : Placed(o)' = Placed(o)
        BY <2>1 DEF Placed
  <2>3. /\ \A c \in DOMAIN conflicts :
              c \in DOMAIN conflicts' /\ conflicts'[c] = conflicts[c]
        /\ \A c \in DOMAIN conflicts' :
              \/ c \in DOMAIN conflicts /\ conflicts'[c] = conflicts[c]
              \/ conflicts'[c].order = order
        BY <1>6, NewConflict
  <2>4. \A o : o # order => (Late(o)' <=> Late(o))
        BY <2>3 DEF Late
  <2>5. \A o : o = order => Late(o)'
    <3> DEFINE x == [order |-> order, reason |-> "late", earliestFinish |-> finish,
           affected |-> UNION {OrdersOn(lowByDate, d) :
                 d \in Start..Later(finish, request.orders[order].due)}]
    <3>1. conflicts' = Append(conflicts, x)
          BY <1>6 DEF RecordLateConflict
    <3>2. x.order = order /\ x.reason = "late"
          OBVIOUS
    <3>3. conflicts \in Seq(Conflict \cup {x}) /\ x \in Conflict \cup {x}
          BY DEF TypeOK
    <3> HIDE DEF x
    <3>4. \E c \in DOMAIN conflicts' : conflicts'[c] = x
          BY <3>1, <3>3, Appended
    <3> QED
        BY <3>2, <3>4 DEF Late
  <2>6. Placed(order) < request.orders[order].quantity
    <3>1. Placed(order) + remaining = request.orders[order].quantity /\ remaining > 0
          BY <2>1 DEF QuantitySums
    <3> QED
        BY <1>0, <2>1, <3>1
  <2> QED
      BY <2>1, <2>2, <2>4, <2>5, <2>6 DEF QuantitySums, Planning
<1> QED
    BY <1>1, <1>2, <1>3, <1>4, <1>5, <1>6 DEF Next, PlanOrders, PlanOrder, PlanLate

\* The free wafers of an interval, one day more.
LEMMA FreeGrows ==
    ASSUME TypeOK, NEW last \in Int, last >= day
    PROVE  /\ FreeUntil(last - 1) \in Nat
           /\ FreeUntil(last) = FreeUntil(last - 1) + Later(Available(last), 0)
<1> DEFINE f == [d \in day .. last |-> Later(Available(d), 0)]
           g == [d \in day .. last - 1 |-> Later(Available(d), 0)]
<1>1. day \in Nat
      BY DEF TypeOK
<1>2. IsFiniteSet(day .. last - 1)
      BY <1>1, FS_Interval
<1>3. /\ day .. last = (day .. last - 1) \cup {last}
      /\ last \notin day .. last - 1
      BY <1>1
<1>4. \A d \in Int : Later(Available(d), 0) \in Nat
      BY AvailableType DEF Later
<1>5. /\ \A d \in (day .. last - 1) \cup {last} : f[d] \in Nat
      /\ \A d \in day .. last - 1 : g[d] \in Nat /\ f[d] = g[d]
      /\ f[last] = Later(Available(last), 0)
  <2>1. \A d \in day .. last : d \in Int /\ f[d] = Later(Available(d), 0)
        BY <1>1
  <2>2. \A d \in day .. last - 1 : d \in Int /\ g[d] = Later(Available(d), 0)
        BY <1>1
  <2> HIDE DEF f, g
  <2> QED
      BY <1>3, <1>4, <2>1, <2>2
<1>6. /\ FreeUntil(last - 1) = SumFunctionOnSet(g, day .. last - 1)
      /\ FreeUntil(last) = SumFunctionOnSet(f, (day .. last - 1) \cup {last})
      BY <1>3 DEF FreeUntil, SumFunction
<1> HIDE DEF f, g
<1>7. SumFunctionOnSet(g, day .. last - 1) \in Nat
      BY <1>2, <1>5, SumType
<1>8. SumFunctionOnSet(f, (day .. last - 1) \cup {last})
         = f[last] + SumFunctionOnSet(f, day .. last - 1)
      BY <1>2, <1>3, <1>5, SumAdd
<1>9. SumFunctionOnSet(f, day .. last - 1) = SumFunctionOnSet(g, day .. last - 1)
      BY <1>2, <1>5, SumCongruent
<1>10. Later(Available(last), 0) \in Nat
      BY <1>4
<1> QED
    BY <1>5, <1>6, <1>7, <1>8, <1>9, <1>10

\* The estimate counts each free wafer once and stops on the day of the last one.
LEMMA EstimatingStep ==
    ASSUME TypeOK, LedgerFirst, QuantitySums, Estimating, [Next]_vars
    PROVE  Estimating'
<1>0. day \in Nat /\ finish \in Nat /\ missing \in Nat /\ remaining \in Nat
      BY DEF TypeOK
<1>1. CASE GiveUp
  <2>1. /\ finish' = day /\ missing' = remaining /\ remaining' = remaining
        /\ day' = day /\ remaining > 0
        BY <1>1 DEF GiveUp
  <2>2. FreeUntil(finish - 1)' = 0
    <3> DEFINE g == [d \in {} |-> Later(Available(d)', 0)]
    <3>1. day' .. finish' - 1 = {}
          BY <1>0, <2>1
    <3>2. FreeUntil(finish - 1)' = SumFunction(g)
          BY <3>1 DEF FreeUntil
    <3>3. SumFunction(g) = SumFunctionOnSet(g, {})
          BY DEF SumFunction
    <3> QED
        BY <3>2, <3>3, SumEmpty
  <2> QED
      BY <1>0, <2>1, <2>2 DEF Estimating
<1>2. CASE EstimateDay
  <2> DEFINE free == Later(Available(finish), 0)
             placeable == IF Available(finish) > 0
                          THEN Smaller(missing, Available(finish)) ELSE 0
  <2>1. /\ pc = "estimate" /\ missing > 0
        /\ missing' = missing - placeable
        /\ finish' = IF missing > placeable THEN finish + 1 ELSE finish
        /\ UNCHANGED <<request, ledgerVars, day, remaining>>
        BY <1>2 DEF EstimateDay
  <2>2. Available(finish) \in Int
        BY AvailableType
  <2>3. free \in Nat /\ placeable = Smaller(missing, free)
        BY <1>0, <2>2 DEF Later, Smaller
  <2>4. missing + FreeUntil(finish - 1) = remaining /\ finish >= day
        BY <2>1 DEF Estimating
  <2>5. /\ FreeUntil(finish - 1) \in Nat
        /\ FreeUntil(finish) = FreeUntil(finish - 1) + free
        BY <1>0, <2>4, FreeGrows
  <2>6. \A d : Available(d)' = Available(d)
        BY <2>1, LedgerKept
  <2>7. \A last : FreeUntil(last)' = FreeUntil(last)
        BY <2>1, <2>6 DEF FreeUntil
  <2> HIDE DEF free, placeable
  <2>8. CASE missing > placeable
    <3>1. finish' = finish + 1 /\ placeable = free /\ missing' = missing - free
          BY <1>0, <2>1, <2>3, <2>8 DEF Smaller
    <3>2. FreeUntil(finish - 1)' = FreeUntil(finish)
      <4>1. finish' - 1 = finish
            BY <1>0, <3>1
      <4> QED
          BY <2>1, <2>6, <4>1 DEF FreeUntil
    <3>3. missing' > 0 /\ missing' + FreeUntil(finish - 1)' = remaining
          BY <1>0, <2>3, <2>4, <2>5, <2>8, <3>1, <3>2
    <3> QED
        BY <1>0, <2>1, <2>4, <3>1, <3>3 DEF Estimating
  <2>9. CASE ~(missing > placeable)
    <3>1. finish' = finish /\ placeable = missing /\ missing' = 0 /\ free >= missing
          BY <1>0, <2>1, <2>3, <2>9 DEF Smaller
    <3>2. /\ FreeUntil(finish - 1)' = FreeUntil(finish - 1)
          /\ FreeUntil(finish)' = FreeUntil(finish)
          BY <2>1, <2>6, <3>1 DEF FreeUntil
    <3>3. FreeUntil(finish) >= remaining /\ FreeUntil(finish - 1) < remaining
          BY <1>0, <2>1, <2>3, <2>4, <2>5, <3>1
    <3> QED
        BY <1>0, <2>1, <2>4, <3>1, <3>2, <3>3 DEF Estimating
  <2> QED
      BY <2>8, <2>9
<1>3. CASE UNCHANGED vars
  <2>1. UNCHANGED <<request, ledgerVars, pc, day, finish, missing, remaining>>
        BY <1>3 DEF vars, loopVars
  <2>2. \A d : Available(d)' = Available(d)
        BY <2>1, LedgerKept
  <2>3. /\ FreeUntil(finish - 1)' = FreeUntil(finish - 1)
        /\ FreeUntil(finish)' = FreeUntil(finish)
        BY <2>1, <2>2 DEF FreeUntil
  <2> QED
      BY <2>1, <2>3 DEF Estimating
<1>4. CASE pc' # "estimate"
      BY <1>4 DEF Estimating
<1>5. ReadExisting => pc' # "estimate"
      BY Reading
<1> QED
    BY <1>1, <1>2, <1>3, <1>4, <1>5
    DEF Next, PlanOrders, PlanOrder, PlanLate, NextOrder, NoOrderLeft, SkipFullDay,
        PlaceQuantity, OrderPlaced, RecordLateConflict

(***************************************************************************)
(* Every order takes all its room                                          *)
(***************************************************************************)
\* What is counted of a list of pieces is a number.
LEMMA ListSums ==
    ASSUME NEW list \in Seq(Piece)
    PROVE  /\ \A i \in DOMAIN list : list[i] \in Piece /\ list[i].quantity \in Nat \ {0}
           /\ \A o, d : OrderOn(list, o, d) \in Nat
           /\ \A o, d : OrderBefore(list, o, d) \in Nat
           /\ \A o, d : AheadOn(list, o, d) \in Nat
<1>1. \A i \in DOMAIN list : list[i] \in Piece
      OBVIOUS
<1>2. \A i \in DOMAIN list : list[i].quantity \in Nat \ {0}
      BY <1>1 DEF Piece
<1> QED
    BY <1>1, <1>2, WafersOfType DEF OrderOn, OrderBefore, AheadOn

\* A piece has at least one wafer.
LEMMA OwnPiece ==
    ASSUME NEW list \in Seq(Piece), NEW i \in DOMAIN list
    PROVE  OrderOn(list, list[i].order, list[i].day) >= list[i].quantity
<1> DEFINE I == {k \in DOMAIN list : /\ list[k].order = list[i].order
                                     /\ list[k].day = list[i].day}
<1>1. \A k \in DOMAIN list : list[k].quantity \in Nat \ {0}
      BY ListSums
<1>2. I = (I \ {i}) \cup {i} /\ I \ {i} \in SUBSET DOMAIN list
      OBVIOUS
<1>3. Wafers(list, I \ {i}) \in Nat
      BY <1>1, <1>2, WafersOfType
<1>4. Wafers(list, I) = list[i].quantity + Wafers(list, I \ {i})
  <2> HIDE DEF I
  <2> QED
      BY <1>1, <1>2, WafersAdd
<1> QED
    BY <1>1, <1>3, <1>4 DEF OrderOn

\* The days before the next one that an order comes to hold all of it.
LEMMA AllBefore ==
    ASSUME TypeOK, Frontier, Planning, NEW d \in Nat, d >= day,
           OrderOn(allocations, order, d) = 0
    PROVE  OrderBefore(allocations, order, d) = Placed(order)
<1>1. allocations \in Seq(Piece) /\ day \in Nat
      BY DEF TypeOK
<1>2. ASSUME NEW i \in DOMAIN allocations, allocations[i].order = order
      PROVE  allocations[i].day < d
  <2>1. allocations[i].day \in Nat /\ allocations[i].day <= day
        BY <1>2, PieceFields DEF Frontier
  <2>2. allocations[i].day # d
    <3>1. SUFFICES ASSUME allocations[i].day = d PROVE FALSE
          OBVIOUS
    <3>2. OrderOn(allocations, order, d) >= allocations[i].quantity
          BY <1>1, <1>2, <3>1, OwnPiece
    <3>3. allocations[i].quantity \in Nat \ {0}
          BY <1>1, ListSums
    <3> QED
        BY <3>2, <3>3
  <2> QED
      BY <1>1, <2>1, <2>2
<1>3. {i \in DOMAIN allocations : allocations[i].order = order /\ allocations[i].day < d}
        = {i \in DOMAIN allocations : allocations[i].order = order}
      BY <1>2
<1> QED
    BY <1>3 DEF OrderBefore, Placed

\* The orders that rank before the one being planned have all the other pieces.
LEMMA AllAhead ==
    ASSUME TypeOK, RankOrder, Planning, NEW d \in Nat, OrderOn(allocations, order, d) = 0
    PROVE  AheadOn(allocations, order, d) = NewOn(d)
<1>1. allocations \in Seq(Piece)
      BY DEF TypeOK
<1>2. ASSUME NEW i \in DOMAIN allocations, allocations[i].day = d
      PROVE  Before(allocations[i].order, order)
  <2>1. allocations[i].order # order
    <3>1. SUFFICES ASSUME allocations[i].order = order PROVE FALSE
          OBVIOUS
    <3>2. OrderOn(allocations, order, d) >= allocations[i].quantity
          BY <1>1, <1>2, <3>1, OwnPiece
    <3>3. allocations[i].quantity \in Nat \ {0}
          BY <1>1, ListSums
    <3> QED
        BY <3>2, <3>3
  <2> QED
      BY <2>1 DEF RankOrder, TakenInRank
<1>3. {i \in DOMAIN allocations : /\ Before(allocations[i].order, order)
                                  /\ allocations[i].day = d}
        = {i \in DOMAIN allocations : allocations[i].day = d}
      BY <1>2
<1> QED
    BY <1>3 DEF AheadOn, NewOn

\* The room of the order being planned is what is available.
LEMMA RoomIsAvailable ==
    ASSUME TypeOK, LedgerFirst, RankOrder, LedgerSums, Planning, NEW d \in Nat,
           OrderOn(allocations, order, d) = 0
    PROVE  Room(allocations, order, d) = Later(Available(d), 0)
<1>1. AheadOn(allocations, order, d) = NewOn(d)
      BY AllAhead
<1>2. LedgerComplete
      BY DEF LedgerFirst, Planning
<1>3. Load(d) = NewOn(d) + Backlog(d)
      BY <1>2, LoadIsExact
<1>4. Load(d) \in Nat /\ NewOn(d) \in Nat /\ request.capacity \in Nat
      BY AvailableType, PieceQuantities, RequestFields DEF TypeOK, IsRequest
<1>5. Backlog(d) \in Nat
      BY ExistingQuantities, WafersOfType DEF Backlog, OldOn
<1>6. request.capacity - Backlog(d) - NewOn(d) = Available(d)
      BY <1>3, <1>4, <1>5 DEF Available
<1> QED
    BY <1>1, <1>6 DEF Room

\* Steps that place nothing leave all that was placed.
LEMMA SameRoom ==
    ASSUME UNCHANGED <<request, allocations>>, NEW o, NEW d
    PROVE  /\ OrderOn(allocations, o, d)' = OrderOn(allocations, o, d)
           /\ TakesAllRoom(allocations, o, d)' = TakesAllRoom(allocations, o, d)
BY DEF OrderOn, TakesAllRoom, OrderBefore, Room, AheadOn, Before, UsableDay, Start,
       Backlog, OldOn

\* Placing a piece changes the room of no order that was taken before, and of the
\* order being planned on no earlier day.
LEMMA RoomKept ==
    ASSUME TypeOK, RankOrder, PlaceQuantity, NEW q \in Nat \ {0},
           allocations' = Append(allocations,
              [order |-> order, day |-> day, quantity |-> q,
               locked |-> request.orders[order].high]),
           NEW o \in DOMAIN request.orders \ todo, NEW d \in Nat
    PROVE  /\ AheadOn(allocations, o, d)' = AheadOn(allocations, o, d)
           /\ o # order \/ d <= day =>
                 OrderBefore(allocations, o, d)' = OrderBefore(allocations, o, d)
           /\ OrderOn(allocations, o, d)' = OrderOn(allocations, o, d)
                 + IF o = order /\ d = day THEN q ELSE 0
<1> DEFINE x == [order |-> order, day |-> day, quantity |-> q,
                 locked |-> request.orders[order].high]
           n == Len(allocations) + 1
<1>1. /\ allocations \in Seq(Piece)
      /\ \A i \in DOMAIN allocations : allocations[i].quantity \in Nat
      BY PieceQuantities
<1>2. x \in Piece
  <2>1. order \in DOMAIN request.orders
        BY DEF TypeOK, PlaceQuantity
  <2>2. request.orders[order].high \in BOOLEAN
        BY <2>1, RequestFields DEF TypeOK, IsRequest, OrderInput
  <2> QED
      BY <2>2 DEF Piece, TypeOK
<1>3. x.quantity = q /\ x.day = day /\ x.order = order
      OBVIOUS
<1>4. allocations' = Append(allocations, x)
      OBVIOUS
<1> HIDE DEF x
<1>5. /\ DOMAIN allocations' = DOMAIN allocations \cup {n}
      /\ allocations'[n] = x
      /\ n \notin DOMAIN allocations
      /\ \A i \in DOMAIN allocations : allocations'[i] = allocations[i]
      BY <1>1, <1>2, <1>4
<1>6. ASSUME NEW I \in SUBSET DOMAIN allocations
      PROVE  /\ Wafers(allocations', I) = Wafers(allocations, I)
             /\ Wafers(allocations', I \cup {n}) = q + Wafers(allocations, I)
  <2>1. x.quantity \in Nat
        BY <1>3
  <2>2. /\ Wafers(Append(allocations, x), I) = Wafers(allocations, I)
        /\ Wafers(Append(allocations, x), I \cup {Len(allocations) + 1})
              = x.quantity + Wafers(allocations, I)
        BY <1>1, <1>2, <2>1, WafersAppend
  <2> QED
      BY <1>3, <1>4, <2>2
<1>7. /\ ~Before(order, o)
      /\ \A p : Before(p, o)' = Before(p, o)
  <2>1. TakenInRank(o) /\ Planning /\ order \in DOMAIN request.orders
        BY DEF RankOrder, PlaceQuantity, Planning, TypeOK
  <2>2. ~Before(order, order)
        BY <2>1, RankStrict
  <2>3. o = order \/ ~Before(order, o)
        BY <2>1, RankStrict DEF TakenInRank
  <2> QED
      BY <2>2, <2>3 DEF PlaceQuantity, Before
<1>8. AheadOn(allocations, o, d)' = AheadOn(allocations, o, d)
  <2> DEFINE I == {i \in DOMAIN allocations : /\ Before(allocations[i].order, o)
                                              /\ allocations[i].day = d}
  <2>1. {i \in DOMAIN allocations' : /\ Before(allocations'[i].order, o)
                                     /\ allocations'[i].day = d} = I
        BY <1>3, <1>5, <1>7
  <2>2. AheadOn(allocations, o, d)' = Wafers(allocations', I)
        BY <1>7, <2>1 DEF AheadOn
  <2> QED
      BY <1>6, <2>2 DEF AheadOn
<1>9. ASSUME o # order \/ d <= day
      PROVE  OrderBefore(allocations, o, d)' = OrderBefore(allocations, o, d)
  <2> DEFINE I == {i \in DOMAIN allocations : /\ allocations[i].order = o
                                              /\ allocations[i].day < d}
  <2>1. {i \in DOMAIN allocations' : /\ allocations'[i].order = o
                                     /\ allocations'[i].day < d} = I
        BY <1>3, <1>5, <1>9 DEF TypeOK
  <2>2. OrderBefore(allocations, o, d)' = Wafers(allocations', I)
        BY <2>1 DEF OrderBefore
  <2> QED
      BY <1>6, <2>2 DEF OrderBefore
<1>10. OrderOn(allocations, o, d)' = OrderOn(allocations, o, d)
                 + IF o = order /\ d = day THEN q ELSE 0
  <2> DEFINE I == {i \in DOMAIN allocations : /\ allocations[i].order = o
                                              /\ allocations[i].day = d}
  <2>1. {i \in DOMAIN allocations' : /\ allocations'[i].order = o
                                     /\ allocations'[i].day = d}
            = IF o = order /\ d = day THEN I \cup {n} ELSE I
        BY <1>3, <1>5
  <2>2. OrderOn(allocations, o, d)'
            = Wafers(allocations', IF o = order /\ d = day THEN I \cup {n} ELSE I)
        BY <2>1 DEF OrderOn
  <2>3. /\ OrderOn(allocations, o, d) = Wafers(allocations, I)
        /\ OrderOn(allocations, o, d) \in Nat
    <3>1. OrderOn(allocations, o, d) \in Nat
          BY <1>1, ListSums
    <3> QED
        BY <3>1 DEF OrderOn
  <2>4. I \in SUBSET DOMAIN allocations
        OBVIOUS
  <2> HIDE DEF I
  <2>5. CASE o = order /\ d = day
    <3>1. OrderOn(allocations, o, d)' = q + Wafers(allocations, I)
          BY <1>6, <2>2, <2>4, <2>5
    <3> QED
        BY <2>3, <2>5, <3>1
  <2>6. CASE ~(o = order /\ d = day)
    <3>1. OrderOn(allocations, o, d)' = Wafers(allocations, I)
          BY <1>6, <2>2, <2>4, <2>6
    <3> QED
        BY <2>3, <2>6, <3>1
  <2> QED
      BY <2>5, <2>6
<1> QED
    BY <1>8, <1>9, <1>10

\* planOrder takes what is left of the order or of the day, skips days that are
\* full, and stops when nothing is left or the days end.
LEMMA GreedyStep ==
    ASSUME TypeOK, TypeOK', LedgerFirst, RankOrder, Frontier, LedgerSums, QuantitySums,
           Greedy, [Next]_vars
    PROVE  Greedy'
<1>0. /\ \A o \in DOMAIN request.orders : request.orders[o].quantity \in Nat \ {0}
      /\ \A o : Placed(o) \in Nat
      /\ allocations \in Seq(Piece) /\ day \in Nat /\ remaining \in Nat
      BY RequestFields, PieceQuantities DEF TypeOK, IsRequest, OrderInput
<1>1. ASSUME UNCHANGED <<request, allocations>>,
             NEW o \in DOMAIN request.orders, NEW d \in Nat, TakesAllRoom(allocations, o, d)
      PROVE  TakesAllRoom(allocations, o, d)'
      BY <1>1, SameRoom
<1>2. ASSUME UNCHANGED <<request, allocations>>
      PROVE  \A i \in DOMAIN allocations' :
                allocations'[i].locked = request'.orders[allocations'[i].order].high
      BY <1>2 DEF Greedy
<1>3. CASE ReadExisting \/ NoOrderLeft \/ EstimateDay \/ RecordLateConflict \/ UNCHANGED vars
  <2>1. /\ UNCHANGED <<request, todo, allocations, order, day>>
        /\ pc' = "days" <=> pc = "days"
        BY <1>3 DEF ReadExisting, NoOrderLeft, EstimateDay, RecordLateConflict, vars,
                    loopVars, resultVars
  <2>2. \A o, d : OrderOn(allocations, o, d)' = OrderOn(allocations, o, d)
        BY <2>1, SameRoom
  <2> QED
      BY <1>1, <1>2, <2>1, <2>2 DEF Greedy, TypeOK
<1>4. CASE NextOrder
  <2>1. PICK o \in todo : order' = o /\ todo' = todo \ {o}
        BY <1>4 DEF NextOrder
  <2>2. UNCHANGED <<request, allocations>> /\ pc # "days" /\ pc' = "days" /\ day' = Start
        BY <1>4 DEF NextOrder, resultVars
  <2>3. ASSUME NEW p \in DOMAIN request.orders \ todo, NEW d \in Nat
        PROVE  TakesAllRoom(allocations, p, d)'
        BY <1>1, <2>2, <2>3 DEF Greedy
  <2>4. ASSUME NEW d \in Nat
        PROVE  \/ d >= day' /\ OrderOn(allocations, o, d)' = 0
               \/ TakesAllRoom(allocations, o, d)'
    <3>1. {i \in DOMAIN allocations : allocations[i].order = o /\ allocations[i].day = d} = {}
          BY DEF RankOrder, TakenInRank
    <3>2. OrderOn(allocations, o, d) = 0
          BY <3>1, WafersEmpty DEF OrderOn
    <3>3. d < Start => TakesAllRoom(allocations, o, d)
          BY <3>2, StartType DEF TakesAllRoom, UsableDay
    <3>4. o \in DOMAIN request.orders
          BY DEF TypeOK
    <3> QED
        BY <1>1, <2>2, <3>2, <3>3, <3>4, StartType, SameRoom
  <2> QED
      BY <1>2, <2>1, <2>2, <2>3, <2>4 DEF Greedy
<1>5. ASSUME pc = "days", NEW d \in Nat, d >= day, OrderOn(allocations, order, d) = 0,
             \/ ~UsableDay(order, d)
             \/ d = day /\ Available(day) <= 0
             \/ remaining = 0
      PROVE  TakesAllRoom(allocations, order, d)
  <2>1. Planning /\ order \in DOMAIN request.orders
        BY <1>5 DEF Planning, TypeOK
  <2>2. /\ OrderBefore(allocations, order, d) = Placed(order)
        /\ Room(allocations, order, d) = Later(Available(d), 0)
        /\ Placed(order) + remaining = request.orders[order].quantity
        BY <1>5, <2>1, AllBefore, RoomIsAvailable DEF QuantitySums
  <2>3. request.orders[order].quantity - Placed(order) = remaining
        BY <1>0, <2>1, <2>2
  <2>4. Available(d) \in Int
        BY AvailableType
  <2>5. CASE UsableDay(order, d)
    <3>1. Smaller(remaining, Later(Available(d), 0)) = 0
          BY <1>0, <1>5, <2>4, <2>5 DEF Smaller, Later
    <3> QED
        BY <1>5, <2>2, <2>3, <2>5, <3>1 DEF TakesAllRoom
  <2>6. CASE ~UsableDay(order, d)
        BY <1>5, <2>6 DEF TakesAllRoom
  <2> QED
      BY <2>5, <2>6
<1>6. CASE SkipFullDay \/ GiveUp \/ OrderPlaced
  <2>1. /\ UNCHANGED <<request, todo, allocations, order>> /\ pc = "days"
        /\ order \in DOMAIN request.orders
        BY <1>6 DEF SkipFullDay, GiveUp, OrderPlaced, resultVars, TypeOK
  <2>2. ASSUME NEW d \in Nat, d >= day, OrderOn(allocations, order, d) = 0,
               ~(pc' = "days" /\ d >= day')
        PROVE  TakesAllRoom(allocations, order, d)
    <3>1. CASE SkipFullDay
      <4>1. d = day /\ Available(day) <= 0
            BY <1>0, <2>1, <2>2, <3>1 DEF SkipFullDay
      <4> QED
          BY <1>5, <2>1, <2>2, <4>1
    <3>2. CASE GiveUp
      <4>1. ~UsableDay(order, d)
        <5>1. request.orders[order].due \in Nat
              BY <2>1, RequestFields DEF TypeOK, IsRequest, OrderInput
        <5> QED
            BY <1>0, <2>2, <3>2, <5>1 DEF GiveUp, TooLate, UsableDay
      <4> QED
          BY <1>5, <2>1, <2>2, <4>1
    <3>3. CASE OrderPlaced
          BY <1>5, <2>1, <2>2, <3>3 DEF OrderPlaced
    <3> QED
        BY <1>6, <3>1, <3>2, <3>3
  <2>3. \A o, d : OrderOn(allocations, o, d)' = OrderOn(allocations, o, d)
        BY <2>1, SameRoom
  <2>4. ASSUME NEW o \in DOMAIN request.orders \ todo, NEW d \in Nat
        PROVE  \/ pc' = "days" /\ o = order /\ d >= day' /\ OrderOn(allocations, o, d) = 0
               \/ TakesAllRoom(allocations, o, d)
        BY <2>2, <2>4 DEF Greedy
  <2> QED
      BY <1>1, <1>2, <2>1, <2>3, <2>4 DEF Greedy
<1>7. CASE PlaceQuantity
  <2>1. PICK q \in Nat \ {0} :
              /\ q <= remaining /\ q <= Available(day)
              /\ q = remaining \/ q = Available(day)
              /\ allocations' = Append(allocations,
                    [order |-> order, day |-> day, quantity |-> q,
                     locked |-> request.orders[order].high])
        BY <1>7, Placing
  <2>2. /\ UNCHANGED <<request, todo, order, pc, day>> /\ pc = "days" /\ Planning
        /\ order \in DOMAIN request.orders \ todo
        /\ remaining > 0 /\ ~TooLate /\ Available(day) > 0
        BY <1>7 DEF PlaceQuantity, Planning, TypeOK, RankOrder, TakenInRank
  <2>3. ASSUME NEW o \in DOMAIN request.orders \ todo, NEW d \in Nat
        PROVE  /\ AheadOn(allocations, o, d)' = AheadOn(allocations, o, d)
               /\ o # order \/ d <= day =>
                    OrderBefore(allocations, o, d)' = OrderBefore(allocations, o, d)
               /\ OrderOn(allocations, o, d)' = OrderOn(allocations, o, d)
                    + IF o = order /\ d = day THEN q ELSE 0
        BY <1>7, <2>1, RoomKept
  <2>4. ASSUME NEW o \in DOMAIN request.orders \ todo, NEW d \in Nat
        PROVE  /\ Room(allocations, o, d)' = Room(allocations, o, d)
               /\ UsableDay(o, d)' = UsableDay(o, d)
        BY <2>2, <2>3 DEF Room, UsableDay, Start, Backlog, OldOn
  <2>5. \A o, d : OrderOn(allocations, o, d) \in Nat
        BY <1>0, ListSums
  <2>6. ASSUME NEW o \in DOMAIN request.orders \ todo, NEW d \in Nat,
               o # order \/ d < day, TakesAllRoom(allocations, o, d)
        PROVE  TakesAllRoom(allocations, o, d)'
    <3>1. /\ OrderOn(allocations, o, d)' = OrderOn(allocations, o, d)
          /\ OrderBefore(allocations, o, d)' = OrderBefore(allocations, o, d)
          BY <1>0, <2>3, <2>5, <2>6
    <3> QED
        BY <2>2, <2>4, <2>6, <3>1 DEF TakesAllRoom
  <2>7. \A d \in Nat : d >= day => OrderOn(allocations, order, d) = 0
    <3>1. SUFFICES ASSUME NEW d \in Nat, d >= day
                   PROVE  OrderOn(allocations, order, d) = 0
          OBVIOUS
    <3>2. ASSUME NEW i \in DOMAIN allocations, allocations[i].order = order
          PROVE  allocations[i].day # d
      <4>1. allocations[i].day \in Nat /\ allocations[i].day <= day
            BY <2>2, <3>2, PieceFields DEF Frontier
      <4>2. allocations[i].day # day
            BY <1>0, <2>2, <3>2, AvailableType DEF Frontier
      <4> QED
          BY <1>0, <3>1, <4>1, <4>2
    <3>3. {i \in DOMAIN allocations : allocations[i].order = order
                                      /\ allocations[i].day = d} = {}
          BY <3>2
    <3> QED
        BY <3>3, WafersEmpty DEF OrderOn
  <2>8. TakesAllRoom(allocations, order, day)'
    <3>1. /\ OrderBefore(allocations, order, day) = Placed(order)
          /\ Room(allocations, order, day) = Later(Available(day), 0)
          /\ Placed(order) + remaining = request.orders[order].quantity
          BY <1>0, <2>2, <2>7, AllBefore, RoomIsAvailable DEF QuantitySums
    <3>2. request.orders[order].quantity - Placed(order) = remaining
          BY <1>0, <2>2, <3>1
    <3>3. UsableDay(order, day)
      <4>1. request.orders[order].due \in Nat
            BY <2>2, RequestFields DEF TypeOK, IsRequest, OrderInput
      <4> QED
          BY <1>0, <2>2, <4>1 DEF TooLate, UsableDay, Frontier
    <3>4. Smaller(remaining, Later(Available(day), 0)) = q
          BY <1>0, <2>1, <2>2, AvailableType DEF Smaller, Later
    <3>5. OrderOn(allocations', order, day) = q
      <4>1. OrderOn(allocations, order, day)' = OrderOn(allocations, order, day) + q
            BY <1>0, <2>2, <2>3
      <4> QED
          BY <1>0, <2>2, <2>7, <4>1
    <3>6. OrderBefore(allocations, order, day)' = Placed(order)
          BY <1>0, <2>2, <2>3, <3>1
    <3>7. /\ Room(allocations, order, day)' = Later(Available(day), 0)
          /\ UsableDay(order, day)'
          BY <1>0, <2>2, <2>4, <3>1, <3>3
    <3> QED
        BY <2>2, <3>2, <3>4, <3>5, <3>6, <3>7 DEF TakesAllRoom
  <2>9. ASSUME NEW o \in DOMAIN request.orders \ todo, NEW d \in Nat
        PROVE  \/ o = order /\ d >= day /\ OrderOn(allocations, o, d)' = 0
               \/ TakesAllRoom(allocations, o, d)'
    <3>1. CASE o = order /\ d = day
          BY <2>2, <2>8, <3>1
    <3>2. CASE o = order /\ d > day
          BY <1>0, <2>3, <2>7, <3>2
    <3>3. CASE o # order \/ d < day
          BY <1>0, <2>6, <3>3 DEF Greedy
    <3> QED
        BY <1>0, <3>1, <3>2, <3>3
  <2>10. \A i \in DOMAIN allocations' :
            allocations'[i].locked = request.orders[allocations'[i].order].high
    <3> DEFINE x == [order |-> order, day |-> day, quantity |-> q,
                     locked |-> request.orders[order].high]
    <3>1. x.order = order /\ x.locked = request.orders[order].high
          OBVIOUS
    <3>2. allocations' = Append(allocations, x)
          BY <2>1
    <3>3. allocations \in Seq(Piece \cup {x}) /\ x \in Piece \cup {x}
          BY <1>0
    <3> HIDE DEF x
    <3>4. \A i \in DOMAIN allocations' :
             \/ i \in DOMAIN allocations /\ allocations'[i] = allocations[i]
             \/ allocations'[i] = x
          BY <3>2, <3>3, Appended
    <3> QED
        BY <3>1, <3>4 DEF Greedy
  <2> QED
      BY <2>2, <2>9, <2>10 DEF Greedy
<1> QED
    BY <1>3, <1>4, <1>6, <1>7 DEF Next, PlanOrders, PlanOrder, PlanLate

(***************************************************************************)
(* Due dates, and one piece a day                                          *)
(***************************************************************************)
\* Pieces and conflicts are of orders of the request.
LEMMA LateOrders ==
    ASSUME TypeOK, LedgerFirst, RankOrder
    PROVE  /\ \A i \in DOMAIN allocations :
                 allocations[i].order \in DOMAIN request.orders
           /\ \A c \in DOMAIN conflicts :
                 /\ conflicts[c].order \in DOMAIN request.orders
                 /\ request.orders[conflicts[c].order].due \in Nat
BY RequestFields DEF TypeOK, IsRequest, RankOrder, TakenInRank, OrderInput

\* Conflicts are added by recordManualForceConflict and
\* recordLateCapacityConflict only.
LEMMA ConflictSteps ==
    ASSUME [Next]_vars
    PROVE  ReadExisting \/ PlaceQuantity \/ RecordLateConflict \/ conflicts' = conflicts
BY DEF Next, PlanOrders, PlanOrder, PlanLate, NextOrder, NoOrderLeft, SkipFullDay,
       OrderPlaced, GiveUp, EstimateDay, vars, resultVars

\* planOrder gives up at the due date, when all days up to it are full.
LEMMA DueDatesStep ==
    ASSUME TypeOK, TypeOK', LedgerFirst, RankOrder, Frontier, DueDates, [Next]_vars
    PROVE  DueDates'
<1>1. CASE ReadExisting
      BY <1>1, Reading DEF DueDates
<1>2. CASE ~ReadExisting
  <2>0. UNCHANGED request /\ Start' = Start
    <3>1. UNCHANGED request
          BY <1>2, StepKinds DEF PlaceQuantity, Quiet
    <3> QED
        BY <3>1 DEF Start
  <2>1. \A d : Available(d) \in Int /\ Available(d)' \in Int
                 /\ Available(d)' <= Available(d)
        BY <1>2, StepKinds, QuietKeeps, AvailableFalls, AvailableType
  <2>2. ASSUME NEW i \in DOMAIN allocations',
               allocations'[i].day > request.orders[allocations'[i].order].due
        PROVE  request.allowLate
    <3>1. CASE i \in DOMAIN allocations /\ allocations'[i] = allocations[i]
          BY <2>2, <3>1 DEF DueDates
    <3>2. CASE PlaceQuantity /\ allocations'[i].order = order
                             /\ allocations'[i].day = day
          BY <2>2, <3>2 DEF PlaceQuantity, TooLate
    <3> QED
        BY <1>2, <3>1, <3>2, StepKinds, NewPiece DEF Quiet
  <2>3. ASSUME NEW c \in DOMAIN conflicts', conflicts'[c].reason = "late",
               NEW d \in Start .. request.orders[conflicts'[c].order].due
        PROVE  Available(d) <= 0
    <3>1. CASE c \in DOMAIN conflicts /\ conflicts'[c] = conflicts[c]
          BY <2>3, <3>1 DEF DueDates
    <3>2. CASE RecordLateConflict /\ conflicts'[c].order = order
      <4>1. order \in DOMAIN request.orders /\ request.orders[order].due \in Nat
            BY <3>2, RequestFields
            DEF RecordLateConflict, TypeOK, IsRequest, OrderInput
      <4>2. pc = "estimate" /\ request.orders[order].due < day /\ day \in Nat
            BY <3>2, <4>1 DEF RecordLateConflict, Frontier, Planning, TooLate, TypeOK
      <4>3. d \in Start .. day - 1
            BY <2>3, <3>2, <4>1, <4>2, StartType
      <4> QED
          BY <4>2, <4>3 DEF Frontier, Planning
    <3> QED
        BY <1>2, <2>3, <3>1, <3>2, ConflictSteps, NewConflict
  <2> QED
      BY <2>0, <2>1, <2>2, <2>3 DEF DueDates
<1> QED
    BY <1>1, <1>2

\* After a piece the order is finished or its day is full.
LEMMA OnePieceStep ==
    ASSUME TypeOK, Frontier, OnePiecePerDay, LedgerFirst, [Next]_vars
    PROVE  OnePiecePerDay'
<1>1. CASE ReadExisting
      BY <1>1, Reading DEF OnePiecePerDay
<1>2. CASE PlaceQuantity
  <2>1. pc = "days" /\ remaining > 0 /\ Available(day) > 0
        BY <1>2 DEF PlaceQuantity
  <2>2. \A i \in DOMAIN allocations :
            ~(allocations[i].order = order /\ allocations[i].day = day)
        BY <2>1, AvailableType DEF Frontier, Planning, TypeOK
  <2> QED
      BY <1>2, <2>2, NewPiece DEF OnePiecePerDay
<1>3. CASE Quiet
      BY <1>3 DEF Quiet, OnePiecePerDay
<1> QED
    BY <1>1, <1>2, <1>3, StepKinds

(***************************************************************************)
(* Overtaking                                                              *)
(***************************************************************************)
\* Nothing that is placed or reported ranks after the order being planned.
LEMMA NoneAfter ==
    ASSUME TypeOK, RankOrder, Planning
    PROVE  /\ ~Before(order, order)
           /\ \A i \in DOMAIN allocations : ~Before(order, allocations[i].order)
           /\ \A c \in DOMAIN conflicts : ~Before(order, conflicts[c].order)
<1>1. order \in DOMAIN request.orders
      BY DEF RankOrder, TakenInRank
<1>2. ~Before(order, order)
      BY <1>1, RankStrict
<1>3. ASSUME NEW o \in DOMAIN request.orders, o = order \/ Before(o, order)
      PROVE  ~Before(order, o)
      BY <1>1, <1>2, <1>3, RankStrict
<1> QED
    BY <1>2, <1>3 DEF RankOrder, TakenInRank

\* An order that is planned later gets no day that an earlier one could use.
LEMMA OvertakingStep ==
    ASSUME TypeOK, TypeOK', LedgerFirst, RankOrder, Frontier, NoCapacityWasted,
           NoOvertaking, DueDates, [Next]_vars
    PROVE  NoOvertaking'
<1>1. CASE ReadExisting
      BY <1>1, Reading DEF NoOvertaking
<1>2. CASE PlaceQuantity
  <2>1. /\ UNCHANGED <<request, order, day>>
        /\ \A o, p : Before(o, p)' = Before(o, p)
        /\ Planning /\ Available(day) > 0
        BY <1>2 DEF PlaceQuantity, Before, Planning
  <2>2. ASSUME NEW i \in DOMAIN allocations', NEW j \in DOMAIN allocations',
               Before(allocations'[j].order, allocations'[i].order)
        PROVE  allocations'[j].day <= allocations'[i].day
    <3>1. CASE j \in DOMAIN allocations /\ allocations'[j] = allocations[j]
      <4>1. CASE i \in DOMAIN allocations /\ allocations'[i] = allocations[i]
            BY <2>2, <3>1, <4>1 DEF NoOvertaking
      <4>2. CASE allocations'[i].day = day
            BY <2>1, <3>1, <4>2, FreeDayIsLater
      <4> QED
          BY <1>2, <4>1, <4>2, NewPiece
    <3>2. CASE allocations'[j].order = order
          BY <1>2, <2>1, <2>2, <3>2, NoneAfter, NewPiece
    <3> QED
        BY <1>2, <3>1, <3>2, NewPiece
  <2>3. ASSUME NEW i \in DOMAIN allocations', NEW c \in DOMAIN conflicts',
               conflicts'[c].reason = "late",
               Before(conflicts'[c].order, allocations'[i].order)
        PROVE  request.orders[conflicts'[c].order].due < allocations'[i].day
    <3>1. c \in DOMAIN conflicts /\ conflicts'[c] = conflicts[c]
      <4>1. ~RecordLateConflict
            BY <1>2 DEF PlaceQuantity, RecordLateConflict
      <4> QED
          BY <1>2, <2>3, <4>1, NewConflict
    <3>2. CASE i \in DOMAIN allocations /\ allocations'[i] = allocations[i]
          BY <2>3, <3>1, <3>2 DEF NoOvertaking
    <3>3. CASE allocations'[i].day = day
      <4> DEFINE due == request.orders[conflicts[c].order].due
      <4>1. due \in Nat /\ day \in Nat /\ Start \in Nat /\ day >= Start
            BY <2>1, <3>1, LateOrders, StartType DEF TypeOK, Frontier
      <4>2. \A d \in Start .. due : Available(d) <= 0
            BY <2>3, <3>1 DEF DueDates
      <4>3. day \notin Start .. due
            BY <2>1, <4>2, AvailableType
      <4> QED
          BY <3>1, <3>3, <4>1, <4>3
    <3> QED
        BY <1>2, <3>2, <3>3, NewPiece
  <2> QED
      BY <2>1, <2>2, <2>3 DEF NoOvertaking
<1>3. CASE RecordLateConflict
  <2>1. /\ UNCHANGED <<request, allocations>>
        /\ \A o, p : Before(o, p)' = Before(o, p)
        /\ Planning
        BY <1>3 DEF RecordLateConflict, Before, Planning
  <2>2. \A c \in DOMAIN conflicts' :
            \/ c \in DOMAIN conflicts /\ conflicts'[c] = conflicts[c]
            \/ conflicts'[c].order = order
        BY <1>3, NewConflict
  <2>3. ASSUME NEW i \in DOMAIN allocations, NEW c \in DOMAIN conflicts',
               conflicts'[c].reason = "late",
               Before(conflicts'[c].order, allocations[i].order)
        PROVE  request.orders[conflicts'[c].order].due < allocations[i].day
        BY <2>1, <2>2, <2>3, NoneAfter DEF NoOvertaking
  <2> QED
      BY <2>1, <2>3 DEF NoOvertaking
<1>4. CASE Quiet /\ conflicts' = conflicts
      BY <1>4, QuietKeeps DEF NoOvertaking
<1> QED
    BY <1>1, <1>2, <1>3, <1>4, StepKinds, ConflictSteps

(***************************************************************************)
(* Manual force                                                            *)
(***************************************************************************)
\* Reading the next existing allocation adds it to those named on its day and
\* forgets no other.
LEMMA NamedGrows ==
    ASSUME TypeOK, ReadExisting
    PROVE  /\ \A d : NamedOn(d) \subseteq NamedOn(d)'
           /\ Existing.line = request.line =>
                 \A d : d = Existing.day => Existing.order \in NamedOn(d)'
<1>1. Existing \in ExistingAllocation
      BY ExistingFields DEF ReadExisting
<1> DEFINE d == Existing.day
           o == Existing.order
<1>2. d \in Nat /\ o \in Nat
      BY <1>1 DEF ExistingAllocation
<1>3. IsRoster(lowByDate) /\ IsRoster(lockedByDate)
      BY DEF TypeOK
<1>4. ASSUME NEW map, IsRoster(map)
      PROVE  /\ o \in OrdersOn(AddOrder(map, d, o), d)
             /\ \A x : OrdersOn(map, x) \subseteq OrdersOn(AddOrder(map, d, o), x)
      BY <1>2, <1>4, AddOrderType
<1> HIDE DEF d, o
<1>5. CASE Existing.line # request.line
      BY <1>5 DEF ReadExisting, SkipOtherLine, NoteForReview, TakeCapacity, NamedOn
<1>6. CASE lowByDate' = AddOrder(lowByDate, d, o) /\ lockedByDate' = lockedByDate
  <2>1. \A x : NamedOn(x)' = OrdersOn(AddOrder(lowByDate, d, o), x)
                                \cup OrdersOn(lockedByDate, x)
        BY <1>6 DEF NamedOn
  <2>2. (\A x : NamedOn(x) \subseteq NamedOn(x)') /\ \A x : x = d => o \in NamedOn(x)'
        BY <1>3, <1>4, <2>1 DEF NamedOn
  <2> QED
      BY <2>2 DEF d, o
<1>7. CASE lockedByDate' = AddOrder(lockedByDate, d, o) /\ lowByDate' = lowByDate
  <2>1. \A x : NamedOn(x)' = OrdersOn(lowByDate, x)
                                \cup OrdersOn(AddOrder(lockedByDate, d, o), x)
        BY <1>7 DEF NamedOn
  <2>2. (\A x : NamedOn(x) \subseteq NamedOn(x)') /\ \A x : x = d => o \in NamedOn(x)'
        BY <1>3, <1>4, <2>1 DEF NamedOn
  <2> QED
      BY <2>2 DEF d, o
<1>8. \/ Existing.line # request.line
      \/ lowByDate' = AddOrder(lowByDate, d, o) /\ lockedByDate' = lockedByDate
      \/ lockedByDate' = AddOrder(lockedByDate, d, o) /\ lowByDate' = lowByDate
      BY DEF ReadExisting, SkipOtherLine, NoteForReview, TakeCapacity, d, o
<1> QED
    BY <1>5, <1>6, <1>7, <1>8

\* What a conflict names is not changed by later steps.
LEMMA ReviewsStep ==
    ASSUME TypeOK, TypeOK', LedgerFirst, Reviews, [Next]_vars
    PROVE  Reviews'
<1>1. CASE ReadExisting
  <2>1. request' = request /\ unread' = unread + 1 /\ unread \in Nat
        BY <1>1 DEF ReadExisting, TypeOK
  <2>2. DOMAIN request.existing \subseteq Nat
        BY RequestFields DEF TypeOK, IsRequest
  <2>3. ASSUME NEW k \in DOMAIN request.existing, request.manualForce,
               k < unread + 1, request.existing[k].line = request.line
        PROVE  \A d : d = request.existing[k].day =>
                          request.existing[k].order \in NamedOn(d)'
    <3>1. CASE k = unread
          BY <1>1, <2>3, <3>1, NamedGrows DEF Existing
    <3>2. CASE k < unread
          BY <1>1, <2>3, <3>2, NamedGrows DEF Reviews
    <3> QED
        BY <2>1, <2>2, <2>3, <3>1, <3>2
  <2> QED
      BY <1>1, <2>1, <2>3, Reading DEF Reviews
<1>2. CASE ~ReadExisting
  <2>1. /\ UNCHANGED <<request, unread, lowByDate, lockedByDate>>
        /\ \A d : NamedOn(d)' = NamedOn(d)
        /\ \A c, o, d : Names(c, o, d)' = Names(c, o, d)
    <3>1. UNCHANGED <<request, unread, lowByDate, lockedByDate>>
          BY <1>2, StepKinds DEF PlaceQuantity, Quiet, ledgerVars
    <3> QED
        BY <3>1 DEF NamedOn, Names
  <2>2. \A c \in DOMAIN conflicts :
            c \in DOMAIN conflicts' /\ conflicts'[c] = conflicts[c]
        BY <1>2, ConflictSteps, NewConflict
  <2>3. CASE Quiet
        BY <2>1, <2>2, <2>3 DEF Quiet, Reviews, ledgerVars
  <2>4. CASE PlaceQuantity /\ NeedsReview
    <3>1. /\ conflicts' = Append(conflicts, ReviewConflict)
          /\ reported' = reported \cup {<<order, day>>}
          BY <2>4 DEF PlaceQuantity
    <3>2. \E c \in DOMAIN conflicts' : Names(conflicts'[c], order, day)
      <4>1. Names(ReviewConflict, order, day)
            BY DEF Names, ReviewConflict, NamedOn, Affected
      <4>2. conflicts \in Seq(Conflict \cup {ReviewConflict})
            BY DEF TypeOK
      <4> QED
          BY <3>1, <4>1, <4>2, Appended
    <3>3. \A r \in reported' :
             \E c \in DOMAIN conflicts' : Names(conflicts'[c], r[1], r[2])
          BY <2>2, <3>1, <3>2 DEF Reviews
    <3>4. ASSUME NEW i \in DOMAIN allocations', request.manualForce,
                 NamedOn(allocations'[i].day) # {}
          PROVE  \E c \in DOMAIN conflicts' :
                    Names(conflicts'[c], allocations'[i].order, allocations'[i].day)
          BY <2>2, <2>4, <3>2, <3>4, NewPiece DEF Reviews
    <3> QED
        BY <2>1, <2>2, <3>3, <3>4 DEF Reviews
  <2>5. CASE PlaceQuantity /\ ~NeedsReview
    <3>1. UNCHANGED <<conflicts, reported>>
          BY <2>5 DEF PlaceQuantity
    <3>2. ASSUME request.manualForce, NamedOn(day) # {}
          PROVE  \E c \in DOMAIN conflicts : Names(conflicts[c], order, day)
      <4>1. <<order, day>> \in reported
            BY <2>5, <3>2 DEF NeedsReview, Affected, NamedOn
      <4> QED
          BY <4>1 DEF Reviews
    <3>3. ASSUME NEW i \in DOMAIN allocations', request.manualForce,
                 NamedOn(allocations'[i].day) # {}
          PROVE  \E c \in DOMAIN conflicts :
                    Names(conflicts[c], allocations'[i].order, allocations'[i].day)
          BY <2>5, <3>2, <3>3, NewPiece DEF Reviews
    <3> QED
        BY <2>1, <3>1, <3>3 DEF Reviews
  <2> QED
      BY <1>2, <2>3, <2>4, <2>5, StepKinds
<1> QED
    BY <1>1, <1>2

\* The next piece of an order is on a later day.
LEMMA DaysRiseStep ==
    ASSUME TypeOK, Frontier, DaysRise, LedgerFirst, [Next]_vars
    PROVE  DaysRise'
<1>1. pc' = "done" => todo' = {}
      BY DEF DaysRise, LedgerFirst, Next, PlanOrders, PlanOrder, PlanLate, NextOrder,
             NoOrderLeft, SkipFullDay, PlaceQuantity, OrderPlaced, GiveUp, EstimateDay,
             RecordLateConflict, ReadExisting, loopVars, vars
<1>2. CASE ReadExisting
      BY <1>1, <1>2, Reading DEF DaysRise
<1>3. CASE PlaceQuantity
  <2>1. pc = "days" /\ remaining > 0 /\ Available(day) > 0
        BY <1>3 DEF PlaceQuantity
  <2>2. ASSUME NEW i \in DOMAIN allocations, allocations[i].order = order
        PROVE  allocations[i].day < day
    <3>1. allocations[i].day <= day /\ allocations[i].day # day
          BY <2>1, <2>2, AvailableType DEF Frontier, Planning, TypeOK
    <3> QED
        BY <3>1, PieceFields DEF TypeOK
  <2>3. DOMAIN allocations = 1 .. Len(allocations) /\ Len(allocations) \in Nat
        BY DEF TypeOK
  <2>4. \A i \in DOMAIN allocations' :
           \/ i \in DOMAIN allocations /\ allocations'[i] = allocations[i]
           \/ /\ i = Len(allocations) + 1
              /\ allocations'[i].order = order
              /\ allocations'[i].day = day
        BY <1>3, NewPiece
  <2>5. ASSUME NEW i \in DOMAIN allocations', NEW j \in DOMAIN allocations',
               allocations'[i].order = allocations'[j].order, i < j
        PROVE  allocations'[i].day < allocations'[j].day
    <3>1. i \in DOMAIN allocations /\ allocations'[i] = allocations[i]
          BY <2>3, <2>4, <2>5
    <3> QED
        BY <2>2, <2>4, <2>5, <3>1 DEF DaysRise
  <2> QED
      BY <1>1, <2>5 DEF DaysRise
<1>4. CASE Quiet
      BY <1>1, <1>4 DEF Quiet, DaysRise
<1> QED
    BY <1>2, <1>3, <1>4, StepKinds

(***************************************************************************)
(* Plans of one request                                                    *)
(***************************************************************************)
\* The pieces of an order.
PiecesFor(list, o) == {list[i] : i \in {k \in DOMAIN list : list[k].order = o}}

\* A list of pieces that plans some orders of the request.
PlansFor(list, O) ==
    /\ list \in Seq(Piece)
    /\ \A i, j \in DOMAIN list :
          list[i].order = list[j].order /\ list[i].day = list[j].day => i = j
    /\ \A i \in DOMAIN list :
          /\ list[i].order \in DOMAIN request.orders
          /\ list[i].locked = request.orders[list[i].order].high
    /\ \A o \in O, d \in Nat : TakesAllRoom(list, o, d)

\* The rank of sortedOrders is transitive.
LEMMA RankTransitive ==
    ASSUME IsRequest(request), NEW o \in DOMAIN request.orders,
           NEW p \in DOMAIN request.orders, NEW r \in DOMAIN request.orders,
           Before(o, p), Before(p, r)
    PROVE  Before(o, r)
<1>1. /\ request.orders[o] \in OrderInput /\ request.orders[p] \in OrderInput
      /\ request.orders[r] \in OrderInput
      /\ o \in Nat /\ p \in Nat /\ r \in Nat
      BY DEF IsRequest
<1> QED
    BY <1>1 DEF Before, OrderInput

\* Some of the orders of a request include one that no other ranks before.
LEMMA FirstInRank ==
    ASSUME IsRequest(request), NEW O \in SUBSET DOMAIN request.orders, O # {}
    PROVE  \E o \in O : \A p \in O : ~Before(p, o)
<1> DEFINE Ahead(o) == {p \in O : Before(p, o)}
           T == {Ahead(o) : o \in O}
<1>1. IsFiniteSet(O)
      BY FS_Subset DEF IsRequest
<1>2. T \subseteq SUBSET O /\ T # {}
      OBVIOUS
<1>3. PICK t \in T : \A u \in SUBSET t : u # t => u \notin T
  <2> HIDE DEF T
  <2> QED
      BY <1>1, <1>2, SmallestSubset
<1>4. PICK o \in O : t = Ahead(o)
      OBVIOUS
<1>5. SUFFICES ASSUME NEW p \in O, Before(p, o)
               PROVE  FALSE
      OBVIOUS
<1>6. Ahead(p) \in SUBSET t
      BY <1>4, <1>5, RankTransitive
<1>7. p \in t
      BY <1>4, <1>5
<1>8. p \notin Ahead(p)
  <2>1. request.orders[p] \in OrderInput /\ p \in Nat
        BY DEF IsRequest
  <2>2. ~Before(p, p)
        BY <2>1 DEF Before, OrderInput
  <2> QED
      BY <2>2
<1> QED
    BY <1>3, <1>6, <1>7, <1>8

\* Two lists that have the same pieces have as many wafers.
LEMMA SameWafers ==
    ASSUME NEW L \in Seq(Piece), NEW M \in Seq(Piece),
           NEW I \in SUBSET DOMAIN L, NEW J \in SUBSET DOMAIN M,
           \A i, k \in I : L[i] = L[k] => i = k,
           \A j, k \in J : M[j] = M[k] => j = k,
           {L[i] : i \in I} = {M[j] : j \in J}
    PROVE  Wafers(L, I) = Wafers(M, J)
<1> DEFINE f == [i \in DOMAIN L |-> L[i].quantity]
           g == [j \in DOMAIN M |-> M[j].quantity]
           h == [i \in I |-> CHOOSE j \in J : M[j] = L[i]]
<1>1. /\ \A i \in I : \E j \in J : M[j] = L[i]
      /\ \A j \in J : \E i \in I : L[i] = M[j]
  <2>1. /\ \A i \in I : L[i] \in {M[j] : j \in J}
        /\ \A j \in J : M[j] \in {L[i] : i \in I}
        OBVIOUS
  <2> QED
      BY <2>1
<1>2. \A i \in I : h[i] \in J /\ M[h[i]] = L[i]
      BY <1>1
<1> HIDE DEF h
<1>3. \A i \in I : h[i] \in J /\ f[i] \in Nat /\ g[h[i]] = f[i]
  <2>1. \A i \in I : L[i].quantity \in Nat
        BY ListSums
  <2> QED
      BY <1>2, <2>1
<1>4. \A i, k \in I : h[i] = h[k] => i = k
      BY <1>2
<1>5. \A j \in J : \E i \in I : h[i] = j
      BY <1>1, <1>2
<1>6. IsFiniteSet(I)
  <2>1. \A i \in DOMAIN L : L[i].quantity \in Nat
        BY ListSums
  <2> QED
      BY <2>1, WafersOfType
<1>7. SumFunctionOnSet(f, I) = SumFunctionOnSet(g, J)
  <2> HIDE DEF f, g
  <2>1. Renames(h, f, I, g, J)
        BY <1>3, <1>4, <1>5 DEF Renames
  <2> QED
      BY <1>6, <2>1, SumImage
<1> QED
    BY <1>7 DEF Wafers

\* A day of an order has no piece or one.
LEMMA OneDay ==
    ASSUME NEW O, NEW L, PlansFor(L, O), NEW o, NEW d
    PROVE  \/ /\ OrderOn(L, o, d) = 0
              /\ \A i \in DOMAIN L : ~(L[i].order = o /\ L[i].day = d)
           \/ \E k \in DOMAIN L :
                 /\ L[k].order = o /\ L[k].day = d
                 /\ OrderOn(L, o, d) = L[k].quantity /\ L[k].quantity \in Nat \ {0}
<1> DEFINE I == {i \in DOMAIN L : L[i].order = o /\ L[i].day = d}
<1>1. L \in Seq(Piece) /\ \A i \in DOMAIN L : L[i].quantity \in Nat \ {0}
      BY ListSums DEF PlansFor
<1>2. CASE I = {}
  <2>1. Wafers(L, {}) = 0
        BY WafersEmpty
  <2> QED
      BY <1>2, <2>1 DEF OrderOn
<1>3. CASE I # {}
  <2>1. PICK k \in I : TRUE
        BY <1>3
  <2>2. I = {} \cup {k}
        BY <2>1 DEF PlansFor
  <2>3. Wafers(L, {} \cup {k}) = L[k].quantity + Wafers(L, {})
        BY <1>1, <2>1, WafersAdd
  <2>4. Wafers(L, I) = L[k].quantity
    <3>1. Wafers(L, {}) = 0 /\ L[k].quantity \in Nat
          BY <1>1, <2>1, WafersEmpty
    <3>2. Wafers(L, I) = Wafers(L, {} \cup {k})
          BY <2>2
    <3> QED
        BY <2>3, <3>1, <3>2
  <2> QED
      BY <1>1, <2>1, <2>4 DEF OrderOn
<1> QED
    BY <1>2, <1>3

\* As many wafers on a day are the same piece.
LEMMA SameDay ==
    ASSUME NEW O, NEW L, NEW M, PlansFor(L, O), PlansFor(M, O), NEW o, NEW d,
           OrderOn(L, o, d) = OrderOn(M, o, d),
           NEW i \in DOMAIN L, L[i].order = o, L[i].day = d
    PROVE  \E j \in DOMAIN M : M[j] = L[i]
<1>1. /\ \A k \in DOMAIN L : L[k] \in Piece
      /\ \A k \in DOMAIN M : M[k] \in Piece
      BY DEF PlansFor
<1>2. L[i].quantity = OrderOn(L, o, d) /\ OrderOn(L, o, d) # 0
  <2>1. PICK k \in DOMAIN L :
              /\ L[k].order = o /\ L[k].day = d
              /\ OrderOn(L, o, d) = L[k].quantity /\ L[k].quantity \in Nat \ {0}
        BY OneDay
  <2>2. k = i
        BY <2>1 DEF PlansFor
  <2> QED
      BY <2>1, <2>2
<1>3. PICK j \in DOMAIN M : /\ M[j].order = o /\ M[j].day = d
                            /\ M[j].quantity = OrderOn(M, o, d)
      BY <1>2, OneDay
<1>4. M[j].locked = L[i].locked
      BY <1>3 DEF PlansFor
<1> QED
    BY <1>1, <1>2, <1>3, <1>4 DEF Piece

\* A plan of some orders that include whoever ranks before them is determined by
\* the request: each order takes all its room, and its room depends on those before.
LEMMA PlansAgree ==
    ASSUME IsRequest(request), NEW O \in SUBSET DOMAIN request.orders,
           \A o \in O, p \in DOMAIN request.orders : Before(p, o) => p \in O,
           NEW L, NEW M, PlansFor(L, O), PlansFor(M, O), NEW o \in O
    PROVE  PiecesFor(L, o) = PiecesFor(M, o)
<1> DEFINE Differ == {p \in O : PiecesFor(L, p) # PiecesFor(M, p)}
<1> SUFFICES ASSUME Differ # {} PROVE FALSE
    OBVIOUS
<1>1. PICK p \in Differ : \A r \in Differ : ~Before(r, p)
  <2>1. Differ \in SUBSET DOMAIN request.orders
        OBVIOUS
  <2> HIDE DEF Differ
  <2> QED
      BY <2>1, FirstInRank
<1>2. L \in Seq(Piece) /\ M \in Seq(Piece) /\ p \in O
      BY DEF PlansFor
<1>3. /\ \A i, k \in DOMAIN L : L[i] = L[k] => i = k
      /\ \A j, k \in DOMAIN M : M[j] = M[k] => j = k
      BY DEF PlansFor
<1>4. ASSUME NEW d \in Nat
      PROVE  AheadOn(L, p, d) = AheadOn(M, p, d)
  <2> DEFINE I == {i \in DOMAIN L : Before(L[i].order, p) /\ L[i].day = d}
             J == {j \in DOMAIN M : Before(M[j].order, p) /\ M[j].day = d}
  <2>1. \A r \in DOMAIN request.orders : Before(r, p) => PiecesFor(L, r) = PiecesFor(M, r)
        BY <1>1
  <2>2. ASSUME NEW i \in I
        PROVE  \E j \in J : M[j] = L[i]
    <3>1. L[i] \in PiecesFor(L, L[i].order) /\ L[i].order \in DOMAIN request.orders
          BY DEF PiecesFor, PlansFor
    <3>2. L[i] \in PiecesFor(M, L[i].order)
          BY <2>1, <3>1
    <3> QED
        BY <3>2 DEF PiecesFor
  <2>3. ASSUME NEW j \in J
        PROVE  \E i \in I : L[i] = M[j]
    <3>1. M[j] \in PiecesFor(M, M[j].order) /\ M[j].order \in DOMAIN request.orders
          BY DEF PiecesFor, PlansFor
    <3>2. M[j] \in PiecesFor(L, M[j].order)
          BY <2>1, <3>1
    <3> QED
        BY <3>2 DEF PiecesFor
  <2>4. {L[i] : i \in I} = {M[j] : j \in J}
        BY <2>2, <2>3
  <2>5. I \in SUBSET DOMAIN L /\ J \in SUBSET DOMAIN M
        OBVIOUS
  <2>6. Wafers(L, I) = Wafers(M, J)
    <3> HIDE DEF I, J
    <3> QED
        BY <1>2, <1>3, <2>4, <2>5, SameWafers
  <2> QED
      BY <2>6 DEF AheadOn
<1>5. ASSUME NEW d \in Nat, \A e \in Nat : e < d => OrderOn(L, p, e) = OrderOn(M, p, e)
      PROVE  OrderOn(L, p, d) = OrderOn(M, p, d)
  <2> DEFINE I == {i \in DOMAIN L : L[i].order = p /\ L[i].day < d}
             J == {j \in DOMAIN M : M[j].order = p /\ M[j].day < d}
  <2>1. /\ \A i \in DOMAIN L : L[i].day \in Nat
        /\ \A j \in DOMAIN M : M[j].day \in Nat
    <3>1. /\ \A i \in DOMAIN L : L[i] \in Piece
          /\ \A j \in DOMAIN M : M[j] \in Piece
          BY <1>2
    <3> QED
        BY <3>1 DEF Piece
  <2>2. ASSUME NEW i \in I
        PROVE  \E j \in J : M[j] = L[i]
    <3>1. PICK j \in DOMAIN M : M[j] = L[i]
          BY <1>5, <2>1, SameDay
    <3> QED
        BY <3>1
  <2>3. ASSUME NEW j \in J
        PROVE  \E i \in I : L[i] = M[j]
    <3>1. PICK i \in DOMAIN L : L[i] = M[j]
          BY <1>5, <2>1, SameDay
    <3> QED
        BY <3>1
  <2>4. {L[i] : i \in I} = {M[j] : j \in J}
        BY <2>2, <2>3
  <2>5. I \in SUBSET DOMAIN L /\ J \in SUBSET DOMAIN M
        OBVIOUS
  <2>6. Wafers(L, I) = Wafers(M, J)
    <3> HIDE DEF I, J
    <3> QED
        BY <1>2, <1>3, <2>4, <2>5, SameWafers
  <2>7. OrderBefore(L, p, d) = OrderBefore(M, p, d)
        BY <2>6 DEF OrderBefore
  <2>8. Room(L, p, d) = Room(M, p, d)
        BY <1>4 DEF Room
  <2>9. TakesAllRoom(L, p, d) /\ TakesAllRoom(M, p, d)
        BY <1>2 DEF PlansFor
  <2> QED
      BY <2>7, <2>8, <2>9 DEF TakesAllRoom
<1>6. \A d \in Nat : OrderOn(L, p, d) = OrderOn(M, p, d)
  <2> DEFINE T == {d \in Nat : OrderOn(L, p, d) # OrderOn(M, p, d)}
  <2> SUFFICES ASSUME T # {} PROVE FALSE
      OBVIOUS
  <2>1. T \subseteq Nat
        OBVIOUS
  <2>2. PICK d \in T : \A e \in T : d <= e
    <3> HIDE DEF T
    <3> QED
        BY <2>1, LeastNumber
  <2>3. \A e \in Nat : e < d => OrderOn(L, p, e) = OrderOn(M, p, e)
        BY <2>2
  <2> QED
      BY <1>5, <2>3
<1>7. PiecesFor(L, p) = PiecesFor(M, p)
  <2>1. /\ \A i \in DOMAIN L : L[i].day \in Nat
        /\ \A j \in DOMAIN M : M[j].day \in Nat
    <3>1. /\ \A i \in DOMAIN L : L[i] \in Piece
          /\ \A j \in DOMAIN M : M[j] \in Piece
          BY <1>2
    <3> QED
        BY <3>1 DEF Piece
  <2>2. ASSUME NEW i \in DOMAIN L, L[i].order = p
        PROVE  \E j \in DOMAIN M : M[j] = L[i]
        BY <1>6, <2>1, <2>2, SameDay
  <2>3. ASSUME NEW j \in DOMAIN M, M[j].order = p
        PROVE  \E i \in DOMAIN L : L[i] = M[j]
        BY <1>6, <2>1, <2>3, SameDay
  <2> QED
      BY <2>2, <2>3 DEF PiecesFor
<1> QED
    BY <1>1, <1>7

(***************************************************************************)
(* The loops compute the plan                                              *)
(***************************************************************************)
\* The rosters name the orders of the allocations read so far, those that may be
\* moved apart from the others.
ReadOrders(d, movable) ==
    {request.existing[k].order : k \in
        {i \in ExistingOn(request, d) :
            i < unread /\ Movable(request, request.existing[i]) = movable}}

Rosters ==
    \A d \in Nat : /\ OrdersOn(lowByDate, d) = ReadOrders(d, TRUE)
                   /\ OrdersOn(lockedByDate, d) = ReadOrders(d, FALSE)

\* Nothing is reported of a day before the order has a piece on it.
ReportsHavePieces ==
    \A x \in reported : \E i \in DOMAIN allocations :
        allocations[i].order = x[1] /\ allocations[i].day = x[2]

\* The orders that are planned.
Taken == DOMAIN request.orders \ todo

\* Between two orders the result is the plan of those taken; while one is planned,
\* it is that plan and what the order has got on the days before this one, or on
\* this one too when no more of the order goes there.
FollowsPlan ==
    /\ ~LedgerComplete => Taken = {}
    /\ ~Planning => Result = PlanAfter(request, Taken)
    /\ Planning => \E last \in {day - 1, day} :
          /\ PlannedTo(request, PlanAfter(request, Taken \ {order}), order, last,
                       allocations, conflicts, remaining)
          /\ last = day => remaining = 0 \/ Available(day) <= 0

PlanInv == IInv /\ Rosters /\ ReportsHavePieces /\ FollowsPlan

\* A request to the loops is one to the function.
LEMMA SameRequest ==
    ASSUME IsRequest(request)
    PROVE  /\ IsPlanRequest(request) /\ Start = StartDay(request)
           /\ \A o, p : Before(o, p) <=> RanksBefore(request, o, p)
<1>1. /\ request.existing \in Seq(ExistingAllocation)
      /\ \A k \in DOMAIN request.existing : request.existing[k] \in ExistingAllocation
      BY DEF IsRequest
<1>2. /\ IsFiniteSet(DOMAIN request.existing)
      /\ \A k \in DOMAIN request.existing :
            request.existing[k].day \in Int /\ request.existing[k].quantity \in Nat
  <2>1. \A k \in DOMAIN request.existing :
            request.existing[k].day \in Int /\ request.existing[k].quantity \in Nat
        BY <1>1 DEF ExistingAllocation
  <2>2. DOMAIN request.existing = 1 .. Len(request.existing)
        /\ Len(request.existing) \in Nat
        BY <1>1
  <2> QED
      BY <2>1, <2>2, FS_Interval
<1>3. \A o \in DOMAIN request.orders :
          /\ request.orders[o].quantity \in Nat \ {0} /\ request.orders[o].high \in BOOLEAN
          /\ request.orders[o].due \in Int /\ request.orders[o].createdAt \in Int
      BY DEF IsRequest, OrderInput
<1>4. /\ request.capacity \in Nat \ {0} /\ request.start \in Int /\ request.currentDate \in Int
      /\ request.manualForce \in BOOLEAN /\ request.allowLate \in BOOLEAN
      /\ DOMAIN request.orders \in SUBSET Nat /\ IsFiniteSet(DOMAIN request.orders)
      BY DEF IsRequest
<1>5. IsPlanRequest(request)
      BY <1>2, <1>3, <1>4 DEF IsPlanRequest
<1>6. Start = StartDay(request)
      BY DEF Start, StartDay, Later, Greater
<1>7. \A o, p : Before(o, p) <=> RanksBefore(request, o, p)
      BY DEF Before, RanksBefore
<1> QED
    BY <1>5, <1>6, <1>7

\* Pieces and conflicts of a plan in progress have the types of both.
LEMMA Progress ==
    ASSUME PlanInv, Planning
    PROVE  \E plan \in Plans(request) :
              /\ plan = PlanAfter(request, Taken \ {order})
              /\ order \in DOMAIN request.orders /\ order \in Taken
              /\ IsPlanRequest(request) /\ LedgerComplete
              /\ PlanAfter(request, Taken) = PlanNext(request, order, plan)
              /\ \E last \in {day - 1, day} :
                    /\ PlannedTo(request, plan, order, last, allocations, conflicts, remaining)
                    /\ last = day => remaining = 0 \/ Available(day) <= 0
<1>1. IsRequest(request) /\ order \in DOMAIN request.orders
      BY RequestFields DEF PlanInv, IInv, TypeOK, Planning
<1>2. IsPlanRequest(request) /\ \A o, p : Before(o, p) <=> RanksBefore(request, o, p)
      BY <1>1, SameRequest
<1>3. LedgerComplete
      BY DEF PlanInv, IInv, LedgerFirst, Planning
<1>4. order \in Taken /\ \A p \in Taken \ {order} : Before(p, order)
      BY DEF PlanInv, IInv, RankOrder, TakenInRank, Taken
<1>5. Taken \in SUBSET DOMAIN request.orders
      BY DEF Taken
<1>6. /\ PlanAfter(request, Taken \ {order}) \in Plans(request)
      /\ PlanAfter(request, Taken)
            = PlanNext(request, order, PlanAfter(request, Taken \ {order}))
      BY <1>2, <1>4, <1>5, PlanSteps
<1>7. PICK last \in {day - 1, day} :
          /\ PlannedTo(request, PlanAfter(request, Taken \ {order}), order, last,
                       allocations, conflicts, remaining)
          /\ last = day => remaining = 0 \/ Available(day) <= 0
      BY DEF PlanInv, FollowsPlan
<1> QED
    BY <1>1, <1>2, <1>3, <1>4, <1>6, <1>7

\* What is free next to the plan so far is what the ledger has free.
LEMMA FreeIsAvailable ==
    ASSUME IInv, LedgerComplete, IsPlanRequest(request), NEW plan \in Plans(request),
           NEW o \in DOMAIN request.orders, NEW last, NEW left,
           PlannedTo(request, plan, o, last, allocations, conflicts, left),
           NEW d \in Nat, d > last
    PROVE  FreeOn(request, plan.allocations, d) = Later(Available(d), 0)
<1>1. UsedOn(request, allocations, d) = UsedOn(request, plan.allocations, d)
      BY UsedAhead
<1>2. Load(d) = NewOn(d) + Backlog(d)
      BY LoadIsExact DEF IInv
<1>3. UsedOn(request, allocations, d) = NewOn(d) + Backlog(d)
  <2>1. ExistingOn(request, d)
          = {k \in DOMAIN request.existing :
                request.existing[k].line = request.line /\ request.existing[k].day = d}
        BY DEF ExistingOn, ExistingOfLine
  <2> QED
      BY <2>1 DEF UsedOn, NewOn, Backlog, OldOn
<1>4. Available(d) = request.capacity - UsedOn(request, plan.allocations, d)
      BY <1>1, <1>2, <1>3 DEF Available
<1>5. request.capacity \in Nat /\ UsedOn(request, plan.allocations, d) \in Nat
  <2>1. plan.allocations \in Seq(PlanPiece)
        BY DEF Plans
  <2> QED
      BY <2>1, UsedType DEF IsPlanRequest
<1> QED
    BY <1>4, <1>5 DEF FreeOn, Greater, Later

\* buildCapacityLedger puts each allocation of the line on one of the rosters.
LEMMA RostersStep ==
    ASSUME TypeOK, Rosters, [Next]_vars
    PROVE  Rosters'
<1>1. CASE ReadExisting
  <2> DEFINE e == Existing
             at == Existing.day
             o == Existing.order
  <2>1. e \in ExistingAllocation /\ at \in Nat /\ o \in Nat
    <3>1. e \in ExistingAllocation
          BY <1>1, ExistingFields DEF ReadExisting
    <3> QED
        BY <3>1 DEF ExistingAllocation
  <2>2. /\ unread \in DOMAIN request.existing /\ unread' = unread + 1 /\ request' = request
        /\ unread \in Nat /\ DOMAIN request.existing \subseteq Nat
        /\ e = request.existing[unread]
        BY <1>1, ExistingQuantities DEF ReadExisting, LedgerComplete, TypeOK, Existing
  <2>3. IsRoster(lowByDate) /\ IsRoster(lockedByDate)
        BY DEF TypeOK
  <2>4. ASSUME NEW d \in Nat, NEW movable \in BOOLEAN
        PROVE  ReadOrders(d, movable)'
                  = IF e.line = request.line /\ d = at /\ Movable(request, e) = movable
                    THEN ReadOrders(d, movable) \cup {o} ELSE ReadOrders(d, movable)
    <3> DEFINE I == {i \in ExistingOn(request, d) :
                        i < unread /\ Movable(request, request.existing[i]) = movable}
               J == {i \in ExistingOn(request, d) :
                        i < unread + 1 /\ Movable(request, request.existing[i]) = movable}
    <3>1. /\ ReadOrders(d, movable) = {request.existing[k].order : k \in I}
          /\ ReadOrders(d, movable)' = {request.existing[k].order : k \in J}
          BY <2>2 DEF ReadOrders
    <3>2. \A k \in DOMAIN request.existing : k < unread + 1 <=> k < unread \/ k = unread
          BY <2>2
    <3>3. unread \in ExistingOn(request, d) <=> e.line = request.line /\ d = at
          BY <2>2 DEF ExistingOn, ExistingOfLine
    <3>4. J = IF e.line = request.line /\ d = at /\ Movable(request, e) = movable
              THEN I \cup {unread} ELSE I
      <4>1. ExistingOn(request, d) \subseteq DOMAIN request.existing
            BY DEF ExistingOn, ExistingOfLine
      <4> QED
          BY <2>2, <3>2, <3>3, <4>1
    <3> HIDE DEF I, J
    <3> QED
        BY <2>2, <3>1, <3>4
  <2>5. \A map, d : OrdersOn(map, d)' = OrdersOn(map', d)
        BY DEF OrdersOn
  <2>6. Movable(request, e) \in BOOLEAN
        BY DEF Movable
  <2> HIDE DEF e, at, o
  <2>7. CASE e.line # request.line
    <3>1. lowByDate' = lowByDate /\ lockedByDate' = lockedByDate
          BY <1>1, <2>7 DEF ReadExisting, SkipOtherLine, NoteForReview, TakeCapacity, e
    <3> QED
        BY <2>4, <2>7, <3>1 DEF Rosters
  <2>8. CASE e.line = request.line
    <3>1. IF Movable(request, e)
          THEN lowByDate' = AddOrder(lowByDate, at, o) /\ lockedByDate' = lockedByDate
          ELSE lockedByDate' = AddOrder(lockedByDate, at, o) /\ lowByDate' = lowByDate
      <4>1. e.locked \in BOOLEAN /\ e.high \in BOOLEAN
            BY <2>1 DEF ExistingAllocation
      <4> QED
          BY <1>1, <2>8, <4>1 DEF ReadExisting, SkipOtherLine, NoteForReview, TakeCapacity,
                                  Movable, e, at, o
    <3>2. ASSUME NEW map, IsRoster(map), NEW d \in Nat
          PROVE  OrdersOn(AddOrder(map, at, o), d)
                    = IF d = at THEN OrdersOn(map, d) \cup {o} ELSE OrdersOn(map, d)
          BY <2>1, <3>2, AddOrderType
    <3>3. SUFFICES ASSUME NEW d \in Nat
                   PROVE  /\ OrdersOn(lowByDate', d) = ReadOrders(d, TRUE)'
                          /\ OrdersOn(lockedByDate', d) = ReadOrders(d, FALSE)'
          BY DEF Rosters
    <3>4. OrdersOn(lowByDate, d) = ReadOrders(d, TRUE)
          /\ OrdersOn(lockedByDate, d) = ReadOrders(d, FALSE)
          BY DEF Rosters
    <3>5. CASE Movable(request, e)
      <4>1. /\ OrdersOn(lowByDate', d) = IF d = at THEN OrdersOn(lowByDate, d) \cup {o}
                                         ELSE OrdersOn(lowByDate, d)
            /\ OrdersOn(lockedByDate', d) = OrdersOn(lockedByDate, d)
            BY <2>3, <3>1, <3>2, <3>5
      <4>2. /\ ReadOrders(d, TRUE)' = IF d = at THEN ReadOrders(d, TRUE) \cup {o}
                                      ELSE ReadOrders(d, TRUE)
            /\ ReadOrders(d, FALSE)' = ReadOrders(d, FALSE)
            BY <2>4, <2>8, <3>5
      <4> QED
          BY <3>4, <4>1, <4>2
    <3>6. CASE ~Movable(request, e)
      <4>1. /\ OrdersOn(lockedByDate', d) = IF d = at THEN OrdersOn(lockedByDate, d) \cup {o}
                                            ELSE OrdersOn(lockedByDate, d)
            /\ OrdersOn(lowByDate', d) = OrdersOn(lowByDate, d)
            BY <2>3, <3>1, <3>2, <3>6
      <4>2. Movable(request, e) = FALSE
            BY <2>6, <3>6
      <4>3. /\ ReadOrders(d, FALSE)' = IF d = at THEN ReadOrders(d, FALSE) \cup {o}
                                       ELSE ReadOrders(d, FALSE)
            /\ ReadOrders(d, TRUE)' = ReadOrders(d, TRUE)
            BY <2>4, <2>8, <4>2
      <4> QED
          BY <3>4, <4>1, <4>3
    <3> QED
        BY <3>5, <3>6
  <2> QED
      BY <2>7, <2>8
<1>2. CASE UNCHANGED <<request, unread, lowByDate, lockedByDate>>
      BY <1>2 DEF Rosters, ReadOrders, OrdersOn
<1>3. CASE PlaceQuantity
      BY <1>2, <1>3 DEF PlaceQuantity
<1>4. CASE Quiet
      BY <1>2, <1>4 DEF Quiet, ledgerVars
<1> QED
    BY <1>1, <1>3, <1>4, StepKinds

\* A report is made together with a piece, which stays.
LEMMA ReportsStep ==
    ASSUME TypeOK, LedgerFirst, ReportsHavePieces, [Next]_vars
    PROVE  ReportsHavePieces'
<1>1. CASE ReadExisting
      BY <1>1, Reading DEF ReportsHavePieces
<1>2. CASE PlaceQuantity
  <2>1. PICK q \in Nat \ {0} :
           allocations' = Append(allocations,
              [order |-> order, day |-> day, quantity |-> q,
               locked |-> request.orders[order].high])
        BY <1>2, Placing
  <2> DEFINE n == Len(allocations) + 1
  <2>2. /\ \A i \in DOMAIN allocations :
              i \in DOMAIN allocations' /\ allocations'[i] = allocations[i]
        /\ n \in DOMAIN allocations' /\ allocations'[n].order = order
        /\ allocations'[n].day = day
    <3>1. allocations \in Seq(Piece)
          BY DEF TypeOK
    <3> QED
        BY <2>1, <3>1
  <2>3. reported' \subseteq reported \cup {<<order, day>>}
        BY <1>2 DEF PlaceQuantity
  <2> HIDE DEF n
  <2>4. ASSUME NEW x \in reported'
        PROVE  \E i \in DOMAIN allocations' :
                  allocations'[i].order = x[1] /\ allocations'[i].day = x[2]
    <3>1. CASE x \in reported
          BY <2>2, <3>1 DEF ReportsHavePieces
    <3>2. CASE x = <<order, day>>
          BY <2>2, <3>2
    <3> QED
        BY <2>3, <3>1, <3>2
  <2> QED
      BY <2>4 DEF ReportsHavePieces
<1>3. CASE Quiet
      BY <1>3 DEF Quiet, ledgerVars, ReportsHavePieces
<1> QED
    BY <1>1, <1>2, <1>3, StepKinds

\* When the ledger is complete the rosters are what the request says of a day.
LEMMA CompleteRosters ==
    ASSUME TypeOK, Rosters, LedgerComplete, NEW d \in Nat
    PROVE  /\ OrdersOn(lowByDate, d) = OrdersToMove(request, d)
           /\ NamedOn(d) = OrdersAffected(request, d)
<1>1. \A k \in DOMAIN request.existing : k < unread
  <2>1. request.existing \in Seq(ExistingAllocation) /\ unread \in Nat \ {0}
        BY RequestFields DEF TypeOK, IsRequest
  <2>2. unread > Len(request.existing)
        BY <2>1 DEF LedgerComplete
  <2> QED
      BY <2>1, <2>2
<1>2. \A e : Movable(request, e) \in BOOLEAN
      BY DEF Movable
<1>3. ExistingOn(request, d) \subseteq DOMAIN request.existing
      BY DEF ExistingOn, ExistingOfLine
<1>4. ReadOrders(d, TRUE) = OrdersToMove(request, d)
      BY <1>1, <1>2, <1>3 DEF ReadOrders, OrdersToMove
<1>5. ReadOrders(d, TRUE) \cup ReadOrders(d, FALSE) = OrdersAffected(request, d)
      BY <1>1, <1>2, <1>3 DEF ReadOrders, OrdersAffected
<1> QED
    BY <1>4, <1>5 DEF Rosters, NamedOn

\* The free wafers from the start, up to a day after the one of an order that was
\* given up, are those before that day and those estimateFinishDate has counted.
LEMMA FreeSplits ==
    ASSUME IInv, LedgerComplete, IsPlanRequest(request), NEW plan \in Plans(request),
           NEW o \in DOMAIN request.orders, NEW left,
           PlannedTo(request, plan, o, day - 1, allocations, conflicts, left),
           NEW last \in Int, last >= day - 1
    PROVE  /\ FreeFromStart(request, plan.allocations, last)
                = FreeFromStart(request, plan.allocations, day - 1) + FreeUntil(last)
           /\ FreeFromStart(request, plan.allocations, day - 1) \in Nat
           /\ FreeUntil(last) \in Nat
<1> DEFINE pieces == plan.allocations
           start == StartDay(request)
           A == start .. day - 1
           B == day .. last
           C == start .. last
           f == [d \in A |-> FreeOn(request, pieces, d)]
           g == [d \in B |-> Later(Available(d), 0)]
           h == [d \in C |-> FreeOn(request, pieces, d)]
<1>1. /\ pieces \in Seq(PlanPiece) /\ day \in Nat /\ start \in Int /\ day - 1 >= start - 1
      BY FreeFromStartNext DEF Plans, IInv, TypeOK, PlannedTo
<1>2. IsFiniteSet(A) /\ IsFiniteSet(B) /\ A \cap B = {} /\ C = A \cup B
  <2> HIDE DEF start
  <2>1. day - 1 \in Int /\ day \in Int
        BY <1>1
  <2>2. IsFiniteSet(A) /\ IsFiniteSet(B)
        BY <1>1, <2>1, FS_Interval
  <2>3. A \cap B = {} /\ C = A \cup B
        BY <1>1
  <2> QED
      BY <2>2, <2>3
<1>3. \A d \in A \cup B : h[d] \in Nat
      BY <1>1, <1>2, FreeType
<1>4. \A d \in A : f[d] = h[d]
      BY <1>2
<1>5. \A d \in B : g[d] = h[d]
  <2> SUFFICES ASSUME NEW d \in B PROVE g[d] = h[d]
      OBVIOUS
  <2>1. d \in Nat /\ d > day - 1 /\ d \in C
        BY <1>1, <1>2
  <2>2. FreeOn(request, pieces, d) = Later(Available(d), 0)
        BY <2>1, FreeIsAvailable
  <2>3. g[d] = Later(Available(d), 0) /\ h[d] = FreeOn(request, pieces, d)
        BY <2>1
  <2> QED
      BY <2>2, <2>3
<1>6. /\ FreeFromStart(request, pieces, day - 1) = SumFunctionOnSet(f, A)
      /\ FreeFromStart(request, pieces, last) = SumFunctionOnSet(h, C)
      BY DEF FreeFromStart
<1>7. FreeUntil(last) = SumFunctionOnSet(g, B)
      BY DEF FreeUntil, SumFunction
<1> HIDE DEF A, B, C, f, g, h
<1>8. SumFunctionOnSet(h, C) = SumFunctionOnSet(h, A) + SumFunctionOnSet(h, B)
      BY <1>2, <1>3, SumUnion
<1>9. SumFunctionOnSet(f, A) = SumFunctionOnSet(h, A)
      BY <1>2, <1>4, SumCongruent
<1>10. SumFunctionOnSet(g, B) = SumFunctionOnSet(h, B)
       BY <1>2, <1>5, SumCongruent
<1>11. SumFunctionOnSet(h, A) \in Nat /\ SumFunctionOnSet(h, B) \in Nat
       BY <1>2, <1>3, SumType
<1> QED
    BY <1>6, <1>7, <1>8, <1>9, <1>10, <1>11

\* The plan is followed from one step to the next: reading an allocation, ...
LEMMA FollowsReading ==
    ASSUME PlanInv, ReadExisting
    PROVE  FollowsPlan'
<1>1. /\ ~LedgerComplete /\ UNCHANGED <<request, loopVars, resultVars>>
      BY DEF ReadExisting
<1>2. UNCHANGED <<request, pc, todo, allocations, conflicts>>
      BY <1>1 DEF loopVars, resultVars
<1>3. ~Planning /\ Taken = {} /\ Result = PlanAfter(request, Taken)
      BY <1>1 DEF PlanInv, IInv, LedgerFirst, Planning, FollowsPlan
<1>4. ~Planning' /\ Taken' = {} /\ Result' = Result
      BY <1>2, <1>3 DEF Planning, Taken, Result
<1> QED
    BY <1>2, <1>3, <1>4 DEF FollowsPlan

\* ... taking an order, ...
LEMMA FollowsNextOrder ==
    ASSUME PlanInv, TypeOK', NextOrder
    PROVE  FollowsPlan'
<1>1. /\ LedgerComplete /\ pc = "orders" /\ pc' = "days" /\ day' = Start
      /\ UNCHANGED <<request, unread, allocations, conflicts>>
      BY DEF NextOrder, ledgerVars, resultVars
<1>2. /\ order' \in todo /\ todo' = todo \ {order'}
      /\ remaining' = request.orders[order'].quantity
      BY DEF NextOrder
<1>3. /\ IsRequest(request) /\ todo \subseteq DOMAIN request.orders
      BY RequestFields DEF PlanInv, IInv, TypeOK
<1>4. IsPlanRequest(request) /\ Start = StartDay(request)
      BY <1>3, SameRequest
<1>5. Taken' \ {order'} = Taken
      BY <1>1, <1>2, <1>3 DEF Taken
<1>6. Result = PlanAfter(request, Taken)
      BY <1>1 DEF PlanInv, FollowsPlan, Planning
<1> DEFINE plan == PlanAfter(request, Taken)
<1>7. /\ plan \in Plans(request)
      /\ plan.allocations = allocations /\ plan.conflicts = conflicts
  <2>1. Taken \in SUBSET DOMAIN request.orders
        BY DEF Taken
  <2> QED
      BY <1>4, <1>6, <2>1, PlanSteps DEF Result
<1>8. PlannedTo(request, plan, order', StartDay(request) - 1, allocations, conflicts,
                request.orders[order'].quantity)
  <2> HIDE DEF plan
  <2>1. order' \in DOMAIN request.orders
        BY <1>2, <1>3
  <2>2. PlannedTo(request, plan, order', StartDay(request) - 1, plan.allocations,
                  plan.conflicts, request.orders[order'].quantity)
        BY <1>4, <1>7, <2>1, PlannedNothing
  <2> QED
      BY <1>7, <2>2
<1>9. PlannedTo(request', PlanAfter(request', Taken' \ {order'}), order', day' - 1,
                allocations', conflicts', remaining')
      BY <1>1, <1>2, <1>4, <1>5, <1>8
<1>10. day' - 1 # day' /\ LedgerComplete' /\ Planning'
  <2>1. day' \in Nat
        BY DEF TypeOK
  <2> QED
      BY <1>1, <2>1 DEF LedgerComplete, Planning
<1> HIDE DEF plan
<1> QED
    BY <1>9, <1>10 DEF FollowsPlan

\* ... finding no more, ...
LEMMA FollowsNoOrder ==
    ASSUME PlanInv, NoOrderLeft
    PROVE  FollowsPlan'
<1>1. /\ LedgerComplete /\ pc = "orders" /\ pc' = "done"
      /\ UNCHANGED <<request, unread, todo, allocations, conflicts>>
      BY DEF NoOrderLeft, ledgerVars, resultVars
<1>2. Result = PlanAfter(request, Taken)
      BY <1>1 DEF PlanInv, FollowsPlan, Planning
<1>3. ~Planning' /\ Taken' = Taken /\ Result' = Result /\ LedgerComplete'
      BY <1>1 DEF Planning, Taken, Result, LedgerComplete
<1> QED
    BY <1>1, <1>2, <1>3 DEF FollowsPlan

\* ... passing a day, on which the order has a piece or which is full, ...
LEMMA FollowsFullDay ==
    ASSUME PlanInv, SkipFullDay
    PROVE  FollowsPlan'
<1>1. /\ pc = "days" /\ remaining > 0 /\ ~TooLate /\ Available(day) <= 0 /\ day' = day + 1
      /\ UNCHANGED <<request, unread, pc, todo, order, remaining, allocations, conflicts>>
      BY DEF SkipFullDay, ledgerVars, resultVars
<1>2. Planning
      BY <1>1 DEF Planning
<1>3. PICK plan \in Plans(request) :
         /\ plan = PlanAfter(request, Taken \ {order})
         /\ order \in DOMAIN request.orders /\ order \in Taken
         /\ IsPlanRequest(request) /\ LedgerComplete
         /\ \E last \in {day - 1, day} :
               /\ PlannedTo(request, plan, order, last, allocations, conflicts, remaining)
               /\ last = day => remaining = 0 \/ Available(day) <= 0
      BY <1>2, Progress
<1>4. PICK last \in {day - 1, day} :
         PlannedTo(request, plan, order, last, allocations, conflicts, remaining)
      BY <1>3
<1>5. day \in Nat /\ Available(day) \in Int
      BY AvailableType DEF PlanInv, IInv, TypeOK
<1>6. PlannedTo(request, plan, order, day, allocations, conflicts, remaining)
  <2>1. CASE last = day - 1
    <3>1. last + 1 = day /\ day > last
          BY <1>5, <2>1
    <3>2. FreeOn(request, plan.allocations, day) = Later(Available(day), 0)
          BY <1>3, <1>4, <1>5, <3>1, FreeIsAvailable DEF PlanInv
    <3>3. Later(Available(day), 0) = 0
          BY <1>1, <1>5 DEF Later
    <3>4. request.allowLate \/ day <= request.orders[order].due
      <4>1. request.orders[order].due \in Int
            BY <1>3 DEF IsPlanRequest
      <4> QED
          BY <1>1, <1>5, <4>1 DEF TooLate
    <3>5. PlannedTo(request, plan, order, last + 1, allocations, conflicts, remaining)
          BY <1>1, <1>3, <1>4, <3>1, <3>2, <3>3, <3>4, PlannedFullDay
    <3> QED
        BY <3>1, <3>5
  <2>2. CASE last = day
        BY <1>4, <2>2
  <2> QED
      BY <1>4, <2>1, <2>2
<1>7. day' - 1 = day /\ day' - 1 # day'
      BY <1>1, <1>5
<1>8. Planning' /\ LedgerComplete' /\ Taken' = Taken
      BY <1>1, <1>3 DEF Planning, LedgerComplete, Taken
<1>9. PlannedTo(request', PlanAfter(request', Taken' \ {order'}), order', day' - 1,
                allocations', conflicts', remaining')
      BY <1>1, <1>3, <1>6, <1>7, <1>8
<1> QED
    BY <1>7, <1>8, <1>9 DEF FollowsPlan

\* ... placing a piece, ...
LEMMA FollowsPiece ==
    ASSUME PlanInv, PlaceQuantity
    PROVE  FollowsPlan'
<1> DEFINE q == Smaller(remaining, Available(day))
           piece == [order |-> order, day |-> day, quantity |-> q,
                     locked |-> request.orders[order].high]
           note == [order |-> order, reason |-> "review", earliestFinish |-> day,
                    affected |-> OrdersAffected(request, day)]
           more == IF request.manualForce /\ OrdersAffected(request, day) # {}
                   THEN Append(conflicts, note) ELSE conflicts
<1>1. /\ pc = "days" /\ remaining > 0 /\ ~TooLate /\ Available(day) > 0
      /\ allocations' = Append(allocations, piece) /\ remaining' = remaining - q
      /\ UNCHANGED <<request, unread, pc, todo, order, day>>
      BY DEF PlaceQuantity
<1>2. Planning
      BY <1>1 DEF Planning
<1>3. PICK plan \in Plans(request) :
         /\ plan = PlanAfter(request, Taken \ {order})
         /\ order \in DOMAIN request.orders /\ order \in Taken
         /\ IsPlanRequest(request) /\ LedgerComplete
         /\ \E last \in {day - 1, day} :
               /\ PlannedTo(request, plan, order, last, allocations, conflicts, remaining)
               /\ last = day => remaining = 0 \/ Available(day) <= 0
      BY <1>2, Progress
<1>4. day \in Nat /\ Available(day) \in Int /\ remaining \in Nat
      BY AvailableType DEF PlanInv, IInv, TypeOK
<1>5. PlannedTo(request, plan, order, day - 1, allocations, conflicts, remaining)
  <2>1. PICK last \in {day - 1, day} :
           /\ PlannedTo(request, plan, order, last, allocations, conflicts, remaining)
           /\ last = day => remaining = 0 \/ Available(day) <= 0
        BY <1>3
  <2>2. last # day
        BY <1>1, <1>4, <2>1
  <2> QED
      BY <2>1, <2>2
<1>6. FreeOn(request, plan.allocations, day) = Later(Available(day), 0)
  <2>1. day > day - 1
        BY <1>4
  <2> QED
      BY <1>3, <1>4, <1>5, <2>1, FreeIsAvailable DEF PlanInv
<1>7. /\ FreeOn(request, plan.allocations, day) > 0
      /\ q = Lesser(remaining, FreeOn(request, plan.allocations, day))
      BY <1>1, <1>4, <1>6 DEF Later, Smaller, Lesser
<1>8. request.allowLate \/ day <= request.orders[order].due
  <2>1. request.orders[order].due \in Int
        BY <1>3 DEF IsPlanRequest
  <2> QED
      BY <1>1, <1>4, <2>1 DEF TooLate
<1>9. PlannedTo(request, plan, order, day, Append(allocations, piece), more, remaining - q)
  <2> DEFINE last == day - 1
  <2>1. last + 1 = day
        BY <1>4
  <2>2. PlannedTo(request, plan, order, last, allocations, conflicts, remaining)
        BY <1>5
  <2> HIDE DEF last, q, piece, note, more
  <2>3. piece = [order |-> order, day |-> last + 1, quantity |-> q,
                 locked |-> request.orders[order].high]
        BY <2>1 DEF piece
  <2>4. note = [order |-> order, reason |-> "review", earliestFinish |-> last + 1,
                affected |-> OrdersAffected(request, last + 1)]
        BY <2>1 DEF note
  <2>5. more = IF request.manualForce /\ OrdersAffected(request, last + 1) # {}
               THEN Append(conflicts, note) ELSE conflicts
        BY <2>1 DEF more
  <2>6. /\ FreeOn(request, plan.allocations, last + 1) > 0
        /\ q = Lesser(remaining, FreeOn(request, plan.allocations, last + 1))
        /\ request.allowLate \/ last + 1 <= request.orders[order].due
        BY <1>7, <1>8, <2>1
  <2>7. PlannedTo(request, plan, order, last + 1, Append(allocations, piece), more,
                  remaining - q)
        BY <1>1, <1>3, <2>2, <2>3, <2>4, <2>5, <2>6, PlannedPiece
  <2> QED
      BY <2>1, <2>7
<1>10. conflicts' = more
  <2>1. Affected = OrdersAffected(request, day)
        BY <1>3, <1>4, CompleteRosters DEF PlanInv, IInv, Affected, NamedOn
  <2>2. <<order, day>> \notin reported
    <3> SUFFICES ASSUME <<order, day>> \in reported PROVE FALSE
        OBVIOUS
    <3>1. PICK i \in DOMAIN allocations :
             allocations[i].order = order /\ allocations[i].day = day
          BY DEF PlanInv, ReportsHavePieces
    <3>2. remaining = 0 \/ Available(day) <= 0
          BY <1>2, <3>1 DEF PlanInv, IInv, Frontier
    <3> QED
        BY <1>1, <1>4, <3>2
  <2>3. NeedsReview <=> request.manualForce /\ OrdersAffected(request, day) # {}
        BY <2>1, <2>2 DEF NeedsReview
  <2>4. ReviewConflict = note
        BY <2>1 DEF ReviewConflict
  <2>5. conflicts' = IF NeedsReview THEN Append(conflicts, ReviewConflict) ELSE conflicts
        BY DEF PlaceQuantity
  <2> HIDE DEF note
  <2> QED
      BY <2>3, <2>4, <2>5
<1>11. Available(day)' = Available(day) - q
  <2>1. PICK n \in Nat \ {0} :
           /\ allocations' = Append(allocations,
                 [order |-> order, day |-> day, quantity |-> n,
                  locked |-> request.orders[order].high])
           /\ n <= remaining /\ n <= Available(day)
           /\ n = remaining \/ n = Available(day)
           /\ Available(day)' = Available(day) - n
        BY Placing DEF PlanInv, IInv
  <2>2. n = q
        BY <1>4, <2>1 DEF Smaller
  <2> QED
      BY <2>1, <2>2
<1>12. remaining' = 0 \/ Available(day)' <= 0
       BY <1>1, <1>4, <1>11 DEF Smaller
<1>13. Planning' /\ LedgerComplete' /\ Taken' = Taken
       BY <1>1, <1>3 DEF Planning, LedgerComplete, Taken
<1>14. PlannedTo(request', PlanAfter(request', Taken' \ {order'}), order', day',
                 allocations', conflicts', remaining')
  <2> HIDE DEF piece, more, q
  <2> QED
      BY <1>1, <1>3, <1>9, <1>10, <1>13
<1> HIDE DEF piece, more, q
<1> QED
    BY <1>12, <1>13, <1>14 DEF FollowsPlan

\* ... being done with an order that is placed, ...
LEMMA FollowsPlaced ==
    ASSUME PlanInv, OrderPlaced
    PROVE  FollowsPlan'
<1>1. /\ pc = "days" /\ remaining = 0 /\ pc' = "orders"
      /\ UNCHANGED <<request, unread, todo, allocations, conflicts>>
      BY DEF OrderPlaced, ledgerVars, resultVars
<1>2. Planning
      BY <1>1 DEF Planning
<1>3. PICK plan \in Plans(request) :
         /\ order \in DOMAIN request.orders
         /\ IsPlanRequest(request) /\ LedgerComplete
         /\ PlanAfter(request, Taken) = PlanNext(request, order, plan)
         /\ \E last \in {day - 1, day} :
               PlannedTo(request, plan, order, last, allocations, conflicts, remaining)
      BY <1>2, Progress
<1>4. PICK last : PlannedTo(request, plan, order, last, allocations, conflicts, 0)
      BY <1>1, <1>3
<1>5. PlanNext(request, order, plan)
         = [allocations |-> allocations, conflicts |-> conflicts]
      BY <1>3, <1>4, PlannedWhole
<1>6. ~Planning' /\ Taken' = Taken /\ Result' = Result /\ LedgerComplete'
      BY <1>1, <1>3 DEF Planning, Taken, Result, LedgerComplete
<1> QED
    BY <1>1, <1>3, <1>5, <1>6 DEF FollowsPlan, Result

\* ... giving up on its due date and estimating when it would finish, ...
LEMMA FollowsEstimate ==
    ASSUME PlanInv, GiveUp \/ EstimateDay
    PROVE  FollowsPlan'
<1>1. /\ Planning /\ Planning'
      /\ UNCHANGED <<request, ledgerVars, todo, order, remaining, day,
                     allocations, conflicts>>
      BY DEF GiveUp, EstimateDay, Planning, resultVars
<1>2. /\ LedgerComplete' = LedgerComplete /\ Taken' = Taken
      /\ Available(day)' = Available(day)
      BY <1>1 DEF LedgerComplete, Taken, Available, Load, ledgerVars
<1>3. PICK last \in {day - 1, day} :
         /\ PlannedTo(request, PlanAfter(request, Taken \ {order}), order, last,
                      allocations, conflicts, remaining)
         /\ last = day => remaining = 0 \/ Available(day) <= 0
      BY <1>1 DEF PlanInv, FollowsPlan
<1>4. /\ last \in {day' - 1, day'}
      /\ PlannedTo(request', PlanAfter(request', Taken' \ {order'}), order', last,
                   allocations', conflicts', remaining')
      /\ last = day' => remaining' = 0 \/ Available(day)' <= 0
      BY <1>1, <1>2, <1>3
<1>5. ~LedgerComplete' => Taken' = {}
      BY <1>2 DEF PlanInv, FollowsPlan
<1> QED
    BY <1>1, <1>4, <1>5 DEF FollowsPlan

\* ... and reporting it late.
LEMMA FollowsLate ==
    ASSUME PlanInv, RecordLateConflict
    PROVE  FollowsPlan'
<1> DEFINE note == [order |-> order, reason |-> "late", earliestFinish |-> finish,
              affected |-> UNION {OrdersOn(lowByDate, d) :
                 d \in Start .. Later(finish, request.orders[order].due)}]
<1>1. /\ pc = "estimate" /\ missing = 0 /\ pc' = "orders"
      /\ conflicts' = Append(conflicts, note)
      /\ UNCHANGED <<request, unread, todo, allocations>>
      BY DEF RecordLateConflict, ledgerVars
<1>2. Planning
      BY <1>1 DEF Planning
<1>3. PICK plan \in Plans(request) :
         /\ order \in DOMAIN request.orders
         /\ IsPlanRequest(request) /\ LedgerComplete
         /\ PlanAfter(request, Taken) = PlanNext(request, order, plan)
         /\ \E last \in {day - 1, day} :
               PlannedTo(request, plan, order, last, allocations, conflicts, remaining)
      BY <1>2, Progress
<1>4. /\ day \in Nat /\ finish \in Nat /\ remaining \in Nat /\ IsRequest(request)
      /\ TypeOK /\ IInv /\ Rosters
      BY RequestFields DEF PlanInv, IInv, TypeOK
<1>5. /\ day > request.orders[order].due /\ ~request.allowLate /\ day >= Start
      /\ remaining > 0 /\ finish >= day
      /\ FreeUntil(finish) >= remaining /\ FreeUntil(finish - 1) < remaining
      BY <1>1, <1>2 DEF PlanInv, IInv, Frontier, QuantitySums, Estimating, TooLate
<1>6. request.orders[order].due \in Nat /\ request.orders[order].quantity \in Nat
      BY <1>3, <1>4 DEF IsRequest, OrderInput
<1>7. Start = StartDay(request) /\ Start \in Nat
      BY <1>4, SameRequest, StartType
<1>8. PlannedTo(request, plan, order, day - 1, allocations, conflicts, remaining)
  <2>1. PICK last \in {day - 1, day} :
           PlannedTo(request, plan, order, last, allocations, conflicts, remaining)
        BY <1>3
  <2>2. last # day
    <3> SUFFICES ASSUME last = day PROVE FALSE
        OBVIOUS
    <3>1. \A d \in StartDay(request) .. day :
             request.allowLate \/ d <= request.orders[order].due
          BY <2>1 DEF PlannedTo
    <3>2. day \in StartDay(request) .. day
          BY <1>4, <1>5, <1>7
    <3> QED
        BY <1>4, <1>5, <1>6, <3>1, <3>2
  <2> QED
      BY <2>1, <2>2
<1> DEFINE Free(d) == FreeFromStart(request, plan.allocations, d)
           quantity == request.orders[order].quantity
<1>9. /\ Free(finish) = Free(day - 1) + FreeUntil(finish)
      /\ Free(finish - 1) = Free(day - 1) + FreeUntil(finish - 1)
      /\ Free(day - 1) \in Nat /\ FreeUntil(finish) \in Nat /\ FreeUntil(finish - 1) \in Nat
  <2>1. finish \in Int /\ finish >= day - 1 /\ finish - 1 \in Int /\ finish - 1 >= day - 1
        BY <1>4, <1>5
  <2> QED
      BY <1>3, <1>4, <1>8, <2>1, FreeSplits
<1>10. remaining = quantity - Free(day - 1)
  <2>1. remaining = quantity - PlacedBy(request, plan.allocations, order, day - 1)
        BY <1>8 DEF PlannedTo
  <2>2. PlacedBy(request, plan.allocations, order, day - 1) = Lesser(quantity, Free(day - 1))
        BY PlacedIsFree
  <2> HIDE DEF Free, quantity
  <2>3. quantity \in Nat
        BY <1>6 DEF quantity
  <2> QED
      BY <1>5, <1>9, <2>1, <2>2, <2>3 DEF Lesser
<1>11. Free(finish) >= quantity /\ Free(finish - 1) < quantity
  <2> HIDE DEF Free, quantity
  <2>1. quantity \in Nat
        BY <1>6 DEF quantity
  <2> QED
      BY <1>4, <1>5, <1>9, <1>10, <2>1
<1>12. note = [order |-> order, reason |-> "late", earliestFinish |-> finish,
               affected |-> UNION {OrdersToMove(request, d) :
                  d \in StartDay(request) .. Greater(finish, request.orders[order].due)}]
  <2>1. Later(finish, request.orders[order].due) = Greater(finish, request.orders[order].due)
        BY DEF Later, Greater
  <2>2. \A d \in Nat : OrdersOn(lowByDate, d) = OrdersToMove(request, d)
        BY <1>3, <1>4, CompleteRosters
  <2>3. \A d \in Start .. Later(finish, request.orders[order].due) : d \in Nat
    <3>1. Later(finish, request.orders[order].due) \in Nat
          BY <1>4, <1>6 DEF Later
    <3> QED
        BY <1>7, <3>1
  <2>4. {OrdersOn(lowByDate, d) : d \in Start .. Later(finish, request.orders[order].due)}
          = {OrdersToMove(request, d) :
                d \in StartDay(request) .. Greater(finish, request.orders[order].due)}
        BY <1>7, <2>1, <2>2, <2>3
  <2> QED
      BY <2>4
<1> HIDE DEF note
<1>13. PlanNext(request, order, plan)
          = [allocations |-> allocations, conflicts |-> Append(conflicts, note)]
  <2> DEFINE last == day - 1
  <2>1. /\ PlannedTo(request, plan, order, last, allocations, conflicts, remaining)
        /\ last >= request.orders[order].due /\ finish \in Int /\ finish > last
        BY <1>4, <1>5, <1>6, <1>8
  <2> HIDE DEF last
  <2> QED
      BY <1>3, <1>5, <1>11, <1>12, <2>1, PlannedLate
<1>14. ~Planning' /\ Taken' = Taken /\ LedgerComplete'
       BY <1>1, <1>3 DEF Planning, Taken, LedgerComplete
<1> QED
    BY <1>1, <1>3, <1>13, <1>14 DEF FollowsPlan, Result

(***************************************************************************)
(* The theorems                                                            *)
(***************************************************************************)
\* The invariant holds before the first iteration.
LEMMA InitIInv ==
    ASSUME Init
    PROVE  IInv
<1>1. /\ TypeOK /\ unread = 1 /\ pc = "orders" /\ reported = {}
      /\ allocations = <<>> /\ conflicts = <<>> /\ newUsed = EmptyMap
      BY TypeInit DEF Init, PlanBegins
<1>2. DOMAIN request.existing \subseteq Nat \ {0}
      BY <1>1, RequestFields DEF TypeOK, IsRequest
<1>3. DOMAIN newUsed = {}
      BY <1>1 DEF EmptyMap
<1>4. ~Planning
      BY <1>1 DEF Planning
<1>5. LedgerFirst
      BY <1>1, <1>3 DEF LedgerFirst
<1>6. RankOrder /\ Frontier
  <2>1. DOMAIN request.orders \ todo = {}
        BY DEF Init, PlanBegins
  <2> QED
      BY <1>1, <1>4, <2>1 DEF RankOrder, Frontier
<1>7. Reviews
  <2>1. \A k \in DOMAIN request.existing : ~(k < unread)
        BY <1>1, <1>2
  <2> QED
      BY <1>1, <2>1 DEF Reviews
<1>9. LedgerSums
  <2>1. /\ {k \in DOMAIN request.existing : k < unread} = {}
        /\ {i \in DOMAIN allocations : TRUE} = {}
        BY <1>1, <1>2
  <2>2. \A d : ReadOn(d) = 0 /\ NewOn(d) = 0
    <3>1. ASSUME NEW d
          PROVE  ReadOn(d) = Wafers(request.existing, {})
                 /\ NewOn(d) = Wafers(allocations, {})
      <4>1. /\ {k \in DOMAIN request.existing :
                    /\ k < unread
                    /\ request.existing[k].line = request.line
                    /\ request.existing[k].day = d} = {}
            /\ {i \in DOMAIN allocations : allocations[i].day = d} = {}
            BY <2>1
      <4> QED
          BY <4>1 DEF ReadOn, NewOn
    <3> QED
        BY <3>1, WafersEmpty
  <2>3. \A d : /\ Used(newUsed, d) = 0
               /\ Used(highUsed, d) + Used(lowUsed, d) = 0
        BY DEF Init, PlanBegins, EmptyMap, Used
  <2> QED
      BY <2>2, <2>3 DEF LedgerSums
<1>10. QuantitySums /\ Estimating /\ Greedy /\ DaysRise
      BY <1>1, <1>4 DEF QuantitySums, Estimating, Greedy, DaysRise, Init, PlanBegins
<1>8. CapacityRespected /\ NoCapacityWasted /\ NoOvertaking /\ DueDates /\ OnePiecePerDay
      BY <1>1, <1>3 DEF CapacityRespected, NoCapacityWasted, NoOvertaking, DueDates,
                        OnePiecePerDay
<1> QED
    BY <1>1, <1>5, <1>6, <1>7, <1>8, <1>9, <1>10 DEF IInv

\* Every iteration keeps the invariant.
LEMMA NextIInv ==
    ASSUME IInv, [Next]_vars
    PROVE  IInv'
<1>1. TypeOK'
      BY TypeStep DEF IInv
<1>2. LedgerFirst' /\ RankOrder' /\ Frontier' /\ Reviews'
      BY <1>1, LedgerFirstStep, RankOrderStep, FrontierStep, ReviewsStep DEF IInv
<1>3. CapacityRespected' /\ NoCapacityWasted' /\ NoOvertaking'
      BY <1>1, CapacityStep, WastedStep, OvertakingStep DEF IInv
<1>4. DueDates' /\ OnePiecePerDay'
      BY <1>1, DueDatesStep, OnePieceStep DEF IInv
<1>5. LedgerSums' /\ QuantitySums' /\ Estimating' /\ Greedy' /\ DaysRise'
      BY <1>1, LedgerSumsStep, QuantitySumsStep, EstimatingStep, GreedyStep,
         DaysRiseStep DEF IInv
<1> QED
    BY <1>1, <1>2, <1>3, <1>4, <1>5 DEF IInv

\* Before the first iteration nothing is planned.
LEMMA InitPlanInv ==
    ASSUME Init
    PROVE  PlanInv
<1>1. IInv
      BY InitIInv
<1>2. /\ unread = 1 /\ lowByDate = EmptyMap /\ lockedByDate = EmptyMap /\ reported = {}
      /\ pc = "orders" /\ todo = DOMAIN request.orders
      /\ allocations = <<>> /\ conflicts = <<>>
      BY DEF Init, PlanBegins
<1>3. IsRequest(request)
      BY <1>1, RequestFields DEF IInv, TypeOK
<1>4. Rosters
  <2>1. \A k \in DOMAIN request.existing : ~(k < unread)
        BY <1>2, <1>3 DEF IsRequest
  <2>2. \A d : ExistingOn(request, d) \subseteq DOMAIN request.existing
        BY DEF ExistingOn, ExistingOfLine
  <2>3. \A d, movable : ReadOrders(d, movable) = {}
        BY <2>1, <2>2 DEF ReadOrders
  <2>4. \A d : OrdersOn(lowByDate, d) = {} /\ OrdersOn(lockedByDate, d) = {}
        BY <1>2 DEF OrdersOn, EmptyMap
  <2> QED
      BY <2>3, <2>4 DEF Rosters
<1>5. ReportsHavePieces
      BY <1>2 DEF ReportsHavePieces
<1>6. FollowsPlan
  <2>1. Taken = {} /\ ~Planning
        BY <1>2 DEF Taken, Planning
  <2>2. PlanAfter(request, {}) = NothingPlanned
        BY <1>3, SameRequest, PlanSteps
  <2>3. Result = NothingPlanned
        BY <1>2 DEF Result, NothingPlanned
  <2> QED
      BY <2>1, <2>2, <2>3 DEF FollowsPlan
<1> QED
    BY <1>1, <1>4, <1>5, <1>6 DEF PlanInv

\* Every iteration follows the plan.
LEMMA NextPlanInv ==
    ASSUME PlanInv, [Next]_vars
    PROVE  PlanInv'
<1>1. IInv' /\ TypeOK'
      BY NextIInv DEF PlanInv, IInv
<1>2. Rosters' /\ ReportsHavePieces'
      BY RostersStep, ReportsStep DEF PlanInv, IInv
<1>3. FollowsPlan'
  <2>1. CASE UNCHANGED vars
    <3>1. UNCHANGED <<request, unread, highUsed, lowUsed, newUsed, pc, todo, order,
                      remaining, day, allocations, conflicts>>
          BY <2>1 DEF vars, ledgerVars, loopVars, resultVars
    <3>2. /\ LedgerComplete' = LedgerComplete /\ Planning' = Planning /\ Taken' = Taken
          /\ Result' = Result /\ Available(day)' = Available(day)
          BY <3>1 DEF LedgerComplete, Planning, Taken, Result, Available, Load
    <3>3. FollowsPlan
          BY DEF PlanInv
    <3>4. (~LedgerComplete' => Taken' = {})
          /\ (~Planning' => Result' = PlanAfter(request', Taken'))
          BY <3>1, <3>2, <3>3 DEF FollowsPlan
    <3>5. Planning' => \E last \in {day' - 1, day'} :
             /\ PlannedTo(request', PlanAfter(request', Taken' \ {order'}), order', last,
                          allocations', conflicts', remaining')
             /\ last = day' => remaining' = 0 \/ Available(day)' <= 0
          BY <3>1, <3>2, <3>3 DEF FollowsPlan
    <3> QED
        BY <3>4, <3>5 DEF FollowsPlan
  <2>2. CASE ReadExisting
        BY <2>2, FollowsReading
  <2>3. CASE PlanOrders
        BY <1>1, <2>3, FollowsNextOrder, FollowsNoOrder DEF PlanOrders
  <2>4. CASE PlanOrder
        BY <2>4, FollowsFullDay, FollowsPiece, FollowsPlaced DEF PlanOrder
  <2>5. CASE PlanLate
        BY <2>5, FollowsEstimate, FollowsLate DEF PlanLate
  <2> QED
      BY <2>1, <2>2, <2>3, <2>4, <2>5 DEF Next
<1> QED
    BY <1>1, <1>2, <1>3 DEF PlanInv

\* The invariant holds in every state of Plan.
THEOREM Invariance == Spec => []IInv
BY InitIInv, NextIInv, PTL DEF Spec

\* No quantity of the ledger, of an order or of a piece ever becomes negative,
\* and planOrder places no empty piece.
THEOREM TypesAreRespected == Spec => []TypeOK
<1>1. IInv => TypeOK
      BY DEF IInv
<1> QED
    BY <1>1, Invariance, PTL

\* availableCapacity keeps every day on which something is placed within the
\* capacity of the line, for every capacity and every backlog.
THEOREM DaysAreNotOverbooked == Spec => []CapacityRespected
<1>1. IInv => CapacityRespected
      BY DEF IInv
<1> QED
    BY <1>1, Invariance, PTL

\* planOrder leaves no room unused before a piece.
THEOREM PlansAreTight == Spec => []NoCapacityWasted
<1>1. IInv => NoCapacityWasted
      BY DEF IInv
<1> QED
    BY <1>1, Invariance, PTL

\* The rank of sortedOrders decides who comes first, for any number of orders.
THEOREM RankIsRespected == Spec => []NoOvertaking
<1>1. IInv => NoOvertaking
      BY DEF IInv
<1> QED
    BY <1>1, Invariance, PTL

\* No piece is late without allowLate, and no order is reported late that could
\* still have got a wafer more in time.
THEOREM DueDatesAreKept == Spec => []DueDates
<1>1. IInv => DueDates
      BY DEF IInv
<1> QED
    BY <1>1, Invariance, PTL

\* The pieces of an order are on different days.
THEOREM OrdersAreSplitByDay == Spec => []OnePiecePerDay
<1>1. IInv => OnePiecePerDay
      BY DEF IInv
<1> QED
    BY <1>1, Invariance, PTL

\* Manual force names everybody it collides with.
THEOREM ForceIsNotSilent == Spec => []ForceIsReported
<1>1. ASSUME IInv
      PROVE  ForceIsReported
  <2> SUFFICES ASSUME NEW i \in DOMAIN allocations,
                      NEW k \in DOMAIN request.existing,
                      request.manualForce,
                      request.existing[k].line = request.line,
                      request.existing[k].day = allocations[i].day
               PROVE  \E c \in DOMAIN conflicts :
                         /\ conflicts[c].reason = "review"
                         /\ conflicts[c].order = allocations[i].order
                         /\ conflicts[c].earliestFinish = allocations[i].day
                         /\ request.existing[k].order \in conflicts[c].affected
      BY DEF ForceIsReported
  <2>1. LedgerComplete
        BY <1>1 DEF IInv, LedgerFirst
  <2>2. k < unread
    <3>1. request.existing \in Seq(ExistingAllocation) /\ unread \in Nat \ {0}
          BY <1>1, RequestFields DEF IInv, TypeOK, IsRequest
    <3>2. unread > Len(request.existing)
          BY <2>1, <3>1 DEF LedgerComplete
    <3> QED
        BY <3>1, <3>2
  <2>3. request.existing[k].order \in NamedOn(allocations[i].day)
        BY <1>1, <2>2 DEF IInv, Reviews
  <2>4. PICK c \in DOMAIN conflicts :
                Names(conflicts[c], allocations[i].order, allocations[i].day)
        BY <1>1, <2>3 DEF IInv, Reviews
  <2> QED
      BY <2>3, <2>4 DEF Names
<1> QED
    BY <1>1, Invariance, PTL

\* The ledger of Plan is exact on every day, for any list of allocations: each
\* one of the line and each piece is counted once.
THEOREM LedgerCountsEachWaferOnce == Spec => []LedgerIsExact
<1>1. ASSUME IInv
      PROVE  LedgerIsExact
  <2>1. TypeOK /\ LedgerSums
        BY <1>1 DEF IInv
  <2>2. DaysInUse \subseteq Nat
    <3>1. DOMAIN highUsed \cup DOMAIN lowUsed \cup DOMAIN newUsed \subseteq Nat
          BY <2>1 DEF TypeOK, IsCounter
    <3>2. \A k \in DOMAIN request.existing : request.existing[k].day \in Nat
          BY <2>1, ExistingQuantities
    <3>3. \A i \in DOMAIN allocations : allocations[i].day \in Nat
          BY <2>1, PieceFields
    <3> QED
        BY <3>1, <3>2, <3>3 DEF DaysInUse
  <2> QED
      BY <2>1, <2>2, LoadIsExact DEF LedgerIsExact, Backlog
<1> QED
    BY <1>1, Invariance, PTL

\* Plan loses no wafer of an order and invents none, whatever the quantities: an
\* order is wholly on the calendar, or it is reported late and is not.
THEOREM QuantitiesAreKept == Spec => []QuantityKept
<1>1. IInv => QuantityKept
      BY DEF IInv, QuantitySums, QuantityKept, Planning
<1> QED
    BY <1>1, Invariance, PTL

\* estimateFinishDate names the first day by which what is left would fit.
THEOREM EstimatesAreExact == Spec => []EarliestFinishIsExact
<1>1. IInv => EarliestFinishIsExact
      BY DEF IInv, Estimating, EarliestFinishIsExact
<1> QED
    BY <1>1, Invariance, PTL

\* The loops of Plan follow the function Plan in every state.
THEOREM PlanIsFollowed == Spec => []PlanInv
BY InitPlanInv, NextPlanInv, PTL DEF Spec

\* For every request, the loops of Plan answer once, and with the plan that is
\* defined without them: no order in which they go over the ledger, the orders and
\* the days has any other outcome.
THEOREM LoopsImplementPlan == Spec => ImplementsPlan
<1>1. Init => Promise!Init
      BY DEF Init, PlanBegins, Promise!Init
<1>2. ASSUME PlanInv, [Next]_vars
      PROVE  [Promise!Answer]_<<request, IF pc = "done" THEN <<Result>> ELSE <<>>>>
  <2>1. CASE UNCHANGED vars
    <3>1. UNCHANGED <<request, pc, allocations, conflicts>>
          BY <2>1 DEF vars, loopVars, resultVars
    <3> QED
        BY <3>1 DEF Result
  <2>2. CASE NoOrderLeft
    <3>1. pc = "orders" /\ pc' = "done" /\ todo = {}
          /\ UNCHANGED <<request, allocations, conflicts>>
          BY <2>2 DEF NoOrderLeft, resultVars
    <3>2. Result = PlanAfter(request, DOMAIN request.orders)
      <4>1. Result = PlanAfter(request, Taken) /\ Taken = DOMAIN request.orders
            BY <1>2, <3>1 DEF PlanInv, FollowsPlan, Planning, Taken
      <4> QED
          BY <4>1
    <3>3. IsPlanRequest(request)
          BY <1>2, RequestFields, SameRequest DEF PlanInv, IInv, TypeOK
    <3>4. Result = Plan(request) /\ Result' = Result
          BY <3>1, <3>2, <3>3, PlanSteps DEF Result
    <3> QED
        BY <3>1, <3>4 DEF Promise!Answer
  <2>3. CASE Next /\ ~NoOrderLeft
    <3>1. pc # "done" /\ pc' # "done" /\ request' = request
      <4>1. CASE ReadExisting
        <5>1. pc = "orders" /\ pc' = "orders" /\ request' = request
              BY <1>2, <4>1, Reading DEF PlanInv, IInv, LedgerFirst, ReadExisting
        <5> QED
            BY <5>1
      <4>2. CASE NextOrder \/ PlanOrder \/ PlanLate
            BY <4>2 DEF NextOrder, PlanOrder, SkipFullDay, PlaceQuantity, OrderPlaced,
                        PlanLate, GiveUp, EstimateDay, RecordLateConflict
      <4> QED
          BY <2>3, <4>1, <4>2 DEF Next, PlanOrders
    <3> QED
        BY <3>1
  <2> QED
      BY <1>2, <2>1, <2>2, <2>3
<1> QED
    BY <1>1, <1>2, PlanIsFollowed, PTL DEF Spec, ImplementsPlan, Promise!Spec
=============================================================================
