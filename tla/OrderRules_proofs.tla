-------------------------- MODULE OrderRules_proofs --------------------------
(***************************************************************************)
(* What the split of a plan into orders contains, and what the tables of a *)
(* store have afterwards, for every request.                               *)
(***************************************************************************)
EXTENDS OrderRules, SchedulePlan_proofs

(***************************************************************************)
(* Splitting                                                               *)
(***************************************************************************)
LEMMA NextPartType ==
    ASSUME NEW o \in Nat, NEW taken
    PROVE  \/ NextPart(o, taken) = NoPart
           \/ /\ NextPart(o, taken) \in o + 1 .. Original(o) + MaxParts
              /\ NextPart(o, taken) \notin taken
<1> DEFINE parts == (o + 1 .. Original(o) + MaxParts) \ taken
<1>1. Original(o) \in Int
      BY DEF Original
<1>2. CASE parts # {}
  <2>1. PICK n \in {p - o : p \in parts} : \A m \in {p - o : p \in parts} : n <= m
    <3> DEFINE T == {p - o : p \in parts}
    <3>1. T \subseteq Nat /\ T # {}
          BY <1>1, <1>2
    <3> HIDE DEF T
    <3>2. \E n \in T : \A m \in T : n <= m
          BY <3>1, LeastNumber
    <3> QED
        BY <3>2 DEF T
  <2>2. PICK p \in parts : n = p - o
        BY <2>1
  <2>3. \A x \in parts : x >= p
    <3>1. \A x \in parts : x \in Int
          BY <1>1
    <3>2. ASSUME NEW x \in parts
          PROVE  x >= p
      <4>1. n <= x - o
            BY <2>1
      <4> QED
          BY <2>2, <3>1, <4>1
    <3> QED
        BY <3>2
  <2>4. Min(parts) \in parts
        BY <2>3 DEF Min
  <2> QED
      BY <1>2, <2>4 DEF NextPart
<1>3. CASE parts = {}
      BY <1>3 DEF NextPart
<1> QED
    BY <1>2, <1>3

\* A part has the same original, and an id below those of the orders that follow.
LEMMA PartBelow ==
    ASSUME NEW o \in Nat, NEW n \in Nat, o < 10 * n,
           NEW part \in o + 1 .. Original(o) + MaxParts
    PROVE  part \in Nat \ {0} /\ part < 10 * n /\ Original(part) = Original(o)
<1> DEFINE tens == o \div 10
<1>1. o % 10 \in 0 .. 9 /\ o = 10 * tens + (o % 10) /\ tens \in Nat
      OBVIOUS
<1>2. tens <= n - 1
      BY <1>1
<1>3. Original(o) = 10 * tens
      BY <1>1 DEF Original
<1>4. part \in Nat /\ part \in 10 * tens + 1 .. 10 * tens + 9
      BY <1>1, <1>3 DEF MaxParts
<1> HIDE DEF tens
<1>5. part % 10 = part - 10 * tens
  <2>1. part \div 10 = tens
        BY <1>1, <1>4
  <2> QED
      BY <1>1, <1>4, <2>1
<1>6. Original(part) = 10 * tens
      BY <1>1, <1>4, <1>5 DEF Original
<1> QED
    BY <1>1, <1>2, <1>3, <1>4, <1>6

\* A part is never an order that a customer placed.
LEMMA PartIsNoOriginal ==
    ASSUME NEW o \in Nat, NEW part \in o + 1 .. Original(o) + MaxParts
    PROVE  part \in Nat /\ part % 10 # 0 /\ Original(part) = Original(o)
<1>1. o + 1 \in Nat /\ o < 10 * (o + 1)
      OBVIOUS
<1>2. part \in Nat /\ Original(part) = Original(o)
      BY <1>1, PartBelow
<1>3. o % 10 \in 0 .. 9
      OBVIOUS
<1>4. Original(o) \in Int /\ Original(o) <= o
      BY <1>3 DEF Original
<1>5. part > o
      BY <1>4 DEF MaxParts
<1>6. part % 10 = 0 => Original(part) = part
      BY <1>2 DEF Original
<1> QED
    BY <1>2, <1>4, <1>5, <1>6

LEMMA OwnOriginal == ASSUME NEW n \in Nat PROVE Original(10 * n) = 10 * n
BY DEF Original

NewId(orders, pieces, ids, i) ==
    IF FirstOfOrder(pieces, i) THEN pieces[i].order
    ELSE NextPart(pieces[i].order, DOMAIN orders \cup {ids[k] : k \in 1 .. i - 1})

\* The ids of a split are given out one after the other.
LEMMA IdsAreGivenOut ==
    ASSUME NEW orders, NEW X, NEW pieces \in Seq(X)
    PROVE  SplitIds(orders, pieces)
              = [i \in DOMAIN pieces |-> NewId(orders, pieces, SplitIds(orders, pieces), i)]
<1> DEFINE GivenOut(g, n) == g = [i \in 1 .. n |-> NewId(orders, pieces, g, i)]
           T == {n \in Nat : ~\E g : GivenOut(g, n)}
<1>1. \A n \in Nat : \E g : GivenOut(g, n)
  <2> SUFFICES ASSUME T # {} PROVE FALSE
      OBVIOUS
  <2>1. PICK n \in T : \A m \in T : n <= m
    <3>1. T \subseteq Nat
          OBVIOUS
    <3> HIDE DEF T
    <3> QED
        BY <3>1, LeastNumber
  <2>2. n # 0
    <3>1. GivenOut([i \in {} |-> 0], 0)
          OBVIOUS
    <3> QED
        BY <2>1, <3>1
  <2>3. n \in Nat /\ n - 1 \in Nat /\ ~(n <= n - 1)
        BY <2>1, <2>2
  <2>4. PICK g : GivenOut(g, n - 1)
        BY <2>1, <2>3
  <2> DEFINE h == [i \in 1 .. n |-> NewId(orders, pieces, g, i)]
  <2>5. ASSUME NEW i \in 1 .. n
        PROVE  NewId(orders, pieces, h, i) = NewId(orders, pieces, g, i)
    <3>1. \A k \in 1 .. i - 1 : k \in 1 .. n - 1 /\ k \in 1 .. n
          BY <2>3
    <3>2. \A k \in 1 .. i - 1 : h[k] = g[k]
      <4> SUFFICES ASSUME NEW k \in 1 .. i - 1 PROVE h[k] = g[k]
          OBVIOUS
      <4>1. g[k] = NewId(orders, pieces, g, k)
            BY <2>4, <3>1
      <4>2. h[k] = NewId(orders, pieces, g, k)
            BY <3>1
      <4> QED
          BY <4>1, <4>2
    <3>3. {h[k] : k \in 1 .. i - 1} = {g[k] : k \in 1 .. i - 1}
          BY <3>2
    <3> HIDE DEF h
    <3> QED
        BY <3>3 DEF NewId
  <2>6. GivenOut(h, n)
        BY <2>5
  <2> QED
      BY <2>1, <2>6
<1> DEFINE f == CHOOSE g : g = [i \in DOMAIN pieces |-> NewId(orders, pieces, g, i)]
<1>2. \E g : g = [i \in DOMAIN pieces |-> NewId(orders, pieces, g, i)]
  <2>1. DOMAIN pieces = 1 .. Len(pieces) /\ Len(pieces) \in Nat
        OBVIOUS
  <2> QED
      BY <1>1, <2>1
<1>3. f = [i \in DOMAIN pieces |-> NewId(orders, pieces, f, i)]
      BY <1>2
<1>4. SplitIds(orders, pieces) = f
      BY DEF SplitIds, NewId
<1> HIDE DEF f
<1> QED
    BY <1>3, <1>4

\* No two pieces have an id in common, the first piece of an order has the order's,
\* and each other piece an id of the order's parts that is new.
SplitOf(orders, pieces, split) ==
    /\ DOMAIN split = DOMAIN pieces
    /\ \A i \in DOMAIN split :
          LET o == pieces[i].order IN
          /\ split[i].day = pieces[i].day /\ split[i].quantity = pieces[i].quantity
          /\ split[i].locked = pieces[i].locked
          /\ \/ split[i].source = 0 /\ split[i].order = o
             \/ /\ split[i].source = o /\ split[i].order \notin DOMAIN orders
                /\ split[i].order \in o + 1 .. Original(o) + MaxParts
    /\ \A i, k \in DOMAIN split : split[i].order = split[k].order => i = k

LEMMA PiecesSplit ==
    ASSUME NEW orders, DOMAIN orders \subseteq Nat, NEW pieces \in Seq(PlanPiece),
           \A i \in DOMAIN pieces : pieces[i].order \in DOMAIN orders,
           PartsSuffice(Split(orders, pieces))
    PROVE  SplitOf(orders, pieces, Split(orders, pieces))
<1> DEFINE ids == SplitIds(orders, pieces)
           split == Split(orders, pieces)
           Taken(i) == DOMAIN orders \cup {ids[k] : k \in 1 .. i - 1}
<1>1. ids = [i \in DOMAIN pieces |-> NewId(orders, pieces, ids, i)]
      BY IdsAreGivenOut
<1>2. /\ DOMAIN split = DOMAIN pieces
      /\ \A i \in DOMAIN pieces :
            /\ split[i].order = ids[i] /\ split[i].day = pieces[i].day
            /\ split[i].quantity = pieces[i].quantity /\ split[i].locked = pieces[i].locked
            /\ split[i].source = IF FirstOfOrder(pieces, i) THEN 0 ELSE pieces[i].order
      BY DEF Split
<1> HIDE DEF ids, split
<1>3. ASSUME NEW i \in DOMAIN pieces
      PROVE  IF FirstOfOrder(pieces, i) THEN ids[i] = pieces[i].order
             ELSE /\ ids[i] \notin Taken(i)
                  /\ ids[i] \in pieces[i].order + 1 .. Original(pieces[i].order) + MaxParts
  <2>1. ids[i] = NewId(orders, pieces, ids, i)
        BY <1>1
  <2>2. ids[i] # NoPart
        BY <1>2 DEF PartsSuffice, split
  <2>3. pieces[i].order \in Nat
        OBVIOUS
  <2> QED
      BY <2>1, <2>2, <2>3, NextPartType DEF NewId
<1>4. ASSUME NEW i \in DOMAIN pieces, NEW k \in DOMAIN pieces, i < k
      PROVE  ids[i] # ids[k]
  <2>1. i \in 1 .. k - 1
    <3>1. DOMAIN pieces = 1 .. Len(pieces) /\ Len(pieces) \in Nat
          OBVIOUS
    <3> QED
        BY <1>4, <3>1
  <2>2. CASE ~FirstOfOrder(pieces, k)
        BY <1>3, <2>1, <2>2
  <2>3. CASE FirstOfOrder(pieces, k)
    <3>1. ids[k] = pieces[k].order /\ ids[k] \in DOMAIN orders
          BY <1>3, <2>3
    <3>2. pieces[i].order # pieces[k].order
          BY <2>1, <2>3 DEF FirstOfOrder
    <3> QED
        BY <1>3, <3>1, <3>2
  <2> QED
      BY <2>2, <2>3
<1>5. \A i, k \in DOMAIN pieces : ids[i] = ids[k] => i = k
  <2>1. DOMAIN pieces \subseteq Nat
        OBVIOUS
  <2>2. \A i, k \in DOMAIN pieces : i < k \/ k < i \/ i = k
        BY <2>1
  <2> QED
      BY <1>4, <2>2
<1>6. SplitOf(orders, pieces, split)
      BY <1>2, <1>3, <1>5 DEF SplitOf
<1> QED
    BY <1>6 DEF split

\* The order that a piece of a split is a piece of.
Origin(piece) == IF piece.source = 0 THEN piece.order ELSE piece.source

\* A split fits a table of orders when its parts are new ids, each of its own.
WellSplit(orders, split) ==
    /\ \A i \in DOMAIN split :
          /\ Origin(split[i]) \in DOMAIN orders
          /\ split[i].source # 0 =>
                /\ split[i].order \notin DOMAIN orders
                /\ split[i].order \in
                      split[i].source + 1 .. Original(split[i].source) + MaxParts
    /\ \A i, k \in DOMAIN split : split[i].order = split[k].order => i = k

LEMMA SplitFits ==
    ASSUME NEW orders, DOMAIN orders \subseteq Nat \ {0}, NEW pieces \in Seq(PlanPiece),
           \A i \in DOMAIN pieces : pieces[i].order \in DOMAIN orders,
           PartsSuffice(Split(orders, pieces))
    PROVE  LET split == Split(orders, pieces) IN
           /\ WellSplit(orders, split)
           /\ DOMAIN split = DOMAIN pieces
           /\ \A i \in DOMAIN split :
                 /\ Origin(split[i]) = pieces[i].order
                 /\ split[i].day = pieces[i].day /\ split[i].quantity = pieces[i].quantity
                 /\ split[i].locked = pieces[i].locked
<1> DEFINE split == Split(orders, pieces)
<1>1. SplitOf(orders, pieces, split)
      BY PiecesSplit
<1> HIDE DEF split
<1>2. \A i \in DOMAIN pieces : pieces[i].order # 0
      OBVIOUS
<1>3. \A i \in DOMAIN split : Origin(split[i]) = pieces[i].order
      BY <1>1, <1>2 DEF SplitOf, Origin
<1>4. WellSplit(orders, split)
      BY <1>1, <1>2, <1>3 DEF SplitOf, WellSplit
<1> QED
    BY <1>1, <1>3, <1>4 DEF SplitOf, split

\* A load is of what is on the line that day.
LEMMA SameLoad ==
    ASSUME NEW all, NEW other, NEW l, NEW d, IsFiniteSet(all),
           {a \in all : a.line = l /\ a.day = d} = {a \in other : a.line = l /\ a.day = d}
    PROVE  Load(all, l, d) = Load(other, l, d)
<1> DEFINE f == [a \in all |-> a.quantity]
           g == [a \in other |-> a.quantity]
           S == {a \in all : a.line = l /\ a.day = d}
<1>1. IsFiniteSet(S) /\ \A a \in S : a \in all /\ a \in other
      BY FS_Subset
<1>2. \A a \in S : f[a] = g[a]
      BY <1>1
<1> HIDE DEF f, g, S
<1>3. SumFunctionOnSet(f, S) = SumFunctionOnSet(g, S)
      BY <1>1, <1>2, SumCongruent
<1> QED
    BY <1>3 DEF Load, f, g, S

(***************************************************************************)
(* What a request plans and splits                                         *)
(***************************************************************************)
IsOrderTable(orders) ==
    /\ DOMAIN orders \subseteq Nat \ {0} /\ IsFiniteSet(DOMAIN orders)
    /\ \A o \in DOMAIN orders :
          /\ orders[o].quantity \in Nat \ {0} /\ orders[o].high \in BOOLEAN
          /\ orders[o].due \in Int /\ orders[o].createdAt \in Int

IsCalendar(allocations) ==
    /\ IsFiniteSet(allocations)
    /\ \A a \in allocations : a.day \in Int /\ a.quantity \in Nat

IsRequest(req) ==
    /\ req.line \in DOMAIN Capacity /\ req.start \in Int
    /\ req.manualForce \in BOOLEAN /\ req.allowLate \in BOOLEAN

\* The pieces are of selected orders, none larger than its order, with its priority.
PiecesFit(orders, req, split) ==
    /\ WellSplit(orders, split) /\ IsFiniteSet(DOMAIN split)
    /\ \A i \in DOMAIN split :
          /\ Origin(split[i]) \in Selected(orders, req)
          /\ split[i].day \in Int
          /\ split[i].quantity \in 1 .. orders[Origin(split[i])].quantity
          /\ split[i].locked = orders[Origin(split[i])].high

\* A request that is planned on tables of the right types is one that Plan takes.
LEMMA RequestType ==
    ASSUME RulesAssumption, NEW inputs, NEW allocations, NEW req,
           req.line \in DOMAIN Capacity, req.start \in Int,
           req.manualForce \in BOOLEAN, req.allowLate \in BOOLEAN,
           IsFiniteSet(allocations),
           \A a \in allocations : a.day \in Int /\ a.quantity \in Nat,
           DOMAIN inputs \in SUBSET Nat, IsFiniteSet(DOMAIN inputs),
           \A o \in DOMAIN inputs :
              /\ inputs[o].quantity \in Nat \ {0} /\ inputs[o].high \in BOOLEAN
              /\ inputs[o].due \in Int /\ inputs[o].createdAt \in Int
    PROVE  /\ IsPlanRequest(PlanRequest(inputs, allocations, req))
           /\ PlanRequest(inputs, allocations, req).orders = inputs
<1> DEFINE r == PlanRequest(inputs, allocations, req)
           kept == {a \in allocations : a.order \notin req.resolution}
<1>1. /\ r.capacity = Capacity[req.line] /\ r.start = req.start /\ r.currentDate = Today
      /\ r.manualForce = req.manualForce /\ r.allowLate = req.allowLate
      /\ r.existing = Listed(kept) /\ r.orders = inputs
      BY DEF PlanRequest
<1> HIDE DEF r
<1>2. DOMAIN r.existing = kept /\ \A a \in kept : r.existing[a] = a
      BY <1>1 DEF Listed
<1>3. IsFiniteSet(kept)
      BY FS_Subset
<1>4. \A k \in DOMAIN r.existing :
          r.existing[k].day \in Int /\ r.existing[k].quantity \in Nat
      BY <1>2
<1>5. r.capacity \in Nat \ {0} /\ r.currentDate \in Int
      BY <1>1 DEF RulesAssumption
<1>6. IsPlanRequest(r)
      BY <1>1, <1>2, <1>3, <1>4, <1>5 DEF IsPlanRequest
<1> QED
    BY <1>1, <1>6 DEF r

\* The first piece of an order keeps the id.
LEMMA FirstPiece ==
    ASSUME NEW orders, NEW pieces \in Seq(PlanPiece), NEW j \in DOMAIN pieces,
           NEW split, split = Split(orders, pieces)
    PROVE  \E i \in DOMAIN split : split[i].source = 0 /\ split[i].order = pieces[j].order
<1> DEFINE T == {i \in DOMAIN pieces : pieces[i].order = pieces[j].order}
<1>1. DOMAIN pieces = 1 .. Len(pieces) /\ Len(pieces) \in Nat
      OBVIOUS
<1>2. PICK i \in T : \A k \in T : i <= k
  <2>1. T \subseteq Nat /\ T # {}
        BY <1>1
  <2> HIDE DEF T
  <2> QED
      BY <2>1, LeastNumber
<1>3. FirstOfOrder(pieces, i)
  <2> SUFFICES ASSUME NEW k \in 1 .. i - 1
               PROVE  pieces[k].order # pieces[i].order
      BY DEF FirstOfOrder
  <2>1. k \in DOMAIN pieces /\ ~(i <= k)
        BY <1>1
  <2> QED
      BY <1>2, <2>1
<1> DEFINE ids == SplitIds(orders, pieces)
<1>4. ids[i] = pieces[i].order
  <2>1. ids = [k \in DOMAIN pieces |-> NewId(orders, pieces, ids, k)]
        BY IdsAreGivenOut
  <2>2. i \in DOMAIN pieces
        OBVIOUS
  <2> HIDE DEF ids, T
  <2>3. ids[i] = NewId(orders, pieces, ids, i)
        BY <2>1, <2>2
  <2> QED
      BY <1>3, <2>3 DEF NewId
<1> HIDE DEF T
<1>5. i \in DOMAIN split /\ split[i].source = 0 /\ split[i].order = pieces[i].order
      BY <1>3, <1>4 DEF Split, T
<1> QED
    BY <1>5 DEF T

\* Every selected order is planned: a piece keeps its id, and its pieces have all its
\* wafers.
WholePlanned(orders, req, split) ==
    \A o \in Selected(orders, req) :
        /\ \E i \in DOMAIN split : split[i].source = 0 /\ split[i].order = o
        /\ Wafers(split, {i \in DOMAIN split : Origin(split[i]) = o}) = orders[o].quantity

\* A day with a piece has, with the allocations that stay, no more than the line can
\* make.
RoomLeft(allocations, req, split) ==
    \A i \in DOMAIN split :
        Wafers(split, OnDay(split, split[i].day))
           + Load({a \in allocations : a.order \notin req.resolution}, req.line, split[i].day)
              <= Capacity[req.line]

LEMMA SplitOfPlan ==
    ASSUME RulesAssumption, NEW orders, IsOrderTable(orders),
           NEW allocations, IsCalendar(allocations), NEW req, IsRequest(req),
           NEW plan, plan = Plan(PlanRequest(OrderInputs(orders, req), allocations, req)),
           NEW split, split = Split(orders, plan.allocations), PartsSuffice(split)
    PROVE  /\ PiecesFit(orders, req, split)
           /\ NobodyLate(plan.conflicts) => WholePlanned(orders, req, split)
           /\ ~req.manualForce => RoomLeft(allocations, req, split)
<1> DEFINE inputs == OrderInputs(orders, req)
           r == PlanRequest(inputs, allocations, req)
           pieces == plan.allocations
           kept == {a \in allocations : a.order \notin req.resolution}
<1>1. /\ DOMAIN orders \subseteq Nat \ {0} /\ IsFiniteSet(DOMAIN orders)
      /\ \A o \in DOMAIN orders :
            /\ orders[o].quantity \in Nat \ {0} /\ orders[o].high \in BOOLEAN
            /\ orders[o].due \in Int /\ orders[o].createdAt \in Int
      BY DEF IsOrderTable
<1>2. Selected(orders, req) \subseteq DOMAIN orders
      BY DEF Selected
<1>3. /\ DOMAIN inputs = Selected(orders, req)
      /\ \A o \in DOMAIN inputs :
            /\ inputs[o].quantity = orders[o].quantity /\ inputs[o].high = orders[o].high
            /\ inputs[o].due = orders[o].due /\ inputs[o].createdAt = orders[o].createdAt
      BY DEF OrderInputs, Input
<1>4. IsPlanRequest(r) /\ r.orders = inputs
  <2>1. DOMAIN inputs \in SUBSET Nat /\ IsFiniteSet(DOMAIN inputs)
        BY <1>1, <1>2, <1>3, FS_Subset
  <2>2. \A o \in DOMAIN inputs :
            /\ inputs[o].quantity \in Nat \ {0} /\ inputs[o].high \in BOOLEAN
            /\ inputs[o].due \in Int /\ inputs[o].createdAt \in Int
        BY <1>1, <1>2, <1>3
  <2> HIDE DEF inputs
  <2> QED
      BY <2>1, <2>2, RequestType DEF IsCalendar, IsRequest
<1>12. /\ r.line = req.line /\ r.capacity = Capacity[req.line]
       /\ r.manualForce = req.manualForce /\ r.existing = Listed(kept)
       BY DEF PlanRequest
<1>13. plan = Plan(r)
       OBVIOUS
<1> HIDE DEF inputs, r
<1>5. Plan(r) \in Plans(r) /\ PiecesAreOf(r, DOMAIN inputs, pieces)
      BY <1>4, <1>13, PiecesPlanned
<1>6. pieces \in Seq(PlanPiece)
      BY <1>5, <1>13 DEF Plans
<1> HIDE DEF pieces
<1>7. ASSUME NEW i \in DOMAIN pieces
      PROVE  /\ pieces[i].order \in Selected(orders, req)
             /\ pieces[i].day \in Int
             /\ pieces[i].quantity \in 1 .. orders[pieces[i].order].quantity
             /\ pieces[i].locked = orders[pieces[i].order].high
  <2>1. /\ pieces[i].order \in DOMAIN inputs
        /\ pieces[i].quantity <= inputs[pieces[i].order].quantity
        /\ pieces[i].locked = inputs[pieces[i].order].high
        BY <1>4, <1>5 DEF PiecesAreOf
  <2>2. pieces[i].day \in Int /\ pieces[i].quantity \in Nat \ {0}
        BY <1>6, PieceType
  <2>3. /\ inputs[pieces[i].order].quantity = orders[pieces[i].order].quantity
        /\ inputs[pieces[i].order].high = orders[pieces[i].order].high
        BY <1>3, <2>1
  <2>4. orders[pieces[i].order].quantity \in Nat
        BY <1>1, <1>2, <1>3, <2>1
  <2> QED
      BY <1>3, <2>1, <2>2, <2>3, <2>4
<1>8. split = Split(orders, pieces)
      BY DEF pieces
<1>9. /\ WellSplit(orders, split)
      /\ DOMAIN split = DOMAIN pieces
      /\ \A i \in DOMAIN split :
            /\ Origin(split[i]) = pieces[i].order
            /\ split[i].day = pieces[i].day /\ split[i].quantity = pieces[i].quantity
            /\ split[i].locked = pieces[i].locked
  <2>1. \A i \in DOMAIN pieces : pieces[i].order \in DOMAIN orders
        BY <1>2, <1>7
  <2>2. PartsSuffice(Split(orders, pieces))
        BY <1>8
  <2> QED
      BY <1>1, <1>6, <1>8, <2>1, <2>2, SplitFits
<1>10. IsFiniteSet(DOMAIN split)
      BY <1>6, <1>9, PieceType
<1>11. \A i \in DOMAIN split :
          /\ Origin(split[i]) \in Selected(orders, req)
          /\ split[i].day \in Int
          /\ split[i].quantity \in 1 .. orders[Origin(split[i])].quantity
          /\ split[i].locked = orders[Origin(split[i])].high
      BY <1>7, <1>9
<1>14. PiecesFit(orders, req, split)
      BY <1>9, <1>10, <1>11 DEF PiecesFit
<1> DEFINE f == [i \in DOMAIN split |-> split[i].quantity]
           g == [i \in DOMAIN pieces |-> pieces[i].quantity]
<1>15. f = g
       BY <1>9
<1>16. \A I : Wafers(split, I) = Wafers(pieces, I)
       BY <1>15 DEF Wafers
<1>17. ASSUME NobodyLate(plan.conflicts)
       PROVE  WholePlanned(orders, req, split)
  <2>1. PiecesComplete(r, DOMAIN inputs, pieces)
        BY <1>4, <1>13, <1>17, PlanComplete DEF pieces
  <2>2. ASSUME NEW o \in Selected(orders, req)
        PROVE  /\ \E i \in DOMAIN split : split[i].source = 0 /\ split[i].order = o
               /\ Wafers(split, {i \in DOMAIN split : Origin(split[i]) = o})
                     = orders[o].quantity
    <3> DEFINE I == {i \in DOMAIN pieces : pieces[i].order = o}
    <3>1. {i \in DOMAIN split : Origin(split[i]) = o} = I
          BY <1>9
    <3>2. Wafers(pieces, I) = r.orders[o].quantity
          BY <1>3, <2>1 DEF PiecesComplete
    <3>3. r.orders[o].quantity = orders[o].quantity /\ orders[o].quantity \in Nat \ {0}
          BY <1>1, <1>2, <1>3, <1>4
    <3>4. I # {}
          BY <3>2, <3>3, NoWafers
    <3>5. \E i \in DOMAIN split : split[i].source = 0 /\ split[i].order = o
          BY <1>6, <1>8, <3>4, FirstPiece
    <3> HIDE DEF I
    <3> QED
        BY <1>16, <3>1, <3>2, <3>3, <3>5
  <2> QED
      BY <2>2 DEF WholePlanned
<1>18. ASSUME ~req.manualForce
       PROVE  RoomLeft(allocations, req, split)
  <2>1. PiecesHaveRoom(r, pieces)
        BY <1>4, <1>13, PlanHasRoom DEF pieces
  <2>2. ASSUME NEW i \in DOMAIN split
        PROVE  Wafers(split, OnDay(split, split[i].day)) + Load(kept, req.line, split[i].day)
                  <= Capacity[req.line]
    <3> DEFINE d == split[i].day
    <3>1. UsedOn(r, pieces, d) <= Capacity[req.line]
          BY <1>9, <1>12, <2>1 DEF PiecesHaveRoom
    <3>2. Wafers(r.existing, ExistingOn(r, d)) = Load(kept, req.line, d)
      <4>1. DOMAIN r.existing = kept /\ \A a \in kept : r.existing[a] = a
            BY <1>12 DEF Listed
      <4>2. ExistingOn(r, d) = {a \in kept : a.line = req.line /\ a.day = d}
            BY <1>12, <4>1 DEF ExistingOn, ExistingOfLine
      <4>3. [a \in DOMAIN r.existing |-> r.existing[a].quantity] = [a \in kept |-> a.quantity]
            BY <4>1
      <4> QED
          BY <4>2, <4>3 DEF Wafers, Load
    <3>3. OnDay(split, d) = {k \in DOMAIN pieces : pieces[k].day = d}
          BY <1>9 DEF OnDay
    <3>4. UsedOn(r, pieces, d)
             = Wafers(pieces, {k \in DOMAIN pieces : pieces[k].day = d})
                  + Wafers(r.existing, ExistingOn(r, d))
          BY <1>12, <1>18 DEF UsedOn
    <3> QED
        BY <1>16, <3>1, <3>2, <3>3, <3>4
  <2> QED
      BY <2>2 DEF RoomLeft
<1> QED
    BY <1>14, <1>17, <1>18

(***************************************************************************)
(* The tables after a plan                                                 *)
(***************************************************************************)
\* A row as its piece says.
AsPlanned(orders, piece, resized, now, row) ==
    IF piece.source = 0
    THEN row = [orders[piece.order] EXCEPT
                   !.quantity = IF piece.order \in resized THEN piece.quantity ELSE @,
                   !.status = IF @ = "pending" THEN "scheduled" ELSE @]
    ELSE row = [orders[piece.source] EXCEPT
                   !.quantity = piece.quantity, !.status = "scheduled",
                   !.source = piece.source, !.createdAt = now]

\* The piece of an id, and which ids are those of orders.
LEMMA PieceFound ==
    ASSUME NEW orders, NEW split, WellSplit(orders, split), 0 \notin DOMAIN orders,
           NEW i \in DOMAIN split
    PROVE  /\ PieceOf(split, split[i].order) = split[i]
           /\ split[i].source = 0 <=> split[i].order \in DOMAIN orders
           /\ split[i].order \in PlannedOrders(split)
           /\ split[i].source # 0 <=> split[i].order \in Parts(split)
<1>1. PieceOf(split, split[i].order) = split[i]
      BY DEF WellSplit, PieceOf
<1>2. split[i].source = 0 <=> split[i].order \in DOMAIN orders
      BY DEF WellSplit, Origin
<1>3. split[i].source # 0 <=> split[i].order \in Parts(split)
      BY DEF WellSplit, Parts
<1> QED
    BY <1>1, <1>2, <1>3 DEF PlannedOrders

\* The orders are those before and the parts, and who has no piece is as before.
OthersKept(orders, planned, split) ==
    /\ DOMAIN planned = DOMAIN orders \cup Parts(split)
    /\ Parts(split) = PlannedOrders(split) \ DOMAIN orders
    /\ \A o \in DOMAIN orders \ PlannedOrders(split) : planned[o] = orders[o]

LEMMA OrdersAfterPlan ==
    ASSUME NEW orders, NEW split, WellSplit(orders, split), 0 \notin DOMAIN orders,
           NEW resized, NEW now,
           NEW planned, planned = OrdersPlanned(orders, split, resized, now)
    PROVE  OthersKept(orders, planned, split)
<1>1. Parts(split) = PlannedOrders(split) \ DOMAIN orders
      BY PieceFound DEF Parts, PlannedOrders
<1>2. DOMAIN planned = DOMAIN orders \cup Parts(split)
      BY DEF OrdersPlanned
<1>3. \A o \in DOMAIN orders \ PlannedOrders(split) : planned[o] = orders[o]
      BY DEF OrdersPlanned
<1> QED
    BY <1>1, <1>2, <1>3 DEF OthersKept

\* Who has a piece is as it says.
LEMMA RowsAfterPlan ==
    ASSUME NEW orders, NEW split, WellSplit(orders, split), 0 \notin DOMAIN orders,
           NEW resized, NEW now, NEW i \in DOMAIN split
    PROVE  AsPlanned(orders, split[i], resized, now,
                     OrdersPlanned(orders, split, resized, now)[split[i].order])
<1>1. /\ PieceOf(split, split[i].order) = split[i]
      /\ split[i].source = 0 <=> split[i].order \in DOMAIN orders
      /\ split[i].order \in PlannedOrders(split)
      /\ split[i].source # 0 <=> split[i].order \in Parts(split)
      BY PieceFound
<1> QED
    BY <1>1 DEF OrdersPlanned, AsPlanned

\* The row of a piece.
Placed(piece, line) ==
    [order |-> piece.order, line |-> line, day |-> piece.day, quantity |-> piece.quantity,
     high |-> piece.locked, locked |-> piece.locked, status |-> "scheduled"]

\* The allocations of an order are as they were, or its piece and those that are done.
LEMMA AllocationsAfterPlan ==
    ASSUME NEW orders, NEW split, WellSplit(orders, split), NEW allocations, NEW line,
           NEW planned, planned = AllocationsPlanned(allocations, split, line)
    PROVE  /\ \A o : o \notin PlannedOrders(split) => Of(planned, o) = Of(allocations, o)
           /\ \A i \in DOMAIN split :
                 Of(planned, split[i].order)
                    = (Of(allocations, split[i].order) \ OpenOf(allocations, split[i].order))
                         \cup {Placed(split[i], line)}
           /\ planned \subseteq allocations \cup {Placed(split[i], line) : i \in DOMAIN split}
<1> DEFINE new == {Placed(split[i], line) : i \in DOMAIN split}
           open == UNION {OpenOf(allocations, o) : o \in PlannedOrders(split)}
<1>1. planned = (allocations \ open) \cup new
      BY DEF AllocationsPlanned, Placed
<1>2. \A i \in DOMAIN split : Placed(split[i], line).order = split[i].order
      BY DEF Placed
<1>3. \A o : Of(open, o) = IF o \in PlannedOrders(split) THEN OpenOf(allocations, o) ELSE {}
      BY DEF Of, OpenOf
<1>4. ASSUME NEW o, o \notin PlannedOrders(split)
      PROVE  Of(planned, o) = Of(allocations, o)
  <2>1. Of(new, o) = {}
        BY <1>2, <1>4 DEF Of, PlannedOrders
  <2>2. Of(open, o) = {}
        BY <1>3, <1>4
  <2> QED
      BY <1>1, <2>1, <2>2 DEF Of
<1>5. ASSUME NEW i \in DOMAIN split
      PROVE  Of(planned, split[i].order)
                = (Of(allocations, split[i].order) \ OpenOf(allocations, split[i].order))
                     \cup {Placed(split[i], line)}
  <2>1. Of(new, split[i].order) = {Placed(split[i], line)}
        BY <1>2 DEF Of, WellSplit
  <2>2. Of(open, split[i].order) = OpenOf(allocations, split[i].order)
        BY <1>3 DEF PlannedOrders
  <2> HIDE DEF new, open
  <2> QED
      BY <1>1, <2>1, <2>2 DEF Of
<1> QED
    BY <1>1, <1>4, <1>5

(***************************************************************************)
(* Loads                                                                   *)
(***************************************************************************)
\* What a line makes on a day, of all that there is.
OnLineDay(all, l, d) == {a \in all : a.line = l /\ a.day = d}

LEMMA LoadType ==
    ASSUME NEW all, IsCalendar(all), NEW l, NEW d
    PROVE  /\ Load(all, l, d) \in Nat
           /\ IsFiniteSet(OnLineDay(all, l, d)) /\ OnLineDay(all, l, d) \in SUBSET all
           /\ Load(all, l, d) = SumFunctionOnSet([a \in all |-> a.quantity], OnLineDay(all, l, d))
<1> DEFINE f == [a \in all |-> a.quantity]
           S == OnLineDay(all, l, d)
<1>1. IsFiniteSet(S) /\ S \in SUBSET all
      BY FS_Subset DEF IsCalendar, OnLineDay
<1>2. \A a \in S : f[a] \in Nat
      BY <1>1 DEF IsCalendar
<1>3. Load(all, l, d) = SumFunctionOnSet(f, S)
      BY DEF Load, OnLineDay
<1> HIDE DEF f, S
<1>4. SumFunctionOnSet(f, S) \in Nat
      BY <1>1, <1>2, SumType
<1> QED
    BY <1>1, <1>3, <1>4 DEF f, S

\* Fewer allocations of a day are no more load.
LEMMA LoadOfFewer ==
    ASSUME NEW all, IsCalendar(all), NEW other, NEW l, NEW d,
           OnLineDay(other, l, d) \subseteq OnLineDay(all, l, d)
    PROVE  Load(other, l, d) <= Load(all, l, d)
<1> DEFINE f == [a \in all |-> a.quantity]
           g == [a \in other |-> a.quantity]
           S == OnLineDay(all, l, d)
           U == OnLineDay(other, l, d)
<1>1. /\ IsFiniteSet(S) /\ S \in SUBSET all
      /\ Load(all, l, d) = SumFunctionOnSet(f, S)
      BY LoadType
<1>2. \A a \in S : f[a] \in Nat
      BY <1>1 DEF IsCalendar
<1>3. IsFiniteSet(U) /\ U \in SUBSET S
      BY <1>1, FS_Subset
<1>4. \A a \in U : g[a] = f[a]
      BY <1>1 DEF OnLineDay
<1>5. Load(other, l, d) = SumFunctionOnSet(g, U)
      BY DEF Load, OnLineDay
<1> HIDE DEF f, g, S, U
<1>6. SumFunctionOnSet(g, U) = SumFunctionOnSet(f, U)
      BY <1>3, <1>4, SumCongruent
<1>7. SumFunctionOnSet(f, U) <= SumFunctionOnSet(f, S)
      BY <1>1, <1>2, <1>3, SumSubset
<1> QED
    BY <1>1, <1>5, <1>6, <1>7

\* Two calendars in one are no more load than both.
LEMMA LoadOfBoth ==
    ASSUME NEW A, IsCalendar(A), NEW B, IsCalendar(B), NEW all, all = A \cup B,
           NEW l, NEW d
    PROVE  Load(all, l, d) <= Load(A, l, d) + Load(B, l, d)
<1> DEFINE f == [a \in all |-> a.quantity]
           S == OnLineDay(all, l, d)
           U == OnLineDay(A, l, d)
           V == OnLineDay(B, l, d)
<1>1. IsFiniteSet(A \cup B)
      BY FS_Union DEF IsCalendar
<1>2. IsCalendar(all)
      BY <1>1 DEF IsCalendar
<1>3. /\ IsFiniteSet(U) /\ IsFiniteSet(V) /\ U \subseteq all /\ V \subseteq all
      /\ Load(A, l, d) = SumFunctionOnSet([a \in A |-> a.quantity], U)
      /\ Load(B, l, d) = SumFunctionOnSet([a \in B |-> a.quantity], V)
      /\ Load(all, l, d) = SumFunctionOnSet(f, S)
      BY <1>2, LoadType
<1>4. S = U \cup V
      BY DEF OnLineDay
<1>5. \A a \in U \cup V : f[a] \in Nat
      BY <1>2, <1>3 DEF IsCalendar
<1>6. SumFunctionOnSet(f, U) = Load(A, l, d)
  <2> DEFINE g == [a \in A |-> a.quantity]
  <2>1. \A a \in U : f[a] = g[a]
        BY <1>3 DEF OnLineDay
  <2> HIDE DEF f, g, U
  <2>2. SumFunctionOnSet(f, U) = SumFunctionOnSet(g, U)
        BY <1>3, <2>1, SumCongruent
  <2> QED
      BY <1>3, <2>2 DEF g
<1>7. SumFunctionOnSet(f, V) = Load(B, l, d)
  <2> DEFINE g == [a \in B |-> a.quantity]
  <2>1. \A a \in V : f[a] = g[a]
        BY <1>3 DEF OnLineDay
  <2> HIDE DEF f, g, V
  <2>2. SumFunctionOnSet(f, V) = SumFunctionOnSet(g, V)
        BY <1>3, <2>1, SumCongruent
  <2> QED
      BY <1>3, <2>2 DEF g
<1> HIDE DEF f, S, U, V
<1>8. SumFunctionOnSet(f, S) <= SumFunctionOnSet(f, U) + SumFunctionOnSet(f, V)
      BY <1>3, <1>4, <1>5, SumUnionAtMost
<1> QED
    BY <1>3, <1>6, <1>7, <1>8

\* h changes allocations, but not where and when they are, or how many wafers.
KeepsPlace(h, all) ==
    \A a \in all : h[a].line = a.line /\ h[a].day = a.day /\ h[a].quantity = a.quantity

LEMMA LoadOfChanged ==
    ASSUME NEW all, IsCalendar(all), NEW h, KeepsPlace(h, all),
           NEW other, other = {h[a] : a \in all}, NEW l, NEW d
    PROVE  Load(other, l, d) <= Load(all, l, d)
<1> DEFINE f == [a \in all |-> a.quantity]
           g == [a \in other |-> a.quantity]
           S == OnLineDay(all, l, d)
<1>1. /\ IsFiniteSet(S) /\ S \in SUBSET all
      /\ Load(all, l, d) = SumFunctionOnSet(f, S)
      BY LoadType
<1>2. \A a \in S : f[a] \in Nat /\ g[h[a]] = f[a]
      BY <1>1 DEF IsCalendar, KeepsPlace
<1>3. OnLineDay(other, l, d) = {h[a] : a \in S}
      BY DEF OnLineDay, KeepsPlace
<1>4. Load(other, l, d) = SumFunctionOnSet(g, OnLineDay(other, l, d))
      BY DEF Load, OnLineDay
<1> HIDE DEF f, g, S
<1>5. SumFunctionOnSet(g, {h[a] : a \in S}) <= SumFunctionOnSet(f, S)
      BY <1>1, <1>2, SumImageAtMost
<1> QED
    BY <1>1, <1>3, <1>4, <1>5

\* The rows of a schedule are no more load than its pieces.
LEMMA LoadOfPieces ==
    ASSUME NEW split, IsFiniteSet(DOMAIN split),
           \A i \in DOMAIN split : split[i].quantity \in Nat,
           NEW line, NEW rows, rows = {Placed(split[i], line) : i \in DOMAIN split}, NEW d
    PROVE  Load(rows, line, d) <= Wafers(split, OnDay(split, d))
<1> DEFINE f == [i \in DOMAIN split |-> split[i].quantity]
           h == [i \in DOMAIN split |-> Placed(split[i], line)]
           g == [a \in rows |-> a.quantity]
           S == OnDay(split, d)
<1>1. /\ IsFiniteSet(S) /\ \A i \in S : i \in DOMAIN split
      BY FS_Subset DEF OnDay
<1>2. \A i \in DOMAIN split : /\ h[i] \in rows /\ h[i].quantity = split[i].quantity
                              /\ h[i].line = line /\ h[i].day = split[i].day
      BY DEF Placed
<1>3. \A i \in S : f[i] \in Nat /\ g[h[i]] = f[i]
      BY <1>1, <1>2
<1>4. OnLineDay(rows, line, d) = {h[i] : i \in S}
  <2>1. \A a : a \in rows <=> \E i \in DOMAIN split : a = h[i]
        OBVIOUS
  <2>2. \A i : i \in S <=> i \in DOMAIN split /\ split[i].day = d
        BY DEF OnDay
  <2>3. \A a : a \in OnLineDay(rows, line, d) <=> a \in rows /\ a.line = line /\ a.day = d
        BY DEF OnLineDay
  <2> HIDE DEF h, S
  <2>4. \A a : a \in OnLineDay(rows, line, d) <=> \E i \in S : a = h[i]
    <3> TAKE a
    <3>1. ASSUME a \in OnLineDay(rows, line, d)
          PROVE  \E i \in S : a = h[i]
      <4>1. a \in rows /\ a.day = d
            BY <2>3, <3>1
      <4>2. PICK i \in DOMAIN split : a = h[i]
            BY <2>1, <4>1
      <4>3. split[i].day = d
            BY <1>2, <4>1, <4>2
      <4> QED
          BY <2>2, <4>2, <4>3
    <3>2. ASSUME NEW i \in S, a = h[i]
          PROVE  a \in OnLineDay(rows, line, d)
      <4>1. i \in DOMAIN split /\ split[i].day = d
            BY <2>2
      <4>2. a \in rows /\ a.line = line /\ a.day = d
            BY <1>2, <3>2, <4>1
      <4> QED
          BY <2>3, <4>2
    <3> QED
        BY <3>1, <3>2
  <2> QED
      BY <2>4
<1>5. Load(rows, line, d) = SumFunctionOnSet(g, OnLineDay(rows, line, d))
      BY DEF Load, OnLineDay
<1>6. Wafers(split, S) = SumFunctionOnSet(f, S)
      BY DEF Wafers
<1> HIDE DEF f, g, h, S
<1>7. SumFunctionOnSet(g, {h[i] : i \in S}) <= SumFunctionOnSet(f, S)
      BY <1>1, <1>3, SumImageAtMost
<1> QED
    BY <1>4, <1>5, <1>6, <1>7 DEF S

\* Nor are some of them.
LEMMA LoadOfSomeChanged ==
    ASSUME NEW all, IsCalendar(all), NEW h, KeepsPlace(h, all),
           NEW other, \A b \in other : \E a \in all : b = h[a], NEW l, NEW d
    PROVE  Load(other, l, d) <= Load(all, l, d)
<1> DEFINE changed == {h[a] : a \in all}
<1>1. IsFiniteSet(changed)
  <2> DEFINE f == [a \in all |-> h[a]]
  <2>1. f \in Surjection(all, changed)
        BY DEF Surjection
  <2> HIDE DEF f
  <2> QED
      BY <2>1, FS_Surjection DEF IsCalendar
<1>2. other \subseteq changed
      OBVIOUS
<1>9. changed = {h[a] : a \in all}
      OBVIOUS
<1>3. IsCalendar(changed)
  <2>1. ASSUME NEW b \in changed
        PROVE  b.day \in Int /\ b.quantity \in Nat
    <3>1. PICK a \in all : b = h[a]
          OBVIOUS
    <3> QED
        BY <3>1 DEF IsCalendar, KeepsPlace
  <2> QED
      BY <1>1, <2>1 DEF IsCalendar
<1> HIDE DEF changed
<1>4. IsCalendar(other)
      BY <1>2, <1>3, FS_Subset DEF IsCalendar
<1>5. OnLineDay(other, l, d) \subseteq OnLineDay(changed, l, d)
      BY <1>2 DEF OnLineDay
<1>6. Load(other, l, d) <= Load(changed, l, d)
      BY <1>3, <1>5, LoadOfFewer
<1>7. Load(changed, l, d) <= Load(all, l, d)
      BY <1>9, LoadOfChanged
<1>8. Load(other, l, d) \in Nat /\ Load(changed, l, d) \in Nat /\ Load(all, l, d) \in Nat
      BY <1>3, <1>4, LoadType
<1> QED
    BY <1>6, <1>7, <1>8
(***************************************************************************)
(* What a plan does to loads and orders                                    *)
(***************************************************************************)
\* Without manual force a plan that places every wafer books no day above what the
\* line makes: the other days have what they had, or less.
LEMMA PlanBooks ==
    ASSUME RulesAssumption, NEW orders, IsOrderTable(orders),
           NEW allocations, IsCalendar(allocations), NEW req, IsRequest(req),
           \A o \in req.resolution : CanMove(orders, allocations, req.line, o),
           NEW split, PiecesFit(orders, req, split), WholePlanned(orders, req, split),
           RoomLeft(allocations, req, split),
           NEW all, all = AllocationsPlanned(allocations, split, req.line), NEW l, NEW d
    PROVE  \/ Load(all, l, d) <= Load(allocations, l, d)
           \/ Load(all, l, d) <= Capacity[l]
<1> DEFINE line == req.line
           rows == {Placed(split[i], line) : i \in DOMAIN split}
           open == UNION {OpenOf(allocations, o) : o \in PlannedOrders(split)}
           stay == allocations \ open
           kept == {a \in allocations : a.order \notin req.resolution}
<1>1. /\ PiecesFit(orders, req, split) /\ WholePlanned(orders, req, split)
      /\ RoomLeft(allocations, req, split) /\ IsRequest(req)
      OBVIOUS
<1>2. all = stay \cup rows
      BY DEF AllocationsPlanned, Placed
<1>3. IsCalendar(allocations)
      OBVIOUS
<1>4. ASSUME NEW i \in DOMAIN split
      PROVE  split[i].quantity \in Nat /\ split[i].day \in Int
  <2> DEFINE o == Origin(split[i])
  <2>1. o \in DOMAIN orders /\ split[i].quantity \in 1 .. orders[o].quantity
        /\ split[i].day \in Int
        BY <1>1 DEF PiecesFit, Selected
  <2>2. orders[o].quantity \in Nat
        BY <2>1 DEF IsOrderTable
  <2> QED
      BY <2>1, <2>2
<1>5. IsFiniteSet(DOMAIN split)
      BY <1>1 DEF PiecesFit
<1>6. IsCalendar(stay) /\ IsCalendar(kept)
      BY <1>3, FS_Subset DEF IsCalendar
<1>7. IsCalendar(rows)
  <2>1. IsFiniteSet(rows)
    <3> DEFINE f == [i \in DOMAIN split |-> Placed(split[i], line)]
    <3>1. f \in Surjection(DOMAIN split, rows)
          BY DEF Surjection
    <3> HIDE DEF f, rows
    <3> QED
        BY <1>5, <3>1, FS_Surjection
  <2> QED
      BY <1>4, <2>1 DEF IsCalendar, Placed
<1>8. stay \subseteq kept
  <2> SUFFICES ASSUME NEW a \in allocations, a.order \in req.resolution
               PROVE  a \in open
      OBVIOUS
  <2> DEFINE o == a.order
  <2>1. CanMove(orders, allocations, req.line, o)
        OBVIOUS
  <2>2. o \in Selected(orders, req)
        BY <2>1 DEF CanMove, Selected
  <2>3. o \in PlannedOrders(split)
        BY <1>1, <2>2 DEF WholePlanned, PlannedOrders
  <2>4. a \in OpenOf(allocations, o)
        BY <2>1 DEF CanMove, OpenOf, Of
  <2> QED
      BY <2>3, <2>4
<1>9. rows = {Placed(split[i], line) : i \in DOMAIN split}
      OBVIOUS
<1>10. \A a \in rows : a.line = line /\ \E i \in DOMAIN split : a.day = split[i].day
       BY DEF Placed
<1>11. RoomLeft(allocations, req, split) /\ line = req.line
       BY <1>1
<1>12. stay \subseteq allocations
       OBVIOUS
<1>13. kept = {a \in allocations : a.order \notin req.resolution}
       OBVIOUS
<1> HIDE DEF line, rows, open, stay, kept
<1>14. CASE l = line /\ \E i \in DOMAIN split : split[i].day = d
  <2>1. PICK i \in DOMAIN split : split[i].day = d
        BY <1>14
  <2>2. Wafers(split, OnDay(split, d)) + Load(kept, line, d) <= Capacity[line]
        BY <1>11, <1>13, <2>1 DEF RoomLeft
  <2>3. Load(rows, line, d) <= Wafers(split, OnDay(split, d))
        BY <1>4, <1>5, <1>9, LoadOfPieces
  <2>4. Load(stay, line, d) <= Load(kept, line, d)
    <3>1. OnLineDay(stay, line, d) \subseteq OnLineDay(kept, line, d)
          BY <1>8 DEF OnLineDay
    <3> QED
        BY <1>6, <3>1, LoadOfFewer
  <2>5. Load(all, line, d) <= Load(stay, line, d) + Load(rows, line, d)
        BY <1>2, <1>6, <1>7, LoadOfBoth
  <2>6. Wafers(split, OnDay(split, d)) \in Nat
    <3>1. IsFiniteSet(OnDay(split, d)) /\ OnDay(split, d) \subseteq DOMAIN split
          BY <1>5, FS_Subset DEF OnDay
    <3> QED
        BY <1>4, <3>1, WafersType
  <2>7. /\ Load(stay, line, d) \in Nat /\ Load(kept, line, d) \in Nat
        /\ Load(rows, line, d) \in Nat
        BY <1>6, <1>7, LoadType
  <2>8. Load(all, line, d) \in Nat /\ Capacity[line] \in Nat
    <3>1. IsFiniteSet(stay \cup rows)
          BY <1>6, <1>7, FS_Union DEF IsCalendar
    <3>2. IsCalendar(all)
          BY <1>2, <1>6, <1>7, <3>1 DEF IsCalendar
    <3>3. Capacity[line] \in Nat
          BY <1>1, <1>11 DEF IsRequest, RulesAssumption
    <3> QED
        BY <3>2, <3>3, LoadType
  <2> HIDE DEF OnDay
  <2> QED
      BY <1>14, <2>2, <2>3, <2>4, <2>5, <2>6, <2>7, <2>8
<1>15. CASE ~(l = line /\ \E i \in DOMAIN split : split[i].day = d)
  <2>1. OnLineDay(all, l, d) \subseteq OnLineDay(allocations, l, d)
        BY <1>2, <1>10, <1>12, <1>15 DEF OnLineDay
  <2> QED
      BY <1>3, <2>1, LoadOfFewer
<1> QED
    BY <1>14, <1>15

OfFamily(rows, x) == {o \in DOMAIN rows : Original(o) = x}

Quantities(rows) == [o \in DOMAIN rows |-> rows[o].quantity]

\* When every selected order is planned, the plan neither adds wafers to an order and
\* its parts nor loses any.
LEMMA FamilyKept ==
    ASSUME NEW rows, IsOrderTable(rows), NEW req, NEW split,
           PiecesFit(rows, req, split), WholePlanned(rows, req, split),
           NEW resized, NEW now, NEW planned, planned = OrdersPlanned(rows, split, resized, now),
           \A i \in DOMAIN split : planned[split[i].order].quantity = split[i].quantity,
           NEW x
    PROVE  SumFunctionOnSet(Quantities(planned), OfFamily(planned, x))
              = SumFunctionOnSet(Quantities(rows), OfFamily(rows, x))
<1> DEFINE D == DOMAIN rows
           S == PlannedOrders(split)
           f == Quantities(rows)
           g == Quantities(planned)
           q == [i \in DOMAIN split |-> split[i].quantity]
           I == {i \in DOMAIN split : Original(split[i].order) = x}
           from == [i \in I |-> Origin(split[i])]
           to == [i \in I |-> split[i].order]
           before == {o \in Selected(rows, req) : Original(o) = x}
           after == {o \in S : Original(o) = x}
           stay == {o \in D \ S : Original(o) = x}
<1>1. /\ WellSplit(rows, split) /\ IsFiniteSet(DOMAIN split)
      /\ 0 \notin D /\ IsFiniteSet(D) /\ \A o \in D : o \in Nat /\ rows[o].quantity \in Nat
      BY DEF PiecesFit, IsOrderTable
<1>2. /\ DOMAIN planned = D \cup Parts(split)
      /\ Parts(split) = S \ D
      /\ \A o \in D \ S : planned[o] = rows[o]
  <2>1. DOMAIN planned = D \cup Parts(split)
        BY DEF OrdersPlanned
  <2>2. Parts(split) = S \ D
        BY <1>1, OrdersAfterPlan DEF OthersKept
  <2>3. \A o \in D \ S : planned[o] = rows[o]
        BY DEF OrdersPlanned
  <2> QED
      BY <2>1, <2>2, <2>3
<1>3. ASSUME NEW i \in DOMAIN split
      PROVE  /\ split[i].order \in S /\ Origin(split[i]) \in D
             /\ Origin(split[i]) \in Selected(rows, req)
             /\ Original(split[i].order) = Original(Origin(split[i]))
             /\ planned[split[i].order].quantity = split[i].quantity
             /\ split[i].quantity \in Nat
             /\ split[i].order \in D => split[i].order \in Selected(rows, req)
  <2> DEFINE o == Origin(split[i])
             piece == split[i]
  <2>1. piece.order \in S
        BY DEF PlannedOrders
  <2>2. o \in D /\ o \in Selected(rows, req) /\ piece.quantity \in 1 .. rows[o].quantity
        BY <1>1 DEF WellSplit, PiecesFit
  <2> DEFINE n == o + 1
  <2>3. o \in Nat /\ o < 10 * n /\ n \in Nat /\ rows[o].quantity \in Nat
        BY <1>1, <2>2
  <2>4. planned[piece.order].quantity = piece.quantity
        OBVIOUS
  <2>5. piece.source = 0 => piece.order = o
        BY DEF Origin
  <2>6. piece.source # 0 => piece.order \in o + 1 .. Original(o) + MaxParts /\ piece.order \notin D
        BY <1>1 DEF WellSplit, Origin
  <2> HIDE DEF o, piece, n
  <2>7. Original(piece.order) = Original(o)
        BY <2>3, <2>5, <2>6, PartBelow
  <2>8. piece.quantity \in Nat
        BY <2>2, <2>3
  <2> QED
      BY <2>1, <2>2, <2>4, <2>5, <2>6, <2>7, <2>8 DEF o, piece
<1>4. /\ \A o \in D : f[o] \in Nat
      /\ \A o \in DOMAIN planned : g[o] \in Nat
  <2>1. \A o \in D : rows[o].quantity \in Nat
        BY <1>1
  <2>2. ASSUME NEW o \in DOMAIN planned
        PROVE  planned[o].quantity \in Nat
    <3>1. CASE o \in S
          BY <1>3, <3>1 DEF PlannedOrders
    <3>2. CASE o \notin S
          BY <1>2, <2>1, <3>2
    <3> QED
        BY <3>1, <3>2
  <2> QED
      BY <2>1, <2>2 DEF Quantities
<1>5. /\ \A o \in D : f[o] = rows[o].quantity
      /\ \A o \in DOMAIN planned : g[o] = planned[o].quantity
      /\ \A i \in DOMAIN split : q[i] = split[i].quantity
      /\ \A i \in I : from[i] = Origin(split[i]) /\ to[i] = split[i].order
      BY DEF Quantities
<1>6. IsFiniteSet(I) /\ IsFiniteSet(before) /\ IsFiniteSet(stay)
  <2>1. I \subseteq DOMAIN split /\ before \subseteq D /\ stay \subseteq D
        BY DEF Selected
  <2> QED
      BY <1>1, <2>1, FS_Subset
<1>7. SumFunctionOnSet(q, I) = SumFunctionOnSet(g, after)
  <2>1. \A i \in I : to[i] \in after /\ q[i] \in Nat /\ g[to[i]] = q[i]
    <3> SUFFICES ASSUME NEW i \in I
                 PROVE  to[i] \in after /\ q[i] \in Nat /\ g[to[i]] = q[i]
        OBVIOUS
    <3>1. split[i].order \in S /\ split[i].order \in DOMAIN planned
          BY <1>2, <1>3
    <3> QED
        BY <1>3, <1>5, <3>1
  <2>2. \A i, k \in I : to[i] = to[k] => i = k
        BY <1>1 DEF WellSplit
  <2>3. \A o \in after : \E i \in I : to[i] = o
        BY DEF PlannedOrders
  <2>4. Renames(to, q, I, g, after)
    <3> HIDE DEF to, q, I, g, after
    <3> QED
        BY <2>1, <2>2, <2>3 DEF Renames
  <2> HIDE DEF to, q, I, g, after
  <2> QED
      BY <1>6, <2>4, SumImage
<1>8. SumFunctionOnSet(q, I) = SumFunctionOnSet(f, before)
  <2> DEFINE group == [u \in before |-> {i \in I : from[i] = u}]
  <2>1. \A i \in I : from[i] \in before /\ q[i] \in Nat
        BY <1>3, <1>5
  <2>2. ASSUME NEW u \in before
        PROVE  f[u] = SumFunctionOnSet(q, {i \in I : from[i] = u})
    <3>1. {i \in I : from[i] = u} = {i \in DOMAIN split : Origin(split[i]) = u}
          BY <1>3, <1>5
    <3>2. Wafers(split, {i \in DOMAIN split : Origin(split[i]) = u}) = rows[u].quantity
          BY DEF WholePlanned
    <3>3. f[u] = rows[u].quantity
          BY <1>5 DEF Selected
    <3> QED
        BY <3>1, <3>2, <3>3 DEF Wafers
  <2>3. Groups(group, from, I, before) /\ \A i \in I : q[i] \in Nat
        BY <2>1 DEF Groups
  <2>4. \A u \in before : f[u] = SumFunctionOnSet(q, group[u])
        BY <2>2
  <2> HIDE DEF from, q, I, f, before, group
  <2> QED
      BY <1>6, <2>3, <2>4, SumGroups
<1>9. SumFunctionOnSet(g, stay) = SumFunctionOnSet(f, stay)
  <2>1. \A o \in stay : g[o] = f[o]
        BY <1>2, <1>5
  <2> HIDE DEF g, f, stay
  <2> QED
      BY <1>6, <2>1, SumCongruent
<1>10. \A o \in Selected(rows, req) : o \in S /\ o \in D
       BY DEF WholePlanned, PlannedOrders, Selected
<1>11. \A o \in S \cap D : o \in Selected(rows, req)
       BY <1>3 DEF PlannedOrders
<1>12. OfFamily(rows, x) = stay \cup before /\ stay \cap before = {}
       BY <1>10, <1>11 DEF OfFamily
<1>13. OfFamily(planned, x) = stay \cup after /\ stay \cap after = {}
       BY <1>2 DEF OfFamily
<1>14. IsFiniteSet(after)
  <2>1. to \in Surjection(I, after)
        BY DEF Surjection, PlannedOrders
  <2> HIDE DEF to, I, after
  <2> QED
      BY <1>6, <2>1, FS_Surjection
<1>15. \A o \in stay \cup before : f[o] \in Nat
       BY <1>4, <1>10
<1>16. \A o \in stay \cup after : g[o] \in Nat
       BY <1>2, <1>4
<1> HIDE DEF stay, before, after, f, g, q, I
<1>17. SumFunctionOnSet(f, OfFamily(rows, x))
          = SumFunctionOnSet(f, stay) + SumFunctionOnSet(f, before)
       BY <1>6, <1>12, <1>15, SumUnion
<1>18. SumFunctionOnSet(g, OfFamily(planned, x))
          = SumFunctionOnSet(g, stay) + SumFunctionOnSet(g, after)
       BY <1>6, <1>13, <1>14, <1>16, SumUnion
<1> QED
    BY <1>7, <1>8, <1>9, <1>17, <1>18 DEF f, g
(***************************************************************************)
(* What a plan depends on                                                  *)
(***************************************************************************)
\* The requests differ at most in the allocations of other lines.
SameForLine(r, s) ==
    /\ r.line = s.line /\ r.capacity = s.capacity
    /\ r.start = s.start /\ r.currentDate = s.currentDate
    /\ r.orders = s.orders
    /\ r.manualForce = s.manualForce /\ r.allowLate = s.allowLate
    /\ ExistingOfLine(r) = ExistingOfLine(s)
    /\ \A k \in ExistingOfLine(r) : r.existing[k] = s.existing[k]

LEMMA DaysOfLine ==
    ASSUME NEW r, IsPlanRequest(r), NEW s, IsPlanRequest(s), SameForLine(r, s)
    PROVE  /\ StartDay(r) = StartDay(s)
           /\ \A d : /\ ExistingOn(r, d) = ExistingOn(s, d)
                     /\ OrdersAffected(r, d) = OrdersAffected(s, d)
                     /\ OrdersToMove(r, d) = OrdersToMove(s, d)
           /\ \A d, pieces : FreeOn(r, pieces, d) = FreeOn(s, pieces, d)
           /\ \A pieces : LastDayUsed(r, pieces) = LastDayUsed(s, pieces)
<1>1. StartDay(r) = StartDay(s)
      BY DEF SameForLine, StartDay
<1>2. ASSUME NEW d
      PROVE  /\ ExistingOn(r, d) = ExistingOn(s, d)
             /\ OrdersAffected(r, d) = OrdersAffected(s, d)
             /\ OrdersToMove(r, d) = OrdersToMove(s, d)
  <2>1. ExistingOn(r, d) = ExistingOn(s, d)
        BY DEF SameForLine, ExistingOn
  <2>2. \A k \in ExistingOn(r, d) : r.existing[k] = s.existing[k]
        BY DEF SameForLine, ExistingOn
  <2>3. OrdersAffected(r, d) = OrdersAffected(s, d)
        BY <2>1, <2>2 DEF OrdersAffected
  <2> DEFINE S == {i \in ExistingOn(r, d) : Movable(r, r.existing[i])}
             U == {i \in ExistingOn(s, d) : Movable(s, s.existing[i])}
  <2>4. S = U /\ \A k \in S : r.existing[k] = s.existing[k]
        BY <2>1, <2>2 DEF SameForLine, Movable
  <2>5. /\ OrdersToMove(r, d) = {r.existing[k].order : k \in S}
        /\ OrdersToMove(s, d) = {s.existing[k].order : k \in U}
        BY DEF OrdersToMove
  <2> HIDE DEF S, U
  <2> QED
      BY <2>1, <2>3, <2>4, <2>5
<1>3. ASSUME NEW d, NEW pieces
      PROVE  FreeOn(r, pieces, d) = FreeOn(s, pieces, d)
  <2> DEFINE S == ExistingOn(r, d)
             f == [k \in DOMAIN r.existing |-> r.existing[k].quantity]
             g == [k \in DOMAIN s.existing |-> s.existing[k].quantity]
  <2>1. /\ IsFiniteSet(S) /\ S \subseteq DOMAIN r.existing
        /\ S \subseteq DOMAIN s.existing
        BY <1>2, FS_Subset DEF ExistingOn, ExistingOfLine, IsPlanRequest
  <2>2. \A k \in S : f[k] \in Nat /\ f[k] = g[k]
        BY <2>1 DEF IsPlanRequest, SameForLine, ExistingOn
  <2>3. Wafers(r.existing, S) = Wafers(s.existing, S)
    <3>1. Wafers(r.existing, S) = SumFunctionOnSet(f, S)
          BY DEF Wafers
    <3>2. Wafers(s.existing, S) = SumFunctionOnSet(g, S)
          BY DEF Wafers
    <3> HIDE DEF f, g, S
    <3>3. SumFunctionOnSet(f, S) = SumFunctionOnSet(g, S)
          BY <2>1, <2>2, SumCongruent
    <3> QED
        BY <3>1, <3>2, <3>3
  <2>4. ExistingOn(s, d) = S
        BY <1>2
  <2> HIDE DEF S
  <2> QED
      BY <2>3, <2>4 DEF FreeOn, UsedOn, SameForLine, S
<1>4. ASSUME NEW pieces
      PROVE  LastDayUsed(r, pieces) = LastDayUsed(s, pieces)
  <2>1. {r.existing[k].day : k \in ExistingOfLine(r)} = {s.existing[k].day : k \in ExistingOfLine(s)}
        BY DEF SameForLine
  <2> QED
      BY <1>1, <2>1 DEF LastDayUsed
<1> QED
    BY <1>1, <1>2, <1>3, <1>4

LEMMA OrderOfLine ==
    ASSUME NEW r, IsPlanRequest(r), NEW s, IsPlanRequest(s), SameForLine(r, s),
           NEW o, NEW plan
    PROVE  PlanNext(r, o, plan) = PlanNext(s, o, plan)
<1> DEFINE pieces == plan.allocations
<1>1. /\ StartDay(r) = StartDay(s)
      /\ \A d : /\ OrdersAffected(r, d) = OrdersAffected(s, d)
                /\ OrdersToMove(r, d) = OrdersToMove(s, d)
                /\ FreeOn(r, pieces, d) = FreeOn(s, pieces, d)
      /\ LastDayUsed(r, pieces) = LastDayUsed(s, pieces)
      BY DaysOfLine
<1> HIDE DEF pieces
<1>2. r.orders = s.orders /\ r.allowLate = s.allowLate /\ r.manualForce = s.manualForce
      BY DEF SameForLine
<1>3. \A d : PlacedBy(r, pieces, o, d) = PlacedBy(s, pieces, o, d)
  <2> SUFFICES ASSUME NEW d PROVE PlacedBy(r, pieces, o, d) = PlacedBy(s, pieces, o, d)
      OBVIOUS
  <2>1. [e \in StartDay(r) .. d |-> FreeOn(r, pieces, e)]
           = [e \in StartDay(s) .. d |-> FreeOn(s, pieces, e)]
        BY <1>1
  <2> QED
      BY <1>1, <1>2, <2>1 DEF PlacedBy
<1>4. \A d : PlacedOn(r, pieces, o, d) = PlacedOn(s, pieces, o, d)
      BY <1>3 DEF PlacedOn
<1>5. Days(r, pieces, o) = Days(s, pieces, o)
  <2>1. Horizon(r, pieces, o) = Horizon(s, pieces, o)
        BY <1>1, <1>2 DEF Horizon
  <2> QED
      BY <1>1, <1>4, <2>1 DEF Days
<1>6. DaysGiven(r, pieces, o) = DaysGiven(s, pieces, o)
      BY <1>2, <1>5 DEF DaysGiven
<1>7. FinishDay(r, pieces, o) = FinishDay(s, pieces, o)
      BY <1>5 DEF FinishDay
<1>8. FinishesLate(r, pieces, o) = FinishesLate(s, pieces, o)
      BY <1>2, <1>7 DEF FinishesLate
<1>9. PiecesOf(r, pieces, o) = PiecesOf(s, pieces, o)
      BY <1>2, <1>4, <1>6 DEF PiecesOf
<1>10. ReviewsOf(r, pieces, o) = ReviewsOf(s, pieces, o)
  <2> DEFINE S == {e \in DaysGiven(r, pieces, o) : r.manualForce /\ OrdersAffected(r, e) # {}}
             U == {e \in DaysGiven(s, pieces, o) : s.manualForce /\ OrdersAffected(s, e) # {}}
  <2>1. S = U
        BY <1>1, <1>2, <1>6
  <2>2. /\ ReviewsOf(r, pieces, o)
              = [d \in S |-> [order |-> o, reason |-> "review", earliestFinish |-> d,
                              affected |-> OrdersAffected(r, d)]]
        /\ ReviewsOf(s, pieces, o)
              = [d \in U |-> [order |-> o, reason |-> "review", earliestFinish |-> d,
                              affected |-> OrdersAffected(s, d)]]
        BY DEF ReviewsOf
  <2> HIDE DEF S, U
  <2> QED
      BY <1>1, <2>1, <2>2
<1>11. LatenessOf(r, pieces, o) = LatenessOf(s, pieces, o)
  <2> DEFINE D == StartDay(r) .. Greater(FinishDay(r, pieces, o), r.orders[o].due)
  <2>1. {OrdersToMove(r, d) : d \in D} = {OrdersToMove(s, d) : d \in D}
        BY <1>1
  <2>2. D = StartDay(s) .. Greater(FinishDay(s, pieces, o), s.orders[o].due)
        BY <1>1, <1>2, <1>7
  <2> HIDE DEF D
  <2> QED
      BY <1>7, <2>1, <2>2 DEF LatenessOf, D
<1> QED
    BY <1>8, <1>9, <1>10, <1>11 DEF PlanNext, pieces

\* A plan does not see the allocations of other lines.
LEMMA PlanOfLine ==
    ASSUME NEW r, IsPlanRequest(r), NEW s, IsPlanRequest(s), SameForLine(r, s)
    PROVE  Plan(r) = Plan(s)
<1>1. PICK g : PlansUpTo(s, g) /\ Plan(s) = g[DOMAIN s.orders]
      BY PlanRecursion
<1>2. r.orders = s.orders
      BY DEF SameForLine
<1> DEFINE D == DOMAIN r.orders
           T == {p \in (SUBSET D) \X Plans(r) : p[2] = g[p[1]]}
<1>3. <<{}, NothingPlanned>> \in T
  <2>1. NothingPlanned \in Plans(r)
        BY DEF NothingPlanned, Plans
  <2> QED
      BY <1>1, <2>1 DEF PlansUpTo
<1>4. ASSUME NEW S \in SUBSET D, NEW o \in S, NEW plan \in Plans(r),
             o = LastInRank(r, S), <<S \ {o}, plan>> \in T
      PROVE  <<S, PlanNext(r, o, plan)>> \in T
  <2>1. LastInRank(r, S) = LastInRank(s, S)
        BY <1>2 DEF LastInRank, RanksBefore
  <2>2. plan = g[S \ {o}] /\ g[S] = PlanNext(s, o, g[S \ {o}])
        BY <1>1, <1>2, <1>4, <2>1 DEF PlansUpTo
  <2>3. PlanNext(r, o, plan) = g[S]
        BY <2>2, OrderOfLine
  <2>4. PlanNext(r, o, plan) \in Plans(r)
        BY OrderPlanned
  <2> QED
      BY <2>3, <2>4
<1> HIDE DEF T
<1>5. <<D, Plan(r)>> \in T
      BY <1>3, <1>4, PlanInduction
<1> QED
    BY <1>1, <1>2, <1>5 DEF T

\* Who has the same ids for parts gets the same parts.
LEMMA SameSplit ==
    ASSUME NEW rows, NEW next, NEW X, NEW pieces \in Seq(X),
           \A i \in DOMAIN pieces :
              \A part \in pieces[i].order + 1 .. Original(pieces[i].order) + MaxParts :
                 part \in DOMAIN rows <=> part \in DOMAIN next
    PROVE  Split(rows, pieces) = Split(next, pieces)
<1> DEFINE f == SplitIds(rows, pieces)
           g == SplitIds(next, pieces)
           T == {i \in DOMAIN pieces : f[i] # g[i]}
<1>1. /\ f = [i \in DOMAIN pieces |-> NewId(rows, pieces, f, i)]
      /\ g = [i \in DOMAIN pieces |-> NewId(next, pieces, g, i)]
      BY IdsAreGivenOut
<1> HIDE DEF f, g
<1>2. T = {}
  <2> SUFFICES ASSUME T # {} PROVE FALSE
      OBVIOUS
  <2>1. DOMAIN pieces = 1 .. Len(pieces) /\ Len(pieces) \in Nat
        OBVIOUS
  <2>2. PICK i \in T : \A k \in T : i <= k
    <3>1. T \subseteq Nat
          BY <2>1
    <3> HIDE DEF T
    <3> QED
        BY <3>1, LeastNumber
  <2>3. i \in DOMAIN pieces /\ \A k \in 1 .. i - 1 : f[k] = g[k]
    <3>1. \A k \in 1 .. i - 1 : k \in DOMAIN pieces /\ ~(i <= k)
          BY <2>1
    <3> QED
        BY <2>2, <3>1
  <2>4. {f[k] : k \in 1 .. i - 1} = {g[k] : k \in 1 .. i - 1}
        BY <2>3
  <2> DEFINE o == pieces[i].order
             A == {f[k] : k \in 1 .. i - 1}
  <2>5. NextPart(o, DOMAIN rows \cup A) = NextPart(o, DOMAIN next \cup A)
    <3>1. \A part \in o + 1 .. Original(o) + MaxParts :
              part \in DOMAIN rows <=> part \in DOMAIN next
          BY <2>3
    <3> HIDE DEF o, A
    <3>2. (o + 1 .. Original(o) + MaxParts) \ (DOMAIN rows \cup A)
             = (o + 1 .. Original(o) + MaxParts) \ (DOMAIN next \cup A)
          BY <3>1
    <3> QED
        BY <3>2 DEF NextPart
  <2>6. NewId(rows, pieces, f, i) = NewId(next, pieces, g, i)
    <3> HIDE DEF T
    <3> QED
        BY <2>4, <2>5 DEF NewId
  <2> QED
      BY <1>1, <2>2, <2>3, <2>6
<1>3. f = g
      BY <1>1, <1>2
<1> QED
    BY <1>3 DEF Split, f, g
=============================================================================
