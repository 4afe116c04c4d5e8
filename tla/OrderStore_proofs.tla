-------------------------- MODULE OrderStore_proofs --------------------------
(***************************************************************************)
(* Orders and the calendar agree in the in-memory store, for any lines,    *)
(* capacities, claims, orders, requests and bounds.                        *)
(***************************************************************************)
EXTENDS OrderStore, OrderRules_proofs

(***************************************************************************)
(* The inductive invariant                                                 *)
(***************************************************************************)
OrderRow ==
    [line : Lines, quantity : 1 .. MaxQuantity, high : BOOLEAN, due : Nat,
     status : Statuses, createdBy : {c.subject : c \in Sales}, createdAt : Nat,
     source : Nat]

AllocationRow ==
    [order : Nat, line : Lines, day : Int, quantity : 1 .. MaxQuantity, high : BOOLEAN,
     locked : BOOLEAN, status : {"scheduled", "inProgress", "completed"}]

Asked ==
    [line : Lines, start : Int, orders : SUBSET Nat, resolution : SUBSET Nat,
     manualForce : BOOLEAN, allowLate : BOOLEAN, draft : Drafts \cup {NoDraft}]

JobRow ==
    [status : {"queued", "completed", "failed"}, preview : Nat, line : Lines,
     revision : Nat, request : Asked]

\* Ids are below the next one, also those of parts.
OrdersType ==
    /\ orders \in [DOMAIN orders -> OrderRow] /\ IsFiniteSet(DOMAIN orders)
    /\ nextOrderID \in Nat \ {0}
    /\ \A o \in DOMAIN orders :
          /\ o \in Nat \ {0} /\ o < 10 * nextOrderID
          /\ orders[o].source \in {0} \cup DOMAIN orders

\* The priority of an allocation is its order's.
AllocationsType ==
    /\ allocations \subseteq AllocationRow /\ IsFiniteSet(allocations)
    /\ \A a \in allocations : a.order \in DOMAIN orders /\ a.high = orders[a.order].high

RequestsType ==
    /\ \A p \in DOMAIN previews :
          LET preview == previews[p] IN
          /\ p \in Nat /\ preview.revision \in Nat
          /\ preview.request \in Asked /\ preview.line = preview.request.line
          /\ preview.actor \in Sales =>
                preview.request.draft \in Drafts /\ Wanted(preview.request.draft)
    /\ jobs \in [DOMAIN jobs -> JobRow]
    /\ \A j \in DOMAIN jobs : jobs[j].line = jobs[j].request.line

\* Every order has the allocations that its status asks for.
Matched == \A o \in DOMAIN orders : Matches(orders[o], Of(allocations, o))

StoreInv ==
    /\ OrdersType /\ AllocationsType /\ RequestsType
    /\ revision \in [Lines -> Nat]
    /\ Matched

LEMMA InitStoreInv == Init => StoreInv
<1> SUFFICES ASSUME Init PROVE StoreInv
    OBVIOUS
<1>1. /\ orders = NoMap /\ allocations = {} /\ previews = NoMap /\ jobs = NoMap
      /\ revision = [l \in Lines |-> 0] /\ nextOrderID = 1
      BY DEF Init
<1>2. DOMAIN NoMap = {} /\ \A X : NoMap \in [{} -> X]
      BY DEF NoMap
<1>3. IsFiniteSet({})
      BY FS_EmptySet
<1>4. OrdersType
      BY <1>1, <1>2, <1>3 DEF OrdersType
<1>5. AllocationsType
      BY <1>1, <1>3 DEF AllocationsType
<1>6. RequestsType
      BY <1>1, <1>2 DEF RequestsType
<1> QED
    BY <1>1, <1>2, <1>4, <1>5, <1>6 DEF StoreInv, Matched

(***************************************************************************)
(* What the steps have in common                                           *)
(***************************************************************************)
\* It is enough to look at the orders in S, the ones that a step touches.
LEMMA TablesChanged ==
    ASSUME StoreInv, NEW S,
           orders' \in [DOMAIN orders' -> OrderRow], IsFiniteSet(DOMAIN orders'),
           DOMAIN orders \subseteq DOMAIN orders',
           nextOrderID' \in Nat \ {0}, nextOrderID' >= nextOrderID,
           \A o \in DOMAIN orders' \ S :
              /\ o \in DOMAIN orders /\ orders'[o] = orders[o]
              /\ Of(allocations', o) = Of(allocations, o),
           \A o \in DOMAIN orders' \cap S :
              /\ o \in Nat \ {0} /\ o < 10 * nextOrderID'
              /\ orders'[o].source \in {0} \cup DOMAIN orders'
              /\ Matches(orders'[o], Of(allocations', o)),
           allocations' \subseteq AllocationRow, IsFiniteSet(allocations'),
           \A a \in allocations' :
              a.order \in DOMAIN orders' /\ a.high = orders'[a.order].high
    PROVE  OrdersType' /\ AllocationsType' /\ Matched'
<1>1. ASSUME NEW o \in DOMAIN orders'
      PROVE  /\ o \in Nat \ {0} /\ o < 10 * nextOrderID'
             /\ orders'[o].source \in {0} \cup DOMAIN orders'
             /\ Matches(orders'[o], Of(allocations', o))
  <2>1. CASE o \in S
        BY <2>1
  <2>2. CASE o \notin S
    <3>1. /\ o \in DOMAIN orders /\ orders'[o] = orders[o]
          /\ Of(allocations', o) = Of(allocations, o)
          BY <2>2
    <3>2. o \in Nat \ {0} /\ o < 10 * nextOrderID /\ nextOrderID \in Nat
          BY <3>1 DEF StoreInv, OrdersType
    <3>3. orders[o].source \in {0} \cup DOMAIN orders
          BY <3>1 DEF StoreInv, OrdersType
    <3>4. Matches(orders[o], Of(allocations, o))
          BY <3>1 DEF StoreInv, Matched
    <3>5. o < 10 * nextOrderID'
          BY <3>2
    <3> QED
        BY <3>1, <3>2, <3>3, <3>4, <3>5
  <2> QED
      BY <2>1, <2>2
<1> QED
    BY <1>1 DEF OrdersType, AllocationsType, Matched

LEMMA Bumped ==
    ASSUME StoreInv, NEW S \in SUBSET DOMAIN orders, Bump(S)
    PROVE  revision' \in [Lines -> Nat]
<1>1. ASSUME NEW l \in Lines
      PROVE  Cardinality({o \in S : orders[o].line = l}) \in Nat
  <2>1. IsFiniteSet({o \in S : orders[o].line = l})
        BY FS_Subset DEF StoreInv, OrdersType
  <2> QED
      BY <2>1, FS_CardinalityType
<1> QED
    BY <1>1 DEF Bump, StoreInv

\* Orders whose allocations are removed wait to be planned, or are given up.
LEMMA RowsDropped ==
    ASSUME StoreInv, NEW S \in SUBSET DOMAIN orders,
           orders' \in [DOMAIN orders -> OrderRow],
           \A o \in DOMAIN orders \ S : orders'[o] = orders[o],
           \A o \in S : /\ orders'[o].status \in {"pending", "rejected", "cancelled"}
                        /\ orders'[o].source = orders[o].source,
           RemoveAllocations(S), Bump(S), NothingElse
    PROVE  StoreInv'
<1>1. DOMAIN orders' = DOMAIN orders
      OBVIOUS
<1>2. /\ allocations' \subseteq allocations
      /\ \A o \in DOMAIN orders \ S : Of(allocations', o) = Of(allocations, o)
      /\ \A o \in S : Of(allocations', o) = {}
      /\ \A a \in allocations' : a.order \notin S
      BY DEF RemoveAllocations, Of
<1>3. /\ UNCHANGED <<previews, jobs, nextOrderID>>
      /\ revision' \in [Lines -> Nat]
      BY Bumped DEF NothingElse
<1>4. \A o \in S : Matches(orders'[o], Of(allocations', o))
      BY <1>2 DEF Matches
<1>5. /\ allocations' \subseteq AllocationRow /\ IsFiniteSet(allocations')
      /\ \A a \in allocations' : a.order \in DOMAIN orders' /\ a.high = orders'[a.order].high
      BY <1>1, <1>2, FS_Subset DEF StoreInv, AllocationsType
<1>6. \A o \in DOMAIN orders' \cap S :
          /\ o \in Nat \ {0} /\ o < 10 * nextOrderID'
          /\ orders'[o].source \in {0} \cup DOMAIN orders'
          /\ Matches(orders'[o], Of(allocations', o))
      BY <1>1, <1>3, <1>4 DEF StoreInv, OrdersType
<1>7. IsFiniteSet(DOMAIN orders') /\ nextOrderID' \in Nat \ {0} /\ nextOrderID' >= nextOrderID
      BY <1>1, <1>3 DEF StoreInv, OrdersType
<1>8. OrdersType' /\ AllocationsType' /\ Matched'
      BY <1>1, <1>2, <1>5, <1>6, <1>7, TablesChanged
<1>9. RequestsType'
      BY <1>3 DEF StoreInv, RequestsType
<1> QED
    BY <1>3, <1>8, <1>9 DEF StoreInv

(***************************************************************************)
(* Orders                                                                  *)
(***************************************************************************)
\* An order as it is asked for is a row, and waits to be planned.
LEMMA NewOrderType ==
    ASSUME StoreAssumption, RulesAssumption, NEW wanted \in Wants \cup Drafts, Wanted(wanted),
           NEW c \in Sales, NEW now \in Nat
    PROVE  /\ NewOrder(wanted, c.subject, now) \in OrderRow
           /\ NewOrder(wanted, c.subject, now).status = "pending"
           /\ NewOrder(wanted, c.subject, now).source = 0
<1>1. /\ wanted.quantity \in 1 .. MaxQuantity /\ wanted.line \in Lines
      /\ wanted.high \in BOOLEAN /\ wanted.due \in Nat
      BY DEF Wanted, StoreAssumption, RulesAssumption, Lines
<1> QED
    BY <1>1 DEF NewOrder, OrderRow, Statuses

LEMMA StatusType ==
    ASSUME NEW order \in OrderRow, NEW status \in Statuses
    PROVE  /\ [order EXCEPT !.status = status] \in OrderRow
           /\ [order EXCEPT !.status = status].status = status
           /\ [order EXCEPT !.status = status].source = order.source
           /\ [order EXCEPT !.status = status].quantity = order.quantity
           /\ [order EXCEPT !.status = status].high = order.high
           /\ [order EXCEPT !.status = status].line = order.line
BY DEF OrderRow

LEMMA AmendedType ==
    ASSUME StoreAssumption, RulesAssumption, NEW order \in OrderRow, NEW change \in Changes,
           Acceptable(change)
    PROVE  /\ Amended(order, change) \in OrderRow
           /\ Amended(order, change).status = order.status
           /\ Amended(order, change).source = order.source
<1>1. /\ change.quantity \in Nat /\ change.due \in Nat
      /\ change.quantity # 0 => change.quantity \in 1 .. MaxQuantity
      BY DEF StoreAssumption, RulesAssumption, Acceptable
<1> QED
    BY <1>1 DEF Amended, OrderRow

\* New rows, and rows of orders that have no allocations and get none.
LEMMA RowAdded ==
    ASSUME StoreInv, NEW id \in Nat \ {0}, id \notin DOMAIN orders, NEW row \in OrderRow,
           row.status \in {"pending", "rejected"}, row.source = 0,
           nextOrderID' = nextOrderID + 1, id < 10 * nextOrderID',
           NEW S \in SUBSET DOMAIN orders, \A o \in S : orders[o].status = "pending",
           orders' = With([o \in DOMAIN orders |->
                              IF o \in S THEN [orders[o] EXCEPT !.status = "rejected"]
                                          ELSE orders[o]], id, row),
           allocations' = allocations
    PROVE  OrdersType' /\ AllocationsType' /\ Matched'
<1>1. /\ DOMAIN orders' = DOMAIN orders \cup {id}
      /\ orders'[id] = row
      /\ \A o \in DOMAIN orders : orders'[o] = IF o \in S
                                               THEN [orders[o] EXCEPT !.status = "rejected"]
                                               ELSE orders[o]
      /\ orders' = [o \in DOMAIN orders' |-> orders'[o]]
      BY DEF With
<1>2. /\ \A o \in DOMAIN orders : orders[o] \in OrderRow
      /\ \A o \in DOMAIN orders :
            /\ o \in Nat \ {0} /\ o < 10 * nextOrderID
            /\ orders[o].source \in {0} \cup DOMAIN orders
      /\ IsFiniteSet(DOMAIN orders) /\ nextOrderID \in Nat \ {0}
      BY DEF StoreInv, OrdersType
<1>3. \A o \in S : /\ orders'[o] \in OrderRow /\ orders'[o].status = "rejected"
                   /\ orders'[o].source = orders[o].source /\ orders'[o].high = orders[o].high
  <2>2. SUFFICES ASSUME NEW o \in S
                 PROVE  /\ orders'[o] \in OrderRow /\ orders'[o].status = "rejected"
                        /\ orders'[o].source = orders[o].source
                        /\ orders'[o].high = orders[o].high
        OBVIOUS
  <2>3. orders'[o] = [orders[o] EXCEPT !.status = "rejected"] /\ orders[o] \in OrderRow
        BY <1>1, <1>2
  <2> DEFINE order == orders[o]
  <2> HIDE DEF order
  <2>4. orders'[o] = [order EXCEPT !.status = "rejected"] /\ order \in OrderRow
        BY <2>3 DEF order
  <2>5. /\ orders'[o] \in OrderRow /\ orders'[o].status = "rejected"
        /\ orders'[o].source = order.source /\ orders'[o].high = order.high
        BY <2>4 DEF OrderRow, Statuses
  <2> QED
      BY <2>5 DEF order
<1>4. orders' \in [DOMAIN orders' -> OrderRow]
  <2>1. \A o \in DOMAIN orders' : orders'[o] \in OrderRow
        BY <1>1, <1>2, <1>3
  <2> QED
      BY <1>1, <2>1
<1>5. IsFiniteSet(DOMAIN orders')
      BY <1>1, <1>2, FS_AddElement
<1>6. Of(allocations, id) = {}
      BY DEF StoreInv, AllocationsType, Of
<1>7. \A o \in S : Of(allocations, o) = {}
      BY DEF StoreInv, Matched, Matches
<1>8. \A o \in DOMAIN orders' \cap (S \cup {id}) :
          /\ o \in Nat \ {0} /\ o < 10 * nextOrderID'
          /\ orders'[o].source \in {0} \cup DOMAIN orders'
          /\ Matches(orders'[o], Of(allocations', o))
  <2>1. /\ orders'[id].source = 0 /\ orders'[id].status \in {"pending", "rejected"}
        /\ id < 10 * nextOrderID'
        BY <1>1
  <2>2. \A o \in S : /\ o \in Nat \ {0} /\ o < 10 * nextOrderID'
                     /\ orders'[o].source \in {0} \cup DOMAIN orders'
        BY <1>1, <1>2, <1>3
  <2>3. Matches(orders'[id], Of(allocations', id))
        BY <1>6, <2>1 DEF Matches
  <2>4. \A o \in S : Matches(orders'[o], Of(allocations', o))
        BY <1>3, <1>7 DEF Matches
  <2> QED
      BY <2>1, <2>2, <2>3, <2>4
<1>9. \A o \in DOMAIN orders' \ (S \cup {id}) :
          /\ o \in DOMAIN orders /\ orders'[o] = orders[o]
          /\ Of(allocations', o) = Of(allocations, o)
      BY <1>1
<1>10. /\ allocations' \subseteq AllocationRow /\ IsFiniteSet(allocations')
       /\ \A a \in allocations' :
             a.order \in DOMAIN orders' /\ a.high = orders'[a.order].high
  <2>1. \A o \in DOMAIN orders : o \in DOMAIN orders' /\ orders'[o].high = orders[o].high
    <3> SUFFICES ASSUME NEW o \in DOMAIN orders
                 PROVE  o \in DOMAIN orders' /\ orders'[o].high = orders[o].high
        OBVIOUS
    <3>1. CASE o \in S
          BY <1>1, <1>3, <3>1
    <3>2. CASE o \notin S
          BY <1>1, <3>2
    <3> QED
        BY <3>1, <3>2
  <2> QED
      BY <2>1 DEF StoreInv, AllocationsType
<1>11. nextOrderID' \in Nat \ {0} /\ nextOrderID' >= nextOrderID
      BY <1>2
<1> QED
    BY <1>1, <1>4, <1>5, <1>8, <1>9, <1>10, <1>11, TablesChanged

LEMMA CreateOrderKeeps ==
    ASSUME StoreAssumption, RulesAssumption, StoreInv,
           NEW c \in Sales, NEW wanted \in Wants, CreateOrder(c, wanted)
    PROVE  StoreInv'
<1> DEFINE id == 10 * nextOrderID
           row == NewOrder(wanted, c.subject, revision[wanted.line])
<1>1. /\ Wanted(wanted) /\ orders' = With(orders, id, row)
      /\ nextOrderID' = nextOrderID + 1
      /\ revision' = [revision EXCEPT ![wanted.line] = @ + 1]
      /\ UNCHANGED <<allocations, previews, jobs>>
      BY DEF CreateOrder
<1>2. wanted.line \in Lines /\ revision[wanted.line] \in Nat
      BY <1>1 DEF Wanted, StoreInv, Lines
<1>3. row \in OrderRow /\ row.status = "pending" /\ row.source = 0
  <2> DEFINE now == revision[wanted.line]
  <2> HIDE DEF now
  <2>1. now \in Nat /\ row = NewOrder(wanted, c.subject, now) /\ wanted \in Wants \cup Drafts
        BY <1>2 DEF now
  <2> QED
      BY <1>1, <2>1, NewOrderType
<1>4. /\ id \in Nat \ {0} /\ id \notin DOMAIN orders /\ id < 10 * nextOrderID'
      BY <1>1 DEF StoreInv, OrdersType
<1> DEFINE S == {}
           table == [o \in DOMAIN orders |->
                        IF o \in S THEN [orders[o] EXCEPT !.status = "rejected"] ELSE orders[o]]
<1>5. orders = table
      BY DEF StoreInv, OrdersType
<1> HIDE DEF id, row
<1>6. OrdersType' /\ AllocationsType' /\ Matched'
  <2>1. S \in SUBSET DOMAIN orders /\ \A o \in S : orders[o].status = "pending"
        OBVIOUS
  <2>2. orders' = With(table, id, row)
    <3> HIDE DEF table
    <3> QED
        BY <1>1, <1>5
  <2> HIDE DEF S
  <2>3. orders' = With([o \in DOMAIN orders |->
                           IF o \in S THEN [orders[o] EXCEPT !.status = "rejected"]
                                      ELSE orders[o]], id, row)
        BY <2>2
  <2> QED
      BY <1>1, <1>3, <1>4, <2>1, <2>3, RowAdded
<1>7. RequestsType' /\ revision' \in [Lines -> Nat]
      BY <1>1, <1>2 DEF StoreInv, RequestsType
<1> QED
    BY <1>6, <1>7 DEF StoreInv

LEMMA WaitingOrdersKeep ==
    ASSUME StoreAssumption, RulesAssumption, StoreInv,
           NEW c, NEW o \in DOMAIN orders, NEW change \in Changes,
           UpdateOrderDueDate(c, o, change) \/ ResubmitOrder(c, o, change)
    PROVE  StoreInv'
<1> DEFINE row == orders'[o]
<1>1. orders[o] \in OrderRow /\ Acceptable(change)
      BY DEF StoreInv, OrdersType, UpdateOrderDueDate, ResubmitOrder
<1>2. /\ Amended(orders[o], change) \in OrderRow
      /\ Amended(orders[o], change).status = orders[o].status
      /\ Amended(orders[o], change).source = orders[o].source
      BY <1>1, AmendedType
<1>3. PICK new \in OrderRow :
          /\ Write(o, new) /\ new.source = orders[o].source
          /\ new.status \in {"pending", "rejected"}
  <2>1. CASE UpdateOrderDueDate(c, o, change)
        BY <1>2, <2>1 DEF UpdateOrderDueDate, CanUpdate
  <2>2. CASE ResubmitOrder(c, o, change)
    <3> DEFINE order == Amended(orders[o], change)
    <3>1. order \in OrderRow /\ order.source = orders[o].source /\ "pending" \in Statuses
          BY <1>2 DEF Statuses
    <3>2. Write(o, [order EXCEPT !.status = "pending"])
          BY <2>2 DEF ResubmitOrder
    <3> HIDE DEF order
    <3> DEFINE new == [order EXCEPT !.status = "pending"]
    <3>3. new \in OrderRow /\ new.status = "pending" /\ new.source = order.source
          BY <3>1 DEF OrderRow
    <3> HIDE DEF new
    <3>4. Write(o, new)
          BY <3>2 DEF new
    <3> QED
        BY <3>1, <3>3, <3>4
  <2> QED
      BY <2>1, <2>2
<1>4. /\ orders' \in [DOMAIN orders -> OrderRow] /\ orders'[o] = new
      /\ \A p \in DOMAIN orders \ {o} : orders'[p] = orders[p]
      BY <1>3 DEF Write, StoreInv, OrdersType
<1>5. RemoveAllocations({o}) /\ Bump({o}) /\ NothingElse
      BY DEF UpdateOrderDueDate, ResubmitOrder
<1> QED
    BY <1>3, <1>4, <1>5, RowsDropped

LEMMA RowsSet ==
    ASSUME StoreInv, NEW S \in SUBSET DOMAIN orders, NEW status \in Statuses,
           SetStatus(S, status)
    PROVE  /\ orders' \in [DOMAIN orders -> OrderRow]
           /\ \A o \in DOMAIN orders \ S : orders'[o] = orders[o]
           /\ \A o \in S : /\ orders'[o].status = status
                           /\ orders'[o].source = orders[o].source
                           /\ orders'[o].quantity = orders[o].quantity
                           /\ orders'[o].high = orders[o].high
                           /\ orders'[o].line = orders[o].line
<1>1. \A o \in DOMAIN orders : orders[o] \in OrderRow
      BY DEF StoreInv, OrdersType
<1> QED
    BY <1>1, StatusType DEF SetStatus

LEMMA BulksKeep ==
    ASSUME StoreInv, NEW c, NEW S \in Bulks, RejectOrders(c, S) \/ CancelOrders(c, S)
    PROVE  StoreInv'
<1>1. S \in SUBSET DOMAIN orders
      BY DEF Bulks
<1>2. PICK status \in {"rejected", "cancelled"} : SetStatus(S, status)
      BY DEF RejectOrders, CancelOrders
<1>3. status \in Statuses
      BY DEF Statuses
<1>4. RemoveAllocations(S) /\ Bump(S) /\ NothingElse
      BY DEF RejectOrders, CancelOrders
<1>5. /\ orders' \in [DOMAIN orders -> OrderRow]
      /\ \A o \in DOMAIN orders \ S : orders'[o] = orders[o]
      /\ \A o \in S : orders'[o].status = status /\ orders'[o].source = orders[o].source
      BY <1>1, <1>2, <1>3, RowsSet
<1> QED
    BY <1>1, <1>4, <1>5, RowsDropped

(***************************************************************************)
(* Previews and jobs                                                       *)
(***************************************************************************)
LEMMA ConfirmPreviewKeeps ==
    ASSUME StoreAssumption, RulesAssumption, StoreInv,
           NEW c \in Sales, NEW p \in DOMAIN previews, NEW deferDraft \in BOOLEAN,
           NEW deferred \in SUBSET DOMAIN orders,
           ConfirmPreviewOrder(c, p, deferDraft, deferred)
    PROVE  StoreInv'
<1> DEFINE draft == previews[p].request.draft
           id == 10 * nextOrderID
           now == revision[draft.line]
           order == NewOrder(draft, c.subject, now)
           row == [order EXCEPT !.status = IF deferDraft THEN "rejected" ELSE @]
<1>1. /\ previews[p].actor = c /\ MayDefer(c, previews[p], deferred)
      /\ nextOrderID' = nextOrderID + 1
      /\ orders' = With([o \in DOMAIN orders |->
                            IF o \in deferred THEN [orders[o] EXCEPT !.status = "rejected"]
                                              ELSE orders[o]], id, row)
      /\ revision' = [revision EXCEPT ![draft.line] = @ + 1 + Cardinality(deferred)]
      /\ previews' = Without(previews, p)
      /\ UNCHANGED <<allocations, jobs>>
      BY DEF ConfirmPreviewOrder
<1>2. draft \in Drafts /\ Wanted(draft)
      BY <1>1 DEF StoreInv, RequestsType
<1>3. draft.line \in Lines /\ now \in Nat
      BY <1>2 DEF Wanted, StoreInv, Lines
<1>4. row \in OrderRow /\ row.status \in {"pending", "rejected"} /\ row.source = 0
  <2> HIDE DEF draft, now
  <2>1. order \in OrderRow /\ order.status = "pending" /\ order.source = 0
        BY <1>2, <1>3, NewOrderType
  <2> HIDE DEF order
  <2> QED
      BY <2>1 DEF OrderRow, Statuses
<1>5. id \in Nat \ {0} /\ id \notin DOMAIN orders /\ id < 10 * nextOrderID'
      BY <1>1 DEF StoreInv, OrdersType
<1>6. \A o \in deferred : orders[o].status = "pending"
      BY <1>1 DEF MayDefer, CanDefer
<1> HIDE DEF id, row
<1>7. OrdersType' /\ AllocationsType' /\ Matched'
      BY <1>1, <1>4, <1>5, <1>6, RowAdded
<1>8. revision' \in [Lines -> Nat]
  <2>1. Cardinality(deferred) \in Nat
        BY FS_Subset, FS_CardinalityType DEF StoreInv, OrdersType
  <2> QED
      BY <1>1, <1>3, <2>1 DEF StoreInv
<1>9. RequestsType'
  <2>1. /\ DOMAIN previews' \subseteq DOMAIN previews
        /\ \A q \in DOMAIN previews' : previews'[q] = previews[q]
        BY <1>1 DEF Without
  <2>2. jobs' = jobs
        BY <1>1
  <2> QED
      BY <2>1, <2>2 DEF StoreInv, RequestsType
<1> QED
    BY <1>7, <1>8, <1>9 DEF StoreInv

\* Neither orders nor allocations change when a preview is saved or a job created.
LEMMA RequestsKeep ==
    ASSUME StoreInv, RequestsType', UNCHANGED <<orders, allocations, revision, nextOrderID>>
    PROVE  StoreInv'
BY DEF StoreInv, OrdersType, AllocationsType, Matched

LEMMA NewPreviewKeeps ==
    ASSUME StoreInv, NEW p \in Nat, NEW preview, NewPreview(p, preview),
           preview.revision \in Nat, preview.request \in Asked,
           preview.line = preview.request.line,
           preview.actor \in Sales =>
              preview.request.draft \in Drafts /\ Wanted(preview.request.draft)
    PROVE  StoreInv'
<1>1. /\ DOMAIN previews' = DOMAIN previews \cup {p}
      /\ previews'[p] = preview
      /\ \A q \in DOMAIN previews' \ {p} : q \in DOMAIN previews /\ previews'[q] = previews[q]
      /\ UNCHANGED <<orders, allocations, revision, jobs, nextOrderID>>
      BY DEF NewPreview, With
<1>2. RequestsType'
  <2>1. ASSUME NEW q \in DOMAIN previews'
        PROVE  /\ q \in Nat /\ previews'[q].revision \in Nat
               /\ previews'[q].request \in Asked /\ previews'[q].line = previews'[q].request.line
               /\ previews'[q].actor \in Sales =>
                     previews'[q].request.draft \in Drafts /\ Wanted(previews'[q].request.draft)
    <3>1. CASE q = p
          BY <1>1, <3>1
    <3>2. CASE q # p
      <4>1. q \in DOMAIN previews /\ previews'[q] = previews[q]
            BY <1>1, <3>2
      <4> QED
          BY <4>1 DEF StoreInv, RequestsType
    <3> QED
        BY <3>1, <3>2
  <2> QED
      BY <1>1, <2>1 DEF StoreInv, RequestsType
<1> QED
    BY <1>1, <1>2, RequestsKeep

LEMMA PreviewsKeep ==
    ASSUME StoreAssumption, RulesAssumption, StoreInv, NEW p \in 1 .. MaxPreviews,
           NEW c, NEW req \in Asked,
           \/ c \in Sales /\ req.draft \in Drafts /\ PreviewDraft(c, p, req)
           \/ c \in Schedulers /\ PreviewSchedule(c, p, req)
    PROVE  StoreInv'
<1>1. p \in Nat /\ req.line \in Lines /\ revision[req.line] \in Nat
      BY DEF StoreAssumption, Asked, StoreInv
<1>2. CASE c \in Sales /\ req.draft \in Drafts /\ PreviewDraft(c, p, req)
  <2> DEFINE plan == DraftPlan(OrderInputs(orders, req), allocations, req, revision[req.line])
             preview == [actor |-> c, line |-> req.line, revision |-> revision[req.line],
                         request |-> req, allocations |-> plan.allocations,
                         conflicts |-> plan.conflicts]
  <2>1. Wanted(req.draft) /\ NewPreview(p, preview)
        BY <1>2 DEF PreviewDraft
  <2>2. /\ preview.revision = revision[req.line] /\ preview.request = req
        /\ preview.line = req.line
        OBVIOUS
  <2> HIDE DEF preview
  <2> QED
      BY <1>1, <1>2, <2>1, <2>2, NewPreviewKeeps
<1>3. CASE c \in Schedulers /\ PreviewSchedule(c, p, req)
  <2> DEFINE plan == PlanLocked(req)
             preview == [actor |-> c, line |-> req.line, revision |-> revision[req.line],
                         request |-> req, allocations |-> Split(orders, plan.allocations),
                         conflicts |-> plan.conflicts]
  <2>1. NewPreview(p, preview)
        BY <1>3 DEF PreviewSchedule
  <2>2. /\ preview.revision = revision[req.line] /\ preview.request = req
        /\ preview.line = req.line /\ preview.actor = c
        OBVIOUS
  <2>3. preview.actor \notin Sales
        BY <1>3, <2>2 DEF StoreAssumption
  <2> HIDE DEF preview
  <2> QED
      BY <1>1, <2>1, <2>2, <2>3, NewPreviewKeeps
<1> QED
    BY <1>2, <1>3

LEMMA CreateScheduleJobKeeps ==
    ASSUME StoreInv, NEW c, NEW j, NEW p \in DOMAIN previews, CreateScheduleJob(c, j, p)
    PROVE  StoreInv'
<1> DEFINE preview == previews[p]
           job == [status |-> "queued", preview |-> p, line |-> preview.line,
                   revision |-> preview.revision, request |-> preview.request]
<1>1. jobs' = With(jobs, j, job) /\ UNCHANGED <<orders, allocations, revision, previews, nextOrderID>>
      BY DEF CreateScheduleJob
<1>2. job \in JobRow /\ job.line = job.request.line
  <2>1. /\ p \in Nat /\ preview.revision \in Nat /\ preview.request \in Asked
        /\ preview.line = preview.request.line
        BY DEF StoreInv, RequestsType
  <2>2. preview.line \in Lines
        BY <2>1 DEF Asked
  <2> QED
      BY <2>1, <2>2 DEF JobRow
<1> HIDE DEF job
<1>3. jobs' \in [DOMAIN jobs' -> JobRow] /\ \A k \in DOMAIN jobs' : jobs'[k].line = jobs'[k].request.line
      BY <1>1, <1>2 DEF With, StoreInv, RequestsType
<1>4. RequestsType'
      BY <1>1, <1>3 DEF StoreInv, RequestsType
<1> QED
    BY <1>1, <1>4, RequestsKeep

\* A job that is done, one way or the other, is still the job it was.
LEMMA JobSet ==
    ASSUME StoreInv, NEW j \in DOMAIN jobs, NEW status \in {"completed", "failed"},
           jobs' = [jobs EXCEPT ![j].status = status],
           DOMAIN previews' \subseteq DOMAIN previews,
           \A q \in DOMAIN previews' : previews'[q] = previews[q]
    PROVE  RequestsType'
<1>1. /\ \A k \in DOMAIN jobs : jobs[k] \in JobRow /\ jobs[k].line = jobs[k].request.line
      BY DEF StoreInv, RequestsType
<1> DEFINE job == jobs[j]
           done == [job EXCEPT !.status = status]
<1>2. job \in JobRow /\ job.line = job.request.line
      BY <1>1
<1> HIDE DEF job
<1>3. done \in JobRow /\ done.line = done.request.line
      BY <1>2 DEF JobRow
<1> HIDE DEF done
<1>4. /\ DOMAIN jobs' = DOMAIN jobs /\ jobs'[j] = done
      /\ \A k \in DOMAIN jobs \ {j} : jobs'[k] = jobs[k]
      /\ jobs' = [k \in DOMAIN jobs' |-> jobs'[k]]
      BY DEF done, job, StoreInv, RequestsType
<1>5. \A k \in DOMAIN jobs' : jobs'[k] \in JobRow /\ jobs'[k].line = jobs'[k].request.line
      BY <1>1, <1>3, <1>4
<1>6. jobs' \in [DOMAIN jobs' -> JobRow]
      BY <1>4, <1>5
<1> QED
    BY <1>5, <1>6 DEF StoreInv, RequestsType

(***************************************************************************)
(* Production                                                              *)
(***************************************************************************)
LEMMA AllocationReplaced ==
    ASSUME StoreInv, NEW o \in DOMAIN orders, NEW a, Of(allocations, o) = {a},
           NEW b \in AllocationRow, b.order = o, b.high = a.high,
           allocations' = (allocations \ {a}) \cup {b}
    PROVE  /\ a \in allocations /\ a \in AllocationRow /\ a.high = orders[o].high
           /\ Of(allocations', o) = {b}
           /\ \A p : p # o => Of(allocations', p) = Of(allocations, p)
           /\ allocations' \subseteq AllocationRow /\ IsFiniteSet(allocations')
           /\ \A x \in allocations' : x.order \in DOMAIN orders /\ x.high = orders[x.order].high
<1>1. a \in allocations /\ a.order = o
      BY DEF Of
<1>2. a \in AllocationRow /\ a.high = orders[o].high
      BY <1>1 DEF StoreInv, AllocationsType
<1>3. Of(allocations', o) = {b} /\ \A p : p # o => Of(allocations', p) = Of(allocations, p)
      BY <1>1 DEF Of
<1>4. IsFiniteSet(allocations')
  <2>1. IsFiniteSet(allocations)
        BY DEF StoreInv, AllocationsType
  <2>2. IsFiniteSet(allocations \ {a})
        BY <2>1, FS_RemoveElement
  <2> QED
      BY <2>2, FS_AddElement
<1>5. /\ allocations' \subseteq AllocationRow
      /\ \A x \in allocations' : x.order \in DOMAIN orders /\ x.high = orders[x.order].high
      BY <1>2 DEF StoreInv, AllocationsType
<1> QED
    BY <1>1, <1>2, <1>3, <1>4, <1>5

\* The only allocation of an order that waits for production or is in it.
LEMMA OneOpen ==
    ASSUME StoreInv, NEW o \in DOMAIN orders, orders[o].status \in {"scheduled", "inProgress"}
    PROVE  \E a \in allocations :
              /\ a \in AllocationRow /\ a.order = o /\ a.high = orders[o].high
              /\ Of(allocations, o) = {a} /\ OpenOf(allocations, o) = {a}
              /\ a.quantity = orders[o].quantity /\ a.status = orders[o].status
              /\ a.line = orders[o].line
<1>1. PICK a \in Of(allocations, o) :
          /\ Of(allocations, o) = {a} /\ a.quantity = orders[o].quantity
          /\ a.status = orders[o].status /\ a.line = orders[o].line
      BY DEF StoreInv, Matched, Matches
<1>2. a \in allocations /\ a.order = o
      BY DEF Of
<1>3. a \in AllocationRow /\ a.high = orders[o].high
      BY <1>2 DEF StoreInv, AllocationsType
<1>4. OpenOf(allocations, o) = {a}
      BY <1>1 DEF OpenOf
<1> QED
    BY <1>1, <1>2, <1>3, <1>4

\* What StartProduction and CompleteProduction have in common.
LEMMA OrderSettled ==
    ASSUME StoreInv, NEW o \in DOMAIN orders, NEW status \in {"inProgress", "completed"},
           SetStatus({o}, status), Bump({o}), NothingElse,
           NEW a \in AllocationRow, Of(allocations, o) = {a}, a.order = o,
           a.quantity = orders[o].quantity, a.line = orders[o].line,
           NEW b \in AllocationRow, b.order = o, b.high = a.high,
           b.quantity = a.quantity, b.line = a.line, b.status = status,
           allocations' = (allocations \ {a}) \cup {b}
    PROVE  StoreInv'
<1>1. /\ Of(allocations', o) = {b}
      /\ \A p : p # o => Of(allocations', p) = Of(allocations, p)
      /\ allocations' \subseteq AllocationRow /\ IsFiniteSet(allocations')
      /\ \A x \in allocations' : x.order \in DOMAIN orders /\ x.high = orders[x.order].high
      BY AllocationReplaced
<1>2. status \in Statuses
      BY DEF Statuses
<1>3. /\ orders' \in [DOMAIN orders -> OrderRow]
      /\ \A p \in DOMAIN orders \ {o} : orders'[p] = orders[p]
      /\ orders'[o].status = status /\ orders'[o].source = orders[o].source
      /\ orders'[o].quantity = orders[o].quantity /\ orders'[o].high = orders[o].high
      /\ orders'[o].line = orders[o].line
      BY <1>2, RowsSet
<1>4. DOMAIN orders' = DOMAIN orders
      BY <1>3
<1>5. Matches(orders'[o], Of(allocations', o))
  <2>1. a.quantity \in Int
        BY DEF AllocationRow
  <2>2. orders'[o].quantity <= b.quantity
        BY <1>3, <2>1
  <2> QED
      BY <1>1, <1>3, <2>2 DEF Matches
<1>6. \A x \in allocations' : x.order \in DOMAIN orders' /\ x.high = orders'[x.order].high
  <2> SUFFICES ASSUME NEW x \in allocations'
               PROVE  x.order \in DOMAIN orders' /\ x.high = orders'[x.order].high
      OBVIOUS
  <2>1. x.order \in DOMAIN orders /\ x.high = orders[x.order].high
        BY <1>1
  <2>2. orders'[x.order].high = orders[x.order].high
        BY <1>3, <2>1
  <2> QED
      BY <1>4, <2>1, <2>2
<1>7. /\ UNCHANGED <<previews, jobs, nextOrderID>> /\ revision' \in [Lines -> Nat]
      BY Bumped DEF NothingElse
<1>8. /\ IsFiniteSet(DOMAIN orders') /\ nextOrderID' \in Nat \ {0}
       /\ nextOrderID' >= nextOrderID
       /\ o \in Nat \ {0} /\ o < 10 * nextOrderID'
       /\ orders'[o].source \in {0} \cup DOMAIN orders'
      BY <1>3, <1>4, <1>7 DEF StoreInv, OrdersType
<1>9. OrdersType' /\ AllocationsType' /\ Matched'
  <2> DEFINE S == {o}
  <2>1. \A p \in DOMAIN orders' \ S :
            /\ p \in DOMAIN orders /\ orders'[p] = orders[p]
            /\ Of(allocations', p) = Of(allocations, p)
        BY <1>1, <1>3, <1>4
  <2>2. \A p \in DOMAIN orders' \cap S :
            /\ p \in Nat \ {0} /\ p < 10 * nextOrderID'
            /\ orders'[p].source \in {0} \cup DOMAIN orders'
            /\ Matches(orders'[p], Of(allocations', p))
        BY <1>5, <1>8
  <2> HIDE DEF S
  <2> QED
      BY <1>1, <1>3, <1>4, <1>6, <1>8, <2>1, <2>2, TablesChanged
<1>10. RequestsType'
      BY <1>7 DEF StoreInv, RequestsType
<1> QED
    BY <1>7, <1>9, <1>10 DEF StoreInv

LEMMA StartProductionKeeps ==
    ASSUME StoreInv, NEW c, NEW o \in DOMAIN orders, StartProduction(c, o)
    PROVE  StoreInv'
<1>1. /\ orders[o].status = "scheduled" /\ SetStatus({o}, "inProgress")
      /\ allocations' = Started(allocations, o) /\ Bump({o}) /\ NothingElse
      BY DEF StartProduction, CanStart
<1>2. PICK a \in allocations :
          /\ a \in AllocationRow /\ a.order = o
          /\ Of(allocations, o) = {a} /\ OpenOf(allocations, o) = {a}
          /\ a.quantity = orders[o].quantity /\ a.line = orders[o].line
      BY <1>1, OneOpen
<1>3. allocations' = (allocations \ {a})
                        \cup {[a EXCEPT !.locked = TRUE, !.status = "inProgress"]}
      BY <1>1, <1>2 DEF Started
<1> DEFINE b == [a EXCEPT !.locked = TRUE, !.status = "inProgress"]
<1>4. /\ b \in AllocationRow /\ b.order = a.order /\ b.high = a.high
      /\ b.quantity = a.quantity /\ b.line = a.line /\ b.status = "inProgress"
      BY <1>2 DEF AllocationRow
<1> HIDE DEF b
<1>5. allocations' = (allocations \ {a}) \cup {b}
      BY <1>3 DEF b
<1> QED
    BY <1>1, <1>2, <1>4, <1>5, OrderSettled

LEMMA CompleteProductionKeeps ==
    ASSUME StoreInv, NEW c, NEW o \in DOMAIN orders, NEW day, CompleteProduction(c, o, day)
    PROVE  StoreInv'
<1> DEFINE done == {a \in OpenOf(allocations, o) : a.day = day}
<1>1. /\ orders[o].status = "inProgress" /\ SetStatus({o}, "completed")
      /\ \E a \in OpenOf(allocations, o) : a.day = day
      /\ allocations' = (allocations \ done) \cup
             {[a EXCEPT !.locked = TRUE, !.status = "completed"] : a \in done}
      /\ Bump({o}) /\ NothingElse
      BY DEF CompleteProduction, CanConfirm
<1>2. PICK a \in allocations :
          /\ a \in AllocationRow /\ a.order = o
          /\ Of(allocations, o) = {a} /\ OpenOf(allocations, o) = {a}
          /\ a.quantity = orders[o].quantity /\ a.line = orders[o].line
      BY <1>1, OneOpen
<1>3. done = {a}
      BY <1>1, <1>2
<1>4. allocations' = (allocations \ {a})
                        \cup {[a EXCEPT !.locked = TRUE, !.status = "completed"]}
  <2> HIDE DEF done
  <2> QED
      BY <1>1, <1>3
<1> DEFINE b == [a EXCEPT !.locked = TRUE, !.status = "completed"]
<1>5. /\ b \in AllocationRow /\ b.order = a.order /\ b.high = a.high
      /\ b.quantity = a.quantity /\ b.line = a.line /\ b.status = "completed"
      BY <1>2 DEF AllocationRow
<1> HIDE DEF b
<1>6. allocations' = (allocations \ {a}) \cup {b}
      BY <1>4 DEF b
<1> QED
    BY <1>1, <1>2, <1>5, <1>6, OrderSettled

LEMMA PartialProductionKeeps ==
    ASSUME StoreInv, NEW c, NEW o \in DOMAIN orders, NEW day, NEW produced \in Nat \ {0},
           PartialProduction(c, o, day, produced)
    PROVE  StoreInv'
<1> DEFINE done == {a \in OpenOf(allocations, o) : a.day = day}
           part == NextPart(o, DOMAIN orders)
           order == orders[o]
           cut == [order EXCEPT !.quantity = produced, !.status = "completed"]
           rest == Remainder(order, o, produced, revision[order.line])
           D == DOMAIN orders
<1>1. /\ produced < order.quantity /\ order.status = "inProgress" /\ part # NoPart
      /\ \E a \in OpenOf(allocations, o) : a.day = day
      /\ orders' = With([orders EXCEPT ![o].quantity = produced, ![o].status = "completed"],
                        part, rest)
      /\ allocations' = (allocations \ OpenOf(allocations, o)) \cup
             {[a EXCEPT !.locked = TRUE, !.status = "completed"] : a \in done}
      /\ Bump({o}) /\ NothingElse
      BY DEF PartialProduction, CanConfirm
<1>2. /\ o \in Nat \ {0} /\ o < 10 * nextOrderID /\ nextOrderID \in Nat \ {0}
      /\ order \in OrderRow /\ order.source \in {0} \cup D /\ IsFiniteSet(D)
      /\ orders \in [D -> OrderRow]
      BY DEF StoreInv, OrdersType
<1>3. part \notin D /\ part \in Nat \ {0} /\ part < 10 * nextOrderID
  <2>1. part \in o + 1 .. Original(o) + MaxParts /\ part \notin D
        BY <1>1, <1>2, NextPartType
  <2> HIDE DEF part
  <2> QED
      BY <1>2, <2>1, PartBelow
<1> HIDE DEF part
<1>4. /\ DOMAIN orders' = D \cup {part}
      /\ orders'[part] = rest /\ orders'[o] = cut
      /\ \A p \in D \ {o} : orders'[p] = orders[p]
      /\ orders' = [p \in DOMAIN orders' |-> orders'[p]]
  <2> DEFINE table == [orders EXCEPT ![o].quantity = produced, ![o].status = "completed"]
  <2>1. DOMAIN table = D /\ table[o] = cut /\ \A p \in D \ {o} : table[p] = orders[p]
    <3> HIDE DEF order
    <3>1. table = [orders EXCEPT ![o] = [[orders[o] EXCEPT !.quantity = produced]
                                            EXCEPT !.status = "completed"]]
          BY <1>2
    <3> QED
        BY <1>2, <3>1 DEF order
  <2>2. orders' = With(table, part, rest)
        BY <1>1
  <2> HIDE DEF table, rest, cut
  <2> QED
      BY <1>3, <2>1, <2>2 DEF With
<1>5. /\ order.quantity \in 1 .. MaxQuantity /\ revision[order.line] \in Nat
      /\ MaxQuantity \in Nat /\ produced < order.quantity
      BY <1>1, <1>2, RulesAssumption DEF OrderRow, StoreInv
<1> HIDE DEF order
<1>6. /\ cut \in OrderRow /\ cut.status = "completed" /\ cut.quantity = produced
      /\ cut.source = order.source /\ cut.high = order.high
  <2>1. produced \in 1 .. MaxQuantity
        BY <1>5
  <2> QED
      BY <1>2, <2>1 DEF OrderRow, Statuses
<1>7. /\ rest \in OrderRow /\ rest.status = "pending" /\ rest.source = o
  <2> DEFINE left == order.quantity - produced
             now == revision[order.line]
  <2>1. left \in 1 .. MaxQuantity /\ now \in Nat /\ o \in Nat
        BY <1>2, <1>5
  <2> HIDE DEF left, now
  <2>2. rest = [order EXCEPT !.quantity = left, !.status = "pending", !.source = o,
                             !.createdAt = now]
        BY DEF Remainder, left, now
  <2> QED
      BY <1>2, <2>1, <2>2 DEF OrderRow, Statuses
<1>8. PICK a \in allocations :
          /\ a \in AllocationRow /\ a.order = o /\ a.high = order.high
          /\ Of(allocations, o) = {a} /\ OpenOf(allocations, o) = {a}
          /\ a.quantity = order.quantity /\ a.line = order.line
      BY <1>1, OneOpen DEF order
<1> DEFINE b == [a EXCEPT !.locked = TRUE, !.status = "completed"]
<1>9. /\ b \in AllocationRow /\ b.order = o /\ b.high = a.high
      /\ b.quantity = a.quantity /\ b.line = a.line /\ b.status = "completed"
      BY <1>8 DEF AllocationRow
<1>10. allocations' = (allocations \ {a}) \cup {b}
  <2>1. done = {a}
        BY <1>1, <1>8
  <2> HIDE DEF done
  <2> QED
      BY <1>1, <1>8, <2>1
<1> HIDE DEF b, cut, rest
<1>11. /\ Of(allocations', o) = {b}
       /\ \A p : p # o => Of(allocations', p) = Of(allocations, p)
       /\ allocations' \subseteq AllocationRow /\ IsFiniteSet(allocations')
       /\ \A x \in allocations' : x.order \in D /\ x.high = orders[x.order].high
      BY <1>8, <1>9, <1>10, AllocationReplaced
<1>12. Of(allocations', part) = {}
      BY <1>3, <1>11 DEF Of
<1>13. Matches(cut, Of(allocations', o)) /\ Matches(rest, Of(allocations', part))
  <2>1. b.quantity >= cut.quantity
        BY <1>5, <1>6, <1>8, <1>9
  <2> QED
      BY <1>6, <1>7, <1>9, <1>11, <1>12, <2>1 DEF Matches
<1>14. orders' \in [DOMAIN orders' -> OrderRow] /\ IsFiniteSet(DOMAIN orders')
  <2>1. \A p \in DOMAIN orders' : orders'[p] \in OrderRow
        BY <1>2, <1>4, <1>6, <1>7
  <2>2. IsFiniteSet(DOMAIN orders')
        BY <1>2, <1>4, FS_AddElement
  <2> QED
      BY <1>4, <2>1, <2>2
<1>15. \A x \in allocations' : x.order \in DOMAIN orders' /\ x.high = orders'[x.order].high
  <2> SUFFICES ASSUME NEW x \in allocations'
               PROVE  x.order \in DOMAIN orders' /\ x.high = orders'[x.order].high
      OBVIOUS
  <2>1. x.order \in D /\ x.high = orders[x.order].high
        BY <1>11
  <2>2. orders'[x.order].high = orders[x.order].high
        BY <1>4, <1>6, <2>1 DEF order
  <2> QED
      BY <1>4, <2>1, <2>2
<1>16. /\ UNCHANGED <<previews, jobs, nextOrderID>> /\ revision' \in [Lines -> Nat]
      BY <1>1, Bumped DEF NothingElse
<1>17. OrdersType' /\ AllocationsType' /\ Matched'
  <2> DEFINE S == {o, part}
  <2>1. \A p \in DOMAIN orders' \ S :
            /\ p \in DOMAIN orders /\ orders'[p] = orders[p]
            /\ Of(allocations', p) = Of(allocations, p)
        BY <1>4, <1>11
  <2>2. \A p \in DOMAIN orders' \cap S :
            /\ p \in Nat \ {0} /\ p < 10 * nextOrderID'
            /\ orders'[p].source \in {0} \cup DOMAIN orders'
            /\ Matches(orders'[p], Of(allocations', p))
        BY <1>2, <1>3, <1>4, <1>6, <1>7, <1>13, <1>16
  <2>3. /\ DOMAIN orders \subseteq DOMAIN orders'
        /\ nextOrderID' \in Nat \ {0} /\ nextOrderID' >= nextOrderID
        BY <1>2, <1>4, <1>16
  <2> HIDE DEF S
  <2> QED
      BY <1>11, <1>14, <1>15, <2>1, <2>2, <2>3, TablesChanged
<1>18. RequestsType'
      BY <1>16 DEF StoreInv, RequestsType
<1> QED
    BY <1>16, <1>17, <1>18 DEF StoreInv

(***************************************************************************)
(* The execution of a job                                                  *)
(***************************************************************************)
\* The tables have the types that a plan reads.
LEMMA StoreTables ==
    ASSUME RulesAssumption, StoreInv
    PROVE  IsOrderTable(orders) /\ IsCalendar(allocations)
<1>1. IsOrderTable(orders)
  <2>1. \A o \in DOMAIN orders : orders[o] \in OrderRow
        BY DEF StoreInv, OrdersType
  <2> QED
      BY <2>1 DEF StoreInv, OrdersType, OrderRow, RulesAssumption, IsOrderTable
<1>2. IsCalendar(allocations)
      BY DEF StoreInv, AllocationsType, AllocationRow, RulesAssumption, IsCalendar
<1> QED
    BY <1>1, <1>2

\* What the job plans is of the selected orders, no more of any than it needs, and all
\* of it unless one is late.
LEMMA SplitOfRequest ==
    ASSUME RulesAssumption, StoreInv, NEW req \in Asked,
           NEW plan, plan = PlanLocked(req),
           NEW split, split = Split(orders, plan.allocations), PartsSuffice(split)
    PROVE  /\ PiecesFit(orders, req, split)
           /\ NobodyLate(plan.conflicts) => WholePlanned(orders, req, split)
           /\ ~req.manualForce => RoomLeft(allocations, req, split)
<1>1. IsRequest(req)
      BY DEF Asked, Lines, IsRequest
<1> QED
    BY <1>1, StoreTables, SplitOfPlan DEF PlanLocked

\* A job schedules orders of its line: pending ones, and those that it may move.
LEMMA JobSelects ==
    ASSUME StoreInv, NEW j \in DOMAIN jobs, NEW plan, MayExecute(jobs[j], plan),
           NEW o \in Selected(orders, jobs[j].request)
    PROVE  /\ o \in DOMAIN orders /\ orders[o].line = jobs[j].line
           /\ \/ orders[o].status = "pending"
              \/ orders[o].status = "scheduled" /\ ~orders[o].high
                    /\ o \in jobs[j].request.resolution
                    /\ \A a \in Of(allocations, o) : a.status = "scheduled"
<1>1. /\ jobs[j].line = jobs[j].request.line
      /\ \A p \in jobs[j].request.resolution : CanMove(orders, allocations, jobs[j].line, p)
      BY DEF MayExecute, StoreInv, RequestsType
<1> QED
    BY <1>1 DEF Selected, CanMove

\* What a piece of a job says of its order, and the order and its row afterwards.
ScheduledBy(piece, req, line) ==
    LET o   == piece.order
        row == Placed(piece, line)
    IN  /\ o \in DOMAIN orders' /\ o \in Nat \ {0} /\ o < 10 * nextOrderID
        /\ o \in DOMAIN orders <=> piece.source = 0
        /\ o \in DOMAIN orders => o \in Selected(orders, req)
        /\ orders'[o] \in OrderRow /\ orders'[o].source \in {0} \cup DOMAIN orders
        /\ orders'[o].status = "scheduled" /\ orders'[o].quantity = piece.quantity
        /\ orders'[o].high = piece.locked
        /\ row \in AllocationRow /\ Of(allocations', o) = {row}
        /\ Matches(orders'[o], {row})

LEMMA PieceScheduled ==
    ASSUME RulesAssumption, StoreInv, NEW j \in DOMAIN jobs,
           NEW plan, plan = PlanLocked(jobs[j].request),
           MayExecute(jobs[j], plan), CompleteJob(j, plan),
           NEW split, split = Split(orders, plan.allocations), NEW i \in DOMAIN split
    PROVE  ScheduledBy(split[i], jobs[j].request, jobs[j].line)
<1> DEFINE req == jobs[j].request
           line == jobs[j].line
           o == split[i].order
           row == Placed(split[i], line)
           origin == Origin(split[i])
           now == revision[line]
<1>1. /\ PartsSuffice(split) /\ MayExecute(jobs[j], plan)
      /\ orders' = OrdersPlanned(orders, split, PlannedOrders(split), now)
      /\ allocations' = AllocationsPlanned(allocations, split, line)
      BY DEF CompleteJob
<1>2. req \in Asked /\ line \in Lines /\ now \in Nat
  <2>1. jobs[j] \in JobRow
        BY DEF StoreInv, RequestsType
  <2> QED
      BY <2>1 DEF JobRow, StoreInv
<1>3. /\ WellSplit(orders, split)
      /\ origin \in Selected(orders, req) /\ split[i].day \in Int
      /\ split[i].quantity \in 1 .. orders[origin].quantity
      /\ split[i].locked = orders[origin].high
  <2>1. PiecesFit(orders, req, split)
        BY <1>1, <1>2, SplitOfRequest
  <2> QED
      BY <2>1 DEF PiecesFit
<1>4. /\ origin \in DOMAIN orders /\ orders[origin].line = line
      /\ \/ orders[origin].status = "pending"
         \/ /\ orders[origin].status = "scheduled"
            /\ \A a \in Of(allocations, origin) : a.status = "scheduled"
      BY <1>1, <1>3, JobSelects
<1>5. /\ orders[origin] \in OrderRow /\ origin \in Nat \ {0}
      /\ origin < 10 * nextOrderID /\ nextOrderID \in Nat
      /\ orders[origin].source \in {0} \cup DOMAIN orders
      /\ 0 \notin DOMAIN orders
      BY <1>4 DEF StoreInv, OrdersType
<1>6. split[i].quantity \in 1 .. MaxQuantity
      BY <1>3, <1>5 DEF OrderRow, RulesAssumption
<1>7. o \in PlannedOrders(split)
      BY DEF PlannedOrders
<1>8. /\ DOMAIN orders' = DOMAIN orders \cup Parts(split)
      /\ Parts(split) = PlannedOrders(split) \ DOMAIN orders
      /\ split[i].source = 0 <=> o \in DOMAIN orders
      /\ AsPlanned(orders, split[i], PlannedOrders(split), now, orders'[o])
  <2> DEFINE resized == PlannedOrders(split)
  <2>1. orders' = OrdersPlanned(orders, split, resized, now)
        BY <1>1
  <2>2. WellSplit(orders, split) /\ 0 \notin DOMAIN orders
        BY <1>3, <1>5
  <2> HIDE DEF resized, now
  <2>3. DOMAIN orders' = DOMAIN orders \cup Parts(split)
        BY <2>1 DEF OrdersPlanned
  <2>4. Parts(split) = PlannedOrders(split) \ DOMAIN orders
        BY <2>2, PieceFound DEF Parts, PlannedOrders
  <2>5. split[i].source = 0 <=> o \in DOMAIN orders
        BY <2>2, PieceFound
  <2>6. AsPlanned(orders, split[i], resized, now, orders'[o])
        BY <2>1, <2>2, RowsAfterPlan
  <2> QED
      BY <2>3, <2>4, <2>5, <2>6 DEF resized
<1>9. IF split[i].source = 0
      THEN orders'[o] = [orders[o] EXCEPT
              !.quantity = split[i].quantity,
              !.status = IF @ = "pending" THEN "scheduled" ELSE @]
      ELSE orders'[o] = [orders[split[i].source] EXCEPT
              !.quantity = split[i].quantity, !.status = "scheduled",
              !.source = split[i].source, !.createdAt = now]
      BY <1>7, <1>8 DEF AsPlanned
<1>10. Of(allocations', o) = (Of(allocations, o) \ OpenOf(allocations, o)) \cup {row}
      BY <1>1, <1>3, AllocationsAfterPlan
<1>11. /\ row.order = o /\ row.line = line /\ row.day = split[i].day
       /\ row.quantity = split[i].quantity /\ row.high = split[i].locked
       /\ row.locked = split[i].locked /\ row.status = "scheduled"
      BY DEF Placed
<1>12. o \in Nat \ {0} /\ o < 10 * nextOrderID /\ (o \in DOMAIN orders <=> split[i].source = 0)
  <2>1. CASE split[i].source = 0
        BY <1>5, <1>8, <2>1 DEF Origin
  <2>2. CASE split[i].source # 0
    <3>1. /\ o \in origin + 1 .. Original(origin) + MaxParts /\ o \notin DOMAIN orders
          BY <1>3, <2>2 DEF WellSplit, Origin
    <3> HIDE DEF o, origin
    <3> QED
        BY <1>5, <2>2, <3>1, PartBelow
  <2> QED
      BY <2>1, <2>2
<1>13. Of(allocations, o) \ OpenOf(allocations, o) = {}
  <2>1. CASE split[i].source = 0
    <3>1. o = origin
          BY <2>1 DEF Origin
    <3>2. CASE orders[origin].status = "pending"
      <4>1. Of(allocations, origin) = {}
            BY <1>4, <3>2 DEF StoreInv, Matched, Matches
      <4> QED
          BY <3>1, <4>1
    <3>3. CASE \A a \in Of(allocations, origin) : a.status = "scheduled"
          BY <3>1, <3>3 DEF OpenOf
    <3> QED
        BY <1>4, <3>2, <3>3
  <2>2. CASE split[i].source # 0
        BY <1>12, <2>2 DEF Of, StoreInv, AllocationsType
  <2> QED
      BY <2>1, <2>2
<1>14. /\ orders'[o] \in OrderRow /\ orders'[o].source \in {0} \cup DOMAIN orders
       /\ orders'[o].status = "scheduled" /\ orders'[o].quantity = split[i].quantity
       /\ orders'[o].high = orders[origin].high /\ orders'[o].line = orders[origin].line
  <2> DEFINE order == orders[origin]
             wafers == split[i].quantity
             source == split[i].source
  <2>1. /\ order \in OrderRow /\ order.status \in {"pending", "scheduled"}
        /\ wafers \in 1 .. MaxQuantity /\ now \in Nat
        /\ order.source \in {0} \cup DOMAIN orders
        BY <1>2, <1>4, <1>5, <1>6
  <2>2. CASE split[i].source = 0
    <3>1. orders'[o] = [order EXCEPT !.quantity = wafers,
                                     !.status = IF @ = "pending" THEN "scheduled" ELSE @]
          BY <1>9, <2>2 DEF Origin
    <3> HIDE DEF order, wafers, o, now
    <3>2. /\ orders'[o] \in OrderRow /\ orders'[o].source = order.source
          /\ orders'[o].status = "scheduled" /\ orders'[o].quantity = wafers
          /\ orders'[o].high = order.high /\ orders'[o].line = order.line
          BY <2>1, <3>1 DEF OrderRow, Statuses
    <3> QED
        BY <2>1, <3>2 DEF order, wafers
  <2>3. CASE split[i].source # 0
    <3>1. orders'[o] = [order EXCEPT !.quantity = wafers, !.status = "scheduled",
                                     !.source = source, !.createdAt = now]
          BY <1>9, <2>3 DEF Origin
    <3>2. source = origin
          BY <2>3 DEF Origin
    <3>3. source \in Nat /\ source \in DOMAIN orders
          BY <1>4, <1>5, <3>2
    <3> HIDE DEF order, wafers, o, now, source
    <3>4. /\ orders'[o] \in OrderRow /\ orders'[o].source = source
          /\ orders'[o].status = "scheduled" /\ orders'[o].quantity = wafers
          /\ orders'[o].high = order.high /\ orders'[o].line = order.line
          BY <2>1, <3>1, <3>3 DEF OrderRow, Statuses
    <3> QED
        BY <3>3, <3>4 DEF order, wafers
  <2> QED
      BY <2>2, <2>3
<1>15. row \in AllocationRow
  <2>1. split[i].locked \in BOOLEAN
        BY <1>3, <1>5 DEF OrderRow
  <2>2. split[i].order \in Nat
        BY <1>12
  <2> DEFINE piece == split[i]
  <2>3. /\ line \in Lines /\ piece.locked \in BOOLEAN /\ piece.order \in Nat
        /\ piece.day \in Int /\ piece.quantity \in 1 .. MaxQuantity
        /\ row = Placed(piece, line)
        BY <1>2, <1>3, <1>6, <2>1, <2>2
  <2> HIDE DEF line, piece, row
  <2> QED
      BY <2>3 DEF AllocationRow, Placed
<1>16. Of(allocations', o) = {row}
      BY <1>10, <1>13
<1>17. Matches(orders'[o], {row})
      BY <1>4, <1>11, <1>14 DEF Matches
<1>18. o \in DOMAIN orders'
      BY <1>7, <1>8
<1>19. o \in DOMAIN orders => o \in Selected(orders, req)
      BY <1>3, <1>12 DEF Origin
<1> QED
    BY <1>3, <1>12, <1>14, <1>15, <1>16, <1>17, <1>18, <1>19 DEF ScheduledBy

\* A job that is executed leaves its orders with one row each, and nobody else's.
LEMMA CompleteJobKeeps ==
    ASSUME RulesAssumption, StoreInv, NEW j \in DOMAIN jobs,
           LET plan == PlanLocked(jobs[j].request) IN
              MayExecute(jobs[j], plan) /\ CompleteJob(j, plan)
    PROVE  StoreInv'
<1> DEFINE req == jobs[j].request
           plan == PlanLocked(req)
           line == jobs[j].line
           split == Split(orders, plan.allocations)
           S == PlannedOrders(split)
           now == revision[line]
           rows == {Placed(split[i], line) : i \in DOMAIN split}
<1>1. /\ PartsSuffice(split) /\ MayExecute(jobs[j], plan)
      /\ orders' = OrdersPlanned(orders, split, S, now)
      /\ allocations' = AllocationsPlanned(allocations, split, line)
      /\ jobs' = [jobs EXCEPT ![j].status = "completed"]
      /\ revision' = [revision EXCEPT ![line] = @ + 1]
      /\ previews' = Without(previews, jobs[j].preview)
      /\ UNCHANGED <<nextOrderID>>
      BY DEF CompleteJob
<1>2. req \in Asked /\ line \in Lines /\ now \in Nat
  <2>1. jobs[j] \in JobRow
        BY DEF StoreInv, RequestsType
  <2> QED
      BY <2>1 DEF JobRow, StoreInv
<1>3. WellSplit(orders, split) /\ IsFiniteSet(DOMAIN split)
  <2>1. PiecesFit(orders, req, split)
        BY <1>1, <1>2, SplitOfRequest
  <2> QED
      BY <2>1 DEF PiecesFit
<1>4. 0 \notin DOMAIN orders /\ IsFiniteSet(DOMAIN orders) /\ nextOrderID \in Nat \ {0}
      BY DEF StoreInv, OrdersType
<1>5. ASSUME NEW i \in DOMAIN split
      PROVE  /\ ScheduledBy(split[i], req, line)
             /\ LET o == split[i].order IN
                /\ o \in DOMAIN orders' /\ o \in Nat \ {0} /\ o < 10 * nextOrderID
                /\ orders'[o] \in OrderRow /\ orders'[o].source \in {0} \cup DOMAIN orders
                /\ orders'[o].high = split[i].locked
                /\ Placed(split[i], line) \in AllocationRow
                /\ Of(allocations', o) = {Placed(split[i], line)}
                /\ Matches(orders'[o], {Placed(split[i], line)})
  <2>1. /\ plan = PlanLocked(jobs[j].request) /\ split = Split(orders, plan.allocations)
        /\ CompleteJob(j, plan)
        OBVIOUS
  <2> HIDE DEF split, plan
  <2>2. ScheduledBy(split[i], req, line)
        BY <1>1, <2>1, PieceScheduled
  <2> QED
      BY <2>2 DEF ScheduledBy
<1>6. /\ DOMAIN orders' = DOMAIN orders \cup Parts(split)
      /\ orders' = [o \in DOMAIN orders' |-> orders'[o]]
      BY <1>1 DEF OrdersPlanned
<1>7. Parts(split) = S \ DOMAIN orders
      BY <1>3, <1>4, PieceFound DEF Parts, PlannedOrders
<1>8. \A o \in DOMAIN orders \ S : orders'[o] = orders[o]
      BY <1>1 DEF OrdersPlanned
<1>9. \A o : o \notin S => Of(allocations', o) = Of(allocations, o)
      BY <1>1, <1>3, AllocationsAfterPlan
<1>10. allocations' \subseteq allocations \cup rows
      BY <1>1, <1>3, AllocationsAfterPlan
<1>11. \A o \in S : \E i \in DOMAIN split : o = split[i].order
      BY DEF PlannedOrders
<1>12. IsFiniteSet(S) /\ IsFiniteSet(rows)
  <2>1. IsFiniteSet(S)
    <3> DEFINE f == [i \in DOMAIN split |-> split[i].order]
    <3>1. f \in Surjection(DOMAIN split, S)
          BY DEF Surjection, PlannedOrders
    <3> HIDE DEF f, S, split
    <3> QED
        BY <1>3, <3>1, FS_Surjection
  <2>2. IsFiniteSet(rows)
    <3> DEFINE f == [i \in DOMAIN split |-> Placed(split[i], line)]
    <3>1. f \in Surjection(DOMAIN split, rows)
          BY DEF Surjection
    <3> HIDE DEF f, rows, split
    <3> QED
        BY <1>3, <3>1, FS_Surjection
  <2> QED
      BY <2>1, <2>2
<1> HIDE DEF split, S, plan, rows, now
<1>13. orders' \in [DOMAIN orders' -> OrderRow] /\ IsFiniteSet(DOMAIN orders')
  <2>1. \A o \in DOMAIN orders' : orders'[o] \in OrderRow
    <3>1. \A o \in DOMAIN orders : orders[o] \in OrderRow
          BY DEF StoreInv, OrdersType
    <3> QED
        BY <1>5, <1>6, <1>7, <1>8, <1>11, <3>1
  <2>2. IsFiniteSet(Parts(split))
        BY <1>7, <1>12, FS_Subset
  <2>3. IsFiniteSet(DOMAIN orders')
        BY <1>4, <1>6, <2>2, FS_Union
  <2> QED
      BY <1>6, <2>1, <2>3
<1>14. \A o \in DOMAIN orders' \ S :
          /\ o \in DOMAIN orders /\ orders'[o] = orders[o]
          /\ Of(allocations', o) = Of(allocations, o)
      BY <1>6, <1>7, <1>8, <1>9
<1>15. \A o \in DOMAIN orders' \cap S :
          /\ o \in Nat \ {0} /\ o < 10 * nextOrderID'
          /\ orders'[o].source \in {0} \cup DOMAIN orders'
          /\ Matches(orders'[o], Of(allocations', o))
  <2> SUFFICES ASSUME NEW o \in S
               PROVE  /\ o \in Nat \ {0} /\ o < 10 * nextOrderID'
                      /\ orders'[o].source \in {0} \cup DOMAIN orders'
                      /\ Matches(orders'[o], Of(allocations', o))
      OBVIOUS
  <2>1. PICK i \in DOMAIN split : o = split[i].order
        BY <1>11
  <2> QED
      BY <1>1, <1>5, <1>6, <2>1
<1>16. IsFiniteSet(allocations')
  <2>1. IsFiniteSet(allocations)
        BY DEF StoreInv, AllocationsType
  <2>2. IsFiniteSet(allocations \cup rows)
        BY <1>12, <2>1, FS_Union
  <2> QED
      BY <1>10, <2>2, FS_Subset
<1>17. ASSUME NEW a \in allocations'
       PROVE  /\ a \in AllocationRow /\ a.order \in DOMAIN orders'
              /\ a.high = orders'[a.order].high
  <2>1. a \in Of(allocations', a.order)
        BY DEF Of
  <2>2. CASE a.order \in S
    <3>1. PICK i \in DOMAIN split : a.order = split[i].order
          BY <1>11, <2>2
    <3>2. a = Placed(split[i], line)
          BY <1>5, <2>1, <3>1
    <3>3. a.high = split[i].locked
          BY <3>2 DEF Placed
    <3> QED
        BY <1>5, <3>1, <3>2, <3>3
  <2>3. CASE a.order \notin S
    <3>1. a \in allocations
          BY <1>9, <2>1, <2>3 DEF Of
    <3>2. a \in AllocationRow /\ a.order \in DOMAIN orders /\ a.high = orders[a.order].high
          BY <3>1 DEF StoreInv, AllocationsType
    <3> QED
        BY <1>6, <1>8, <2>3, <3>2
  <2> QED
      BY <2>2, <2>3
<1>18. /\ DOMAIN orders \subseteq DOMAIN orders' /\ nextOrderID' \in Nat \ {0}
       /\ nextOrderID' >= nextOrderID
      BY <1>1, <1>4, <1>6
<1>19. OrdersType' /\ AllocationsType' /\ Matched'
  <2>1. allocations' \subseteq AllocationRow
        BY <1>17
  <2>2. \A a \in allocations' : a.order \in DOMAIN orders' /\ a.high = orders'[a.order].high
        BY <1>17
  <2> QED
      BY <1>13, <1>14, <1>15, <1>16, <1>18, <2>1, <2>2, TablesChanged
<1>20. RequestsType'
  <2>1. /\ DOMAIN previews' \subseteq DOMAIN previews
        /\ \A q \in DOMAIN previews' : previews'[q] = previews[q]
        BY <1>1 DEF Without
  <2> QED
      BY <1>1, <2>1, JobSet
<1>21. revision' \in [Lines -> Nat]
      BY <1>1, <1>2 DEF StoreInv, now
<1> QED
    BY <1>19, <1>20, <1>21 DEF StoreInv

LEMMA ExecuteScheduleJobKeeps ==
    ASSUME RulesAssumption, StoreInv, NEW j \in DOMAIN jobs, ExecuteScheduleJob(j)
    PROVE  StoreInv'
<1> DEFINE plan == PlanLocked(jobs[j].request)
<1>1. CASE MayExecute(jobs[j], plan) /\ CompleteJob(j, plan)
      BY <1>1, CompleteJobKeeps
<1>2. CASE FailJob(j)
  <2>1. /\ jobs' = [jobs EXCEPT ![j].status = "failed"]
        /\ UNCHANGED <<orders, allocations, revision, previews, nextOrderID>>
        BY <1>2 DEF FailJob
  <2>2. RequestsType'
        BY <2>1, JobSet
  <2> QED
      BY <2>1, <2>2, RequestsKeep
<1> QED
    BY <1>1, <1>2 DEF ExecuteScheduleJob

(***************************************************************************)
(* The invariant holds in every state                                      *)
(***************************************************************************)
LEMMA RequestTypes ==
    ASSUME StoreAssumption, RulesAssumption, StoreInv, NEW c \in Schedulers,
           NEW start \in StartDays, NEW chosen \in ChosenOrders, NEW option \in Options,
           NEW resolution \in {{}} \cup {{o} : o \in DOMAIN orders}
    PROVE  Request(c.line, start, chosen, resolution, option, NoDraft) \in Asked
<1>1. DOMAIN orders \subseteq Nat
      BY DEF StoreInv, OrdersType
<1>2. chosen \in SUBSET Nat /\ resolution \in SUBSET Nat
      BY <1>1 DEF ChosenOrders
<1>3. c.line \in Lines /\ start \in Int /\ option.force \in BOOLEAN /\ option.late \in BOOLEAN
      BY DEF StoreAssumption, Lines
<1> QED
    BY <1>2, <1>3 DEF Request, Asked

LEMMA DraftRequestType ==
    ASSUME RulesAssumption, NEW wanted \in Drafts, Wanted(wanted)
    PROVE  LET req == Request(wanted.line, Today, {}, {}, NoOption, wanted) IN
           req \in Asked /\ req.draft = wanted
<1>1. wanted.line \in Lines /\ Today \in Int
      BY DEF Wanted, Lines, RulesAssumption
<1>2. NoOption.force \in BOOLEAN /\ NoOption.late \in BOOLEAN
      BY DEF NoOption
<1> QED
    BY <1>1, <1>2 DEF Request, Asked

LEMMA SalesNextKeeps ==
    ASSUME StoreAssumption, RulesAssumption, StoreInv, SalesNext
    PROVE  StoreInv'
<1> PICK c \in Sales :
        \/ \E wanted \in Wants : CreateOrder(c, wanted)
        \/ \E o \in DOMAIN orders, change \in Changes : ResubmitOrder(c, o, change)
        \/ \E p \in 1 .. MaxPreviews, wanted \in Drafts :
              PreviewDraft(c, p, Request(wanted.line, Today, {}, {}, NoOption, wanted))
        \/ \E p \in DOMAIN previews, deferDraft \in BOOLEAN, deferred \in SUBSET DOMAIN orders :
              ConfirmPreviewOrder(c, p, deferDraft, deferred)
    BY DEF SalesNext
<1>1. CASE \E wanted \in Wants : CreateOrder(c, wanted)
      BY <1>1, CreateOrderKeeps
<1>2. CASE \E o \in DOMAIN orders, change \in Changes : ResubmitOrder(c, o, change)
      BY <1>2, WaitingOrdersKeep
<1>3. CASE \E p \in 1 .. MaxPreviews, wanted \in Drafts :
              PreviewDraft(c, p, Request(wanted.line, Today, {}, {}, NoOption, wanted))
  <2>1. PICK p \in 1 .. MaxPreviews, wanted \in Drafts :
              PreviewDraft(c, p, Request(wanted.line, Today, {}, {}, NoOption, wanted))
        BY <1>3
  <2> DEFINE req == Request(wanted.line, Today, {}, {}, NoOption, wanted)
  <2>2. Wanted(req.draft) /\ req.draft = wanted
        BY <2>1 DEF PreviewDraft, Request
  <2>3. req \in Asked /\ req.draft \in Drafts
        BY <2>2, DraftRequestType
  <2> HIDE DEF req
  <2> QED
      BY <2>1, <2>3, PreviewsKeep DEF req
<1>4. CASE \E p \in DOMAIN previews, deferDraft \in BOOLEAN, deferred \in SUBSET DOMAIN orders :
              ConfirmPreviewOrder(c, p, deferDraft, deferred)
      BY <1>4, ConfirmPreviewKeeps
<1> QED
    BY <1>1, <1>2, <1>3, <1>4

LEMMA SchedulerNextKeeps ==
    ASSUME StoreAssumption, RulesAssumption, StoreInv, SchedulerNext
    PROVE  StoreInv'
<1> PICK c \in Schedulers :
        \/ \E S \in Bulks : RejectOrders(c, S)
        \/ \E p \in 1 .. MaxPreviews, start \in StartDays, chosen \in ChosenOrders, option \in Options,
             resolution \in {{}} \cup {{o} : o \in DOMAIN orders} :
              PreviewSchedule(c, p, Request(c.line, start, chosen, resolution, option, NoDraft))
        \/ \E j \in 1 .. MaxJobs, p \in DOMAIN previews : CreateScheduleJob(c, j, p)
        \/ \E o \in DOMAIN orders : StartProduction(c, o)
        \/ \E o \in DOMAIN orders : \E day : CompleteProduction(c, o, day)
        \/ \E o \in DOMAIN orders : \E day : \E produced \in 1 .. orders[o].quantity :
              PartialProduction(c, o, day, produced)
    BY DEF SchedulerNext
<1>1. CASE \E S \in Bulks : RejectOrders(c, S)
      BY <1>1, BulksKeep
<1>2. CASE \E p \in 1 .. MaxPreviews, start \in StartDays, chosen \in ChosenOrders, option \in Options,
             resolution \in {{}} \cup {{o} : o \in DOMAIN orders} :
              PreviewSchedule(c, p, Request(c.line, start, chosen, resolution, option, NoDraft))
  <2>1. PICK p \in 1 .. MaxPreviews, start \in StartDays, chosen \in ChosenOrders, option \in Options,
             resolution \in {{}} \cup {{o} : o \in DOMAIN orders} :
              PreviewSchedule(c, p, Request(c.line, start, chosen, resolution, option, NoDraft))
        BY <1>2
  <2> DEFINE req == Request(c.line, start, chosen, resolution, option, NoDraft)
  <2>2. req \in Asked
        BY RequestTypes
  <2> HIDE DEF req
  <2> QED
      BY <2>1, <2>2, PreviewsKeep DEF req
<1>3. CASE \E j \in 1 .. MaxJobs, p \in DOMAIN previews : CreateScheduleJob(c, j, p)
      BY <1>3, CreateScheduleJobKeeps
<1>4. CASE \E o \in DOMAIN orders : StartProduction(c, o)
      BY <1>4, StartProductionKeeps
<1>5. CASE \E o \in DOMAIN orders : \E day : CompleteProduction(c, o, day)
      BY <1>5, CompleteProductionKeeps
<1>6. CASE \E o \in DOMAIN orders : \E day : \E produced \in 1 .. orders[o].quantity :
              PartialProduction(c, o, day, produced)
      BY <1>6, PartialProductionKeeps
<1> QED
    BY <1>1, <1>2, <1>3, <1>4, <1>5, <1>6

LEMMA NextKeeps ==
    ASSUME StoreAssumption, RulesAssumption, StoreInv, [Next]_vars
    PROVE  StoreInv'
<1>1. CASE SalesNext
      BY <1>1, SalesNextKeeps
<1>2. CASE SchedulerNext
      BY <1>2, SchedulerNextKeeps
<1>3. CASE AnyoneNext
      BY <1>3, WaitingOrdersKeep, BulksKeep DEF AnyoneNext
<1>4. CASE JobsNext
      BY <1>4, ExecuteScheduleJobKeeps DEF JobsNext
<1>5. CASE UNCHANGED vars
  <2>1. RequestsType'
        BY <1>5 DEF vars, StoreInv, RequestsType
  <2> QED
      BY <1>5, <2>1, RequestsKeep DEF vars
<1> QED
    BY <1>1, <1>2, <1>3, <1>4, <1>5 DEF Next

\* StoreInv holds in every state of the store, for any lines, claims, orders,
\* requests and bounds: the tables fit together after every request and every job.
THEOREM StoreInvariance == Spec => []StoreInv
<1>1. StoreInv /\ [Next]_vars => StoreInv'
      BY NextKeeps, StoreAssumption, RulesAssumption
<1> QED
    BY <1>1, InitStoreInv, PTL DEF Spec

\* Every order has wafers and every part an origin, and every allocation is one of
\* an order, through all planning, splitting and confirming in part.
THEOREM StoreIsTyped == Spec => []TypeOK
<1>1. StoreInv => TypeOK
  <2> SUFFICES ASSUME StoreInv PROVE TypeOK
      OBVIOUS
  <2>1. ASSUME NEW o \in DOMAIN orders
        PROVE  /\ orders[o].status \in Statuses /\ orders[o].quantity \in 1 .. MaxQuantity
               /\ orders[o].source \in {0} \cup DOMAIN orders
    <3>1. orders[o] \in OrderRow
          BY DEF StoreInv, OrdersType
    <3> QED
        BY <3>1 DEF StoreInv, OrdersType, OrderRow
  <2>2. \A a \in allocations :
            /\ a.order \in DOMAIN orders /\ a.quantity \in 1 .. MaxQuantity
            /\ a.status \in {"scheduled", "inProgress", "completed"}
        BY DEF StoreInv, AllocationsType, AllocationRow
  <2>3. \A j \in DOMAIN jobs : jobs[j].status \in {"queued", "completed", "failed"}
        BY DEF StoreInv, RequestsType, JobRow
  <2> QED
      BY <2>1, <2>2, <2>3 DEF TypeOK
<1> QED
    BY <1>1, StoreInvariance, PTL

(***************************************************************************)
(* What finished orders have on the calendar                               *)
(***************************************************************************)
\* A finished allocation is of all the wafers of its order, unless other orders
\* were made of some.
InFullOrParted(a) == a.quantity = orders[a.order].quantity \/ HasParts(a.order)

FinishedInFull ==
    \A a \in allocations : orders[a.order].status = "completed" => InFullOrParted(a)

\* The orders of the one table are in the other, with their origins.
OriginsKept(rows, next) ==
    /\ DOMAIN rows \subseteq DOMAIN next
    /\ \A p \in DOMAIN rows : next[p].source = rows[p].source

\* An order that was finished has the quantity and the allocation it had.
WasFinished(rows, all, next, a) ==
    /\ a.order \in DOMAIN rows /\ rows[a.order].status = "completed"
    /\ next[a.order].quantity = rows[a.order].quantity /\ a \in all

FinishedStay ==
    /\ OriginsKept(orders, orders')
    /\ \A a \in allocations' : orders'[a.order].status = "completed" =>
          \/ WasFinished(orders, allocations, orders', a)
          \/ a.quantity = orders'[a.order].quantity
          \/ \E p \in DOMAIN orders' : orders'[p].source = a.order

LEMMA FinishedStayInFull ==
    ASSUME FinishedInFull, FinishedStay PROVE FinishedInFull'
<1> SUFFICES ASSUME NEW a \in allocations', orders'[a.order].status = "completed"
             PROVE  \/ a.quantity = orders'[a.order].quantity
                    \/ \E p \in DOMAIN orders' : orders'[p].source = a.order
    BY DEF FinishedInFull, InFullOrParted, HasParts
<1>1. CASE WasFinished(orders, allocations, orders', a)
      BY <1>1 DEF FinishedInFull, InFullOrParted, HasParts, FinishedStay, OriginsKept,
                  WasFinished
<1> QED
    BY <1>1 DEF FinishedStay

\* A step that brings nobody on the calendar and completes nobody.
LEMMA NobodyFinished ==
    ASSUME StoreInv, OriginsKept(orders, orders'), allocations' \subseteq allocations,
           \A o \in DOMAIN orders : orders'[o].status = "completed" => orders'[o] = orders[o]
    PROVE  FinishedStay
<1> SUFFICES ASSUME NEW a \in allocations', orders'[a.order].status = "completed"
             PROVE  WasFinished(orders, allocations, orders', a)
    BY DEF FinishedStay
<1>1. a \in allocations /\ a.order \in DOMAIN orders
      BY DEF StoreInv, AllocationsType
<1> QED
    BY <1>1 DEF WasFinished

LEMMA RequestsFinishNobody ==
    ASSUME StoreInv, NEW c,
           \/ \E wanted : CreateOrder(c, wanted)
           \/ \E o \in DOMAIN orders : \E change :
                 UpdateOrderDueDate(c, o, change) \/ ResubmitOrder(c, o, change)
           \/ \E S \in Bulks : RejectOrders(c, S) \/ CancelOrders(c, S)
           \/ \E p, deferDraft, deferred : ConfirmPreviewOrder(c, p, deferDraft, deferred)
           \/ \E p, req : PreviewDraft(c, p, req) \/ PreviewSchedule(c, p, req)
           \/ \E j, p : CreateScheduleJob(c, j, p)
    PROVE  FinishedStay
<1>1. /\ \A o \in DOMAIN orders : orders[o] \in OrderRow /\ o \in Nat /\ o < 10 * nextOrderID
      /\ nextOrderID \in Nat /\ orders \in [DOMAIN orders -> OrderRow]
      BY DEF StoreInv, OrdersType
<1>2. 10 * nextOrderID \notin DOMAIN orders
      BY <1>1
<1>3. CASE \E wanted : CreateOrder(c, wanted)
  <2>1. PICK wanted : CreateOrder(c, wanted)
        BY <1>3
  <2> DEFINE id == 10 * nextOrderID
             row == NewOrder(wanted, c.subject, revision[wanted.line])
  <2>2. orders' = With(orders, id, row) /\ allocations' = allocations
        BY <2>1 DEF CreateOrder
  <2> HIDE DEF row, id
  <2>3. OriginsKept(orders, orders') /\ \A o \in DOMAIN orders : orders'[o] = orders[o]
        BY <1>2, <2>2 DEF With, OriginsKept, id
  <2> QED
      BY <2>2, <2>3, NobodyFinished
<1>4. CASE \E o \in DOMAIN orders : \E change :
              UpdateOrderDueDate(c, o, change) \/ ResubmitOrder(c, o, change)
  <2>1. PICK o \in DOMAIN orders :
            \E change : UpdateOrderDueDate(c, o, change) \/ ResubmitOrder(c, o, change)
        BY <1>4
  <2>2. PICK change : UpdateOrderDueDate(c, o, change) \/ ResubmitOrder(c, o, change)
        BY <2>1
  <2>3. allocations' \subseteq allocations /\ orders[o].status \in {"pending", "rejected"}
        BY <2>2 DEF UpdateOrderDueDate, CanUpdate, ResubmitOrder, CanResubmit, RemoveAllocations
  <2> DEFINE row == Amended(orders[o], change)
             back == [row EXCEPT !.status = "pending"]
  <2>4. \/ orders' = [orders EXCEPT ![o] = row]
        \/ orders' = [orders EXCEPT ![o] = back]
        BY <2>2 DEF UpdateOrderDueDate, ResubmitOrder, Write
  <2>5. /\ row.source = orders[o].source /\ row.status = orders[o].status
        /\ back.source = orders[o].source /\ back.status = "pending"
        BY <1>1 DEF Amended, OrderRow
  <2> HIDE DEF row, back
  <2>6. /\ OriginsKept(orders, orders')
        /\ \A p \in DOMAIN orders : orders'[p].status = "completed" => orders'[p] = orders[p]
        BY <1>1, <2>3, <2>4, <2>5 DEF OriginsKept
  <2> QED
      BY <2>3, <2>6, NobodyFinished
<1>5. CASE \E S \in Bulks : RejectOrders(c, S) \/ CancelOrders(c, S)
  <2>1. PICK S \in Bulks : RejectOrders(c, S) \/ CancelOrders(c, S)
        BY <1>5
  <2>2. PICK status \in {"rejected", "cancelled"} : SetStatus(S, status)
        BY <2>1 DEF RejectOrders, CancelOrders
  <2>3. S \in SUBSET DOMAIN orders /\ allocations' \subseteq allocations
        BY <2>1 DEF Bulks, RejectOrders, CancelOrders, RemoveAllocations
  <2>4. status \in Statuses
        BY DEF Statuses
  <2>5. /\ DOMAIN orders' = DOMAIN orders
        /\ \A o \in DOMAIN orders \ S : orders'[o] = orders[o]
        /\ \A o \in S : orders'[o].status = status /\ orders'[o].source = orders[o].source
        BY <2>2, <2>3, <2>4, RowsSet
  <2>6. /\ OriginsKept(orders, orders')
        /\ \A o \in DOMAIN orders : orders'[o].status = "completed" => orders'[o] = orders[o]
        BY <2>2, <2>5 DEF OriginsKept
  <2> QED
      BY <2>3, <2>6, NobodyFinished
<1>6. CASE \E p, deferDraft, deferred : ConfirmPreviewOrder(c, p, deferDraft, deferred)
  <2>1. PICK p, deferDraft, deferred : ConfirmPreviewOrder(c, p, deferDraft, deferred)
        BY <1>6
  <2> DEFINE draft == previews[p].request.draft
             id == 10 * nextOrderID
             order == NewOrder(draft, c.subject, revision[draft.line])
             row == [order EXCEPT !.status = IF deferDraft THEN "rejected" ELSE @]
             table == [o \in DOMAIN orders |->
                          IF o \in deferred THEN [orders[o] EXCEPT !.status = "rejected"]
                                            ELSE orders[o]]
  <2>2. orders' = With(table, id, row) /\ allocations' = allocations
        BY <2>1 DEF ConfirmPreviewOrder
  <2>3. /\ DOMAIN table = DOMAIN orders
        /\ \A o \in DOMAIN orders : /\ table[o].source = orders[o].source
                                    /\ table[o].status = "rejected" \/ table[o] = orders[o]
        BY <1>1 DEF OrderRow
  <2> HIDE DEF row, id, table
  <2>4. DOMAIN orders \subseteq DOMAIN orders' /\ \A o \in DOMAIN orders : orders'[o] = table[o]
        BY <1>2, <2>2, <2>3 DEF With, id
  <2>5. /\ OriginsKept(orders, orders')
        /\ \A o \in DOMAIN orders : orders'[o].status = "completed" => orders'[o] = orders[o]
        BY <2>3, <2>4 DEF OriginsKept
  <2> QED
      BY <2>2, <2>5, NobodyFinished
<1>7. CASE \/ \E p, req : PreviewDraft(c, p, req) \/ PreviewSchedule(c, p, req)
           \/ \E j, p : CreateScheduleJob(c, j, p)
  <2>1. orders' = orders /\ allocations' = allocations
        BY <1>7 DEF PreviewDraft, PreviewSchedule, NewPreview, CreateScheduleJob
  <2> QED
      BY <2>1, NobodyFinished DEF OriginsKept
<1> QED
    BY <1>3, <1>4, <1>5, <1>6, <1>7

\* A confirmed allocation is of all the wafers of its order, or the rest of them
\* is an order whose origin it is.
LEMMA ProductionFinishes ==
    ASSUME StoreInv, NEW c, NEW o \in DOMAIN orders,
           \/ StartProduction(c, o)
           \/ \E day : CompleteProduction(c, o, day)
           \/ \E day, produced : PartialProduction(c, o, day, produced)
    PROVE  FinishedStay
<1>1. /\ orders \in [DOMAIN orders -> OrderRow] /\ o \in Nat \ {0}
      /\ \A p \in DOMAIN orders : orders[p] \in OrderRow
      BY DEF StoreInv, OrdersType
<1>2. PICK a \in allocations :
          /\ a \in AllocationRow /\ a.order = o
          /\ OpenOf(allocations, o) = {a} /\ a.quantity = orders[o].quantity
  <2>1. orders[o].status \in {"scheduled", "inProgress"}
        BY DEF StartProduction, CanStart, CompleteProduction, PartialProduction, CanConfirm
  <2> QED
      BY <2>1, OneOpen
<1>3. ASSUME NEW status \in {"inProgress", "completed"}
      PROVE  LET b == [a EXCEPT !.locked = TRUE, !.status = status]
             IN  b.order = o /\ b.quantity = orders[o].quantity
      BY <1>2 DEF AllocationRow
<1>4. ASSUME NEW status \in {"inProgress", "completed"}, SetStatus({o}, status),
             NEW b, b.order = o, b.quantity = orders[o].quantity,
             allocations' \subseteq allocations \cup {b}, a \notin allocations' \/ a = b
      PROVE  FinishedStay
  <2> DEFINE S == {o}
  <2>1. status \in Statuses /\ S \in SUBSET DOMAIN orders /\ SetStatus(S, status)
        BY <1>4 DEF Statuses
  <2> HIDE DEF S
  <2>2. /\ DOMAIN orders' = DOMAIN orders
        /\ \A p \in DOMAIN orders \ S : orders'[p] = orders[p]
        /\ \A p \in S : /\ orders'[p].source = orders[p].source
                        /\ orders'[p].quantity = orders[p].quantity
        BY <2>1, RowsSet
  <2>3. OriginsKept(orders, orders')
        BY <2>2 DEF OriginsKept
  <2>4. ASSUME NEW x \in allocations', orders'[x.order].status = "completed"
        PROVE  \/ WasFinished(orders, allocations, orders', x)
               \/ x.quantity = orders'[x.order].quantity
    <3>1. CASE x = b
          BY <1>4, <2>2, <3>1 DEF S
    <3>2. CASE x \in allocations /\ x.order = o
      <4>1. x \in Of(allocations, o)
            BY <3>2 DEF Of
      <4>2. x.quantity = orders[o].quantity
        <5>1. orders[o].status \in {"scheduled", "inProgress"}
              BY DEF StartProduction, CanStart, CompleteProduction, PartialProduction, CanConfirm
        <5> QED
            BY <4>1, <5>1, OneOpen
      <4> QED
          BY <2>2, <3>2, <4>2 DEF S
    <3>3. CASE x \in allocations /\ x.order # o
      <4>1. x.order \in DOMAIN orders
            BY <3>3 DEF StoreInv, AllocationsType
      <4> QED
          BY <2>2, <2>4, <3>3, <4>1 DEF S, WasFinished
    <3> QED
        BY <1>4, <3>1, <3>2, <3>3
  <2> QED
      BY <2>3, <2>4 DEF FinishedStay
<1>5. CASE StartProduction(c, o)
  <2> DEFINE b == [a EXCEPT !.locked = TRUE, !.status = "inProgress"]
  <2>1. SetStatus({o}, "inProgress") /\ allocations' = (allocations \ {a}) \cup {b}
        BY <1>2, <1>5 DEF StartProduction, Started
  <2>2. b.order = o /\ b.quantity = orders[o].quantity
        BY <1>3
  <2> HIDE DEF b
  <2> QED
      BY <1>4, <2>1, <2>2
<1>6. CASE \E day : CompleteProduction(c, o, day)
  <2>1. PICK day : CompleteProduction(c, o, day)
        BY <1>6
  <2> DEFINE b == [a EXCEPT !.locked = TRUE, !.status = "completed"]
             done == {x \in OpenOf(allocations, o) : x.day = day}
  <2>2. /\ SetStatus({o}, "completed") /\ \E x \in OpenOf(allocations, o) : x.day = day
        /\ allocations' = (allocations \ done) \cup
              {[x EXCEPT !.locked = TRUE, !.status = "completed"] : x \in done}
        BY <2>1 DEF CompleteProduction, CanConfirm
  <2>3. done = {a}
        BY <1>2, <2>2
  <2> HIDE DEF done
  <2>4. allocations' = (allocations \ {a}) \cup {b}
        BY <2>2, <2>3
  <2>5. b.order = o /\ b.quantity = orders[o].quantity
        BY <1>3
  <2> HIDE DEF b
  <2> QED
      BY <1>4, <2>2, <2>4, <2>5
<1>7. CASE \E day, produced : PartialProduction(c, o, day, produced)
  <2>1. PICK day, produced : PartialProduction(c, o, day, produced)
        BY <1>7
  <2> DEFINE b == [a EXCEPT !.locked = TRUE, !.status = "completed"]
             done == {x \in OpenOf(allocations, o) : x.day = day}
             part == NextPart(o, DOMAIN orders)
             rest == Remainder(orders[o], o, produced, revision[orders[o].line])
             table == [orders EXCEPT ![o].quantity = produced, ![o].status = "completed"]
  <2>2. /\ \E x \in OpenOf(allocations, o) : x.day = day
        /\ part # NoPart /\ orders' = With(table, part, rest)
        /\ allocations' = (allocations \ OpenOf(allocations, o)) \cup
              {[x EXCEPT !.locked = TRUE, !.status = "completed"] : x \in done}
        BY <2>1 DEF PartialProduction, CanConfirm
  <2>3. part \notin DOMAIN orders
        BY <1>1, <2>2, NextPartType
  <2>4. done = {a}
        BY <1>2, <2>2
  <2> HIDE DEF done
  <2>5. allocations' = (allocations \ {a}) \cup {b}
        BY <1>2, <2>2, <2>4
  <2>6. b.order = o
        BY <1>3
  <2>7. rest.source = o
        BY <1>1 DEF Remainder, OrderRow
  <2>8. /\ DOMAIN table = DOMAIN orders /\ table[o].source = orders[o].source
        /\ \A p \in DOMAIN orders \ {o} : table[p] = orders[p]
    <3>1. table = [orders EXCEPT ![o] = [[orders[o] EXCEPT !.quantity = produced]
                                            EXCEPT !.status = "completed"]]
          BY <1>1
    <3> QED
        BY <1>1, <3>1 DEF OrderRow
  <2> HIDE DEF b, part, rest, table
  <2>9. /\ DOMAIN orders' = DOMAIN orders \cup {part} /\ orders'[part].source = o
        /\ orders'[o].source = orders[o].source
        /\ \A p \in DOMAIN orders \ {o} : orders'[p] = orders[p]
        BY <2>2, <2>3, <2>7, <2>8 DEF With
  <2>10. OriginsKept(orders, orders')
        BY <2>9 DEF OriginsKept
  <2>11. ASSUME NEW x \in allocations', orders'[x.order].status = "completed"
         PROVE  \/ WasFinished(orders, allocations, orders', x)
                \/ \E p \in DOMAIN orders' : orders'[p].source = x.order
    <3>1. CASE x.order = o
          BY <2>9, <3>1
    <3>2. CASE x.order # o
      <4>1. x \in allocations /\ x.order \in DOMAIN orders
            BY <2>5, <2>6, <3>2 DEF StoreInv, AllocationsType
      <4> QED
          BY <2>9, <2>11, <3>2, <4>1 DEF WasFinished
    <3> QED
        BY <3>1, <3>2
  <2> QED
      BY <2>10, <2>11 DEF FinishedStay
<1> QED
    BY <1>5, <1>6, <1>7

\* Whom a job schedules is not finished, and it leaves the others alone.
LEMMA JobFinishesNobody ==
    ASSUME RulesAssumption, StoreInv, NEW j \in DOMAIN jobs, ExecuteScheduleJob(j)
    PROVE  FinishedStay
<1> DEFINE req == jobs[j].request
           plan == PlanLocked(req)
           split == Split(orders, plan.allocations)
           line == jobs[j].line
           S == PlannedOrders(split)
           now == revision[line]
<1>1. CASE FailJob(j)
      BY <1>1, NobodyFinished DEF FailJob, OriginsKept
<1>2. CASE MayExecute(jobs[j], plan) /\ CompleteJob(j, plan)
  <2>1. /\ PartsSuffice(split)
        /\ orders' = OrdersPlanned(orders, split, S, now)
        /\ allocations' = AllocationsPlanned(allocations, split, line)
        BY <1>2 DEF CompleteJob
  <2>2. WellSplit(orders, split) /\ 0 \notin DOMAIN orders
    <3>1. jobs[j] \in JobRow
          BY DEF StoreInv, RequestsType
    <3>2. jobs[j].request \in Asked
          BY <3>1 DEF JobRow
    <3>3. PiecesFit(orders, jobs[j].request, split)
          BY <2>1, <3>2, SplitOfRequest
    <3> QED
        BY <3>3 DEF PiecesFit, StoreInv, OrdersType
  <2>3. ASSUME NEW o \in S
        PROVE  o \in DOMAIN orders' /\ orders'[o].status = "scheduled"
    <3>1. PICK i \in DOMAIN split : o = split[i].order
          BY DEF PlannedOrders
    <3>2. plan = PlanLocked(jobs[j].request) /\ split = Split(orders, plan.allocations)
          OBVIOUS
    <3> HIDE DEF plan, split
    <3>3. ScheduledBy(split[i], jobs[j].request, jobs[j].line)
          BY <1>2, <3>1, <3>2, PieceScheduled
    <3> QED
        BY <3>1, <3>3 DEF ScheduledBy
  <2>4. DOMAIN orders' = DOMAIN orders \cup Parts(split)
        BY <2>1 DEF OrdersPlanned
  <2>5. \A o \in DOMAIN orders \ S : orders'[o] = orders[o]
        BY <2>1 DEF OrdersPlanned
  <2>6. Parts(split) = S \ DOMAIN orders
        BY <2>2, PieceFound DEF Parts, PlannedOrders
  <2>7. \A o \in DOMAIN orders : orders'[o].source = orders[o].source
    <3> SUFFICES ASSUME NEW o \in DOMAIN orders, o \in S
                 PROVE  orders'[o].source = orders[o].source
        BY <2>5
    <3>1. orders[o] \in OrderRow
          BY DEF StoreInv, OrdersType
    <3> DEFINE piece == PieceOf(split, o)
               wafers == piece.quantity
               status == IF orders[o].status = "pending" THEN "scheduled" ELSE orders[o].status
    <3>2. orders'[o] = [orders[o] EXCEPT !.quantity = wafers, !.status = status]
          BY <2>1 DEF OrdersPlanned
    <3> HIDE DEF wafers, status
    <3> QED
        BY <3>1, <3>2 DEF OrderRow
  <2>8. \A o : o \notin S => Of(allocations', o) = Of(allocations, o)
        BY <2>1, <2>2, AllocationsAfterPlan
  <2>9. \A a \in allocations' : a.order \in DOMAIN orders'
    <3>1. StoreInv'
          BY <1>2, CompleteJobKeeps
    <3> QED
        BY <3>1 DEF StoreInv, AllocationsType
  <2> HIDE DEF S, split
  <2>10. ASSUME NEW a \in allocations', orders'[a.order].status = "completed"
         PROVE  WasFinished(orders, allocations, orders', a)
    <3>1. a.order \notin S
          BY <2>3, <2>10
    <3>2. a.order \in DOMAIN orders /\ orders'[a.order] = orders[a.order]
          BY <2>4, <2>5, <2>6, <2>9, <3>1
    <3>3. a \in allocations
          BY <2>8, <3>1 DEF Of
    <3> QED
        BY <2>10, <3>2, <3>3 DEF WasFinished
  <2>11. OriginsKept(orders, orders')
        BY <2>4, <2>7 DEF OriginsKept
  <2> QED
      BY <2>10, <2>11 DEF FinishedStay
<1> QED
    BY <1>1, <1>2 DEF ExecuteScheduleJob

LEMMA NextFinishes ==
    ASSUME StoreAssumption, RulesAssumption, StoreInv, [Next]_vars
    PROVE  FinishedStay
<1>1. CASE SalesNext
      BY <1>1, RequestsFinishNobody DEF SalesNext
<1>2. CASE SchedulerNext
      BY <1>2, RequestsFinishNobody, ProductionFinishes DEF SchedulerNext
<1>3. CASE AnyoneNext
      BY <1>3, RequestsFinishNobody DEF AnyoneNext
<1>4. CASE JobsNext
      BY <1>4, JobFinishesNobody DEF JobsNext
<1>5. CASE UNCHANGED vars
      BY <1>5, NobodyFinished DEF vars, OriginsKept
<1> QED
    BY <1>1, <1>2, <1>3, <1>4, <1>5 DEF Next

\* However requests and the execution of jobs interleave, an order that is
\* scheduled or in production has one open allocation, of all its wafers, a
\* completed one has its finished one, of all its wafers unless other orders were
\* made of some, and nobody else is on the calendar.
THEOREM CalendarMatchesOrders == Spec => []AllocationsMatchOrders
<1>1. Init => FinishedInFull
      BY DEF Init, FinishedInFull
<1>2. StoreInv /\ FinishedInFull /\ [Next]_vars => FinishedInFull'
      BY NextFinishes, FinishedStayInFull, StoreAssumption, RulesAssumption
<1>3. StoreInv /\ FinishedInFull => AllocationsMatchOrders
      BY DEF StoreInv, Matched, FinishedInFull, InFullOrParted, AllocationsMatchOrders, Of
<1> QED
    BY <1>1, <1>2, <1>3, StoreInvariance, PTL DEF Spec

(***************************************************************************)
(* Who leaves the calendar                                                 *)
(***************************************************************************)
StaysOn(a) == \E b \in allocations' : b.order = a.order /\ b.day = a.day /\ b.quantity = a.quantity

MovedByChoice(a) ==
    /\ ~a.high
    /\ a.status = "scheduled"
    /\ \E j \in DOMAIN jobs : Executed(j) /\ a.order \in jobs[j].request.resolution

Explained(a) == StaysOn(a) \/ orders'[a.order].status = "cancelled" \/ MovedByChoice(a)

\* Who loses its allocations outside a job has none, or is cancelled.
LEMMA OrdersStepExplained ==
    ASSUME StoreInv, NEW c, NEW a \in allocations,
           \/ \E wanted : CreateOrder(c, wanted)
           \/ \E o \in DOMAIN orders : \E change :
                 UpdateOrderDueDate(c, o, change) \/ ResubmitOrder(c, o, change)
           \/ \E S \in Bulks : RejectOrders(c, S) \/ CancelOrders(c, S)
           \/ \E p, deferDraft, deferred : ConfirmPreviewOrder(c, p, deferDraft, deferred)
           \/ \E p, req : PreviewDraft(c, p, req) \/ PreviewSchedule(c, p, req)
           \/ \E j, p : CreateScheduleJob(c, j, p)
    PROVE  Explained(a)
<1>1. CASE a \in allocations'
      BY <1>1 DEF Explained, StaysOn
<1>2. ASSUME NEW S \in SUBSET DOMAIN orders, RemoveAllocations(S),
             \/ SetStatus(S, "cancelled")
             \/ \A o \in S : orders[o].status \in {"pending", "rejected"}
      PROVE  Explained(a)
  <2>1. CASE a.order \notin S
        BY <1>1, <1>2, <2>1 DEF RemoveAllocations
  <2>2. CASE a.order \in S /\ SetStatus(S, "cancelled")
    <3>1. orders'[a.order].status = "cancelled"
          BY <2>2, RowsSet DEF Statuses
    <3> QED
        BY <3>1 DEF Explained
  <2>3. CASE a.order \in S /\ orders[a.order].status \in {"pending", "rejected"}
    <3>1. a \in Of(allocations, a.order)
          BY DEF Of
    <3>2. Of(allocations, a.order) = {}
          BY <2>3 DEF StoreInv, Matched, Matches
    <3> QED
        BY <3>1, <3>2
  <2> QED
      BY <1>2, <2>1, <2>2, <2>3
<1>3. CASE \E o \in DOMAIN orders : \E change :
              UpdateOrderDueDate(c, o, change) \/ ResubmitOrder(c, o, change)
  <2>1. PICK o \in DOMAIN orders :
            \E change : UpdateOrderDueDate(c, o, change) \/ ResubmitOrder(c, o, change)
        BY <1>3
  <2>2. RemoveAllocations({o}) /\ orders[o].status \in {"pending", "rejected"}
        BY <2>1 DEF UpdateOrderDueDate, CanUpdate, ResubmitOrder, CanResubmit
  <2> DEFINE S == {o}
  <2>3. /\ S \in SUBSET DOMAIN orders /\ RemoveAllocations(S)
        /\ \A p \in S : orders[p].status \in {"pending", "rejected"}
        BY <2>2
  <2> HIDE DEF S
  <2> QED
      BY <1>2, <2>3
<1>4. CASE \E S \in Bulks : RejectOrders(c, S) \/ CancelOrders(c, S)
  <2>1. PICK S \in Bulks : RejectOrders(c, S) \/ CancelOrders(c, S)
        BY <1>4
  <2>2. S \in SUBSET DOMAIN orders /\ RemoveAllocations(S)
        BY <2>1 DEF Bulks, RejectOrders, CancelOrders
  <2>3. \/ SetStatus(S, "cancelled")
        \/ \A o \in S : orders[o].status \in {"pending", "rejected"}
        BY <2>1 DEF RejectOrders, CanReject, CancelOrders
  <2> QED
      BY <1>2, <2>2, <2>3
<1>5. CASE \/ \E wanted : CreateOrder(c, wanted)
           \/ \E p, deferDraft, deferred : ConfirmPreviewOrder(c, p, deferDraft, deferred)
           \/ \E p, req : PreviewDraft(c, p, req) \/ PreviewSchedule(c, p, req)
           \/ \E j, p : CreateScheduleJob(c, j, p)
  <2>1. allocations' = allocations
        BY <1>5 DEF CreateOrder, ConfirmPreviewOrder, PreviewDraft, PreviewSchedule,
                    NewPreview, CreateScheduleJob
  <2> QED
      BY <1>1, <2>1
<1> QED
    BY <1>3, <1>4, <1>5

\* Production marks an allocation and leaves it where it is.
LEMMA ProductionExplained ==
    ASSUME StoreInv, NEW c, NEW o \in DOMAIN orders, NEW a \in allocations,
           \/ StartProduction(c, o)
           \/ \E day : CompleteProduction(c, o, day)
           \/ \E day, produced : PartialProduction(c, o, day, produced)
    PROVE  StaysOn(a)
<1>1. CASE a \in allocations'
      BY <1>1 DEF StaysOn
<1>2. a \in AllocationRow
      BY DEF StoreInv, AllocationsType
<1>3. ASSUME NEW status, [a EXCEPT !.locked = TRUE, !.status = status] \in allocations'
      PROVE  StaysOn(a)
      BY <1>2, <1>3 DEF StaysOn, AllocationRow
<1>4. CASE StartProduction(c, o)
      BY <1>1, <1>3, <1>4 DEF StartProduction, Started
<1>5. CASE \E day : CompleteProduction(c, o, day)
      BY <1>1, <1>3, <1>5 DEF CompleteProduction
<1>6. CASE \E day, produced : PartialProduction(c, o, day, produced)
  <2>1. PICK day, produced : PartialProduction(c, o, day, produced)
        BY <1>6
  <2> DEFINE done == {x \in OpenOf(allocations, o) : x.day = day}
  <2>2. /\ orders[o].status = "inProgress"
        /\ \E x \in OpenOf(allocations, o) : x.day = day
        /\ allocations' = (allocations \ OpenOf(allocations, o)) \cup
              {[x EXCEPT !.locked = TRUE, !.status = "completed"] : x \in done}
        BY <2>1 DEF PartialProduction, CanConfirm
  <2>3. PICK x : OpenOf(allocations, o) = {x}
        BY <2>2, OneOpen
  <2>4. done = OpenOf(allocations, o)
        BY <2>2, <2>3
  <2> QED
      BY <1>1, <1>3, <2>2, <2>4
<1> QED
    BY <1>4, <1>5, <1>6

\* A job moves the orders that its request names, none of them urgent.
LEMMA JobExplained ==
    ASSUME RulesAssumption, StoreInv, NEW j \in DOMAIN jobs, ExecuteScheduleJob(j),
           NEW a \in allocations
    PROVE  Explained(a)
<1> DEFINE plan == PlanLocked(jobs[j].request)
           split == Split(orders, plan.allocations)
           line == jobs[j].line
<1>1. CASE a \in allocations'
      BY <1>1 DEF Explained, StaysOn
<1>2. CASE MayExecute(jobs[j], plan) /\ CompleteJob(j, plan)
  <2>1. /\ PartsSuffice(split) /\ allocations' = AllocationsPlanned(allocations, split, line)
        /\ jobs' = [jobs EXCEPT ![j].status = "completed"]
        BY <1>2 DEF CompleteJob
  <2>2. jobs[j] \in JobRow
        BY DEF StoreInv, RequestsType
  <2>3. Executed(j)
        BY <2>1, <2>2 DEF Executed, ExecuteScheduleJob, JobRow
  <2>4. WellSplit(orders, split)
    <3>1. jobs[j].request \in Asked
          BY <2>2 DEF JobRow
    <3>2. PiecesFit(orders, jobs[j].request, split)
          BY <2>1, <3>1, SplitOfRequest
    <3> QED
        BY <3>2 DEF PiecesFit
  <2>5. a \in Of(allocations, a.order) /\ a.order \in DOMAIN orders
        BY DEF Of, StoreInv, AllocationsType
  <2>6. CASE a.order \notin PlannedOrders(split)
    <3>1. Of(allocations', a.order) = Of(allocations, a.order)
          BY <2>1, <2>4, <2>6, AllocationsAfterPlan
    <3> QED
        BY <1>1, <2>5, <3>1 DEF Of
  <2>7. CASE a.order \in PlannedOrders(split)
    <3>1. PICK i \in DOMAIN split : a.order = split[i].order
          BY <2>7 DEF PlannedOrders
    <3>2. a.order \in Selected(orders, jobs[j].request)
      <4>1. plan = PlanLocked(jobs[j].request) /\ split = Split(orders, plan.allocations)
            OBVIOUS
      <4> HIDE DEF plan, split
      <4>2. ScheduledBy(split[i], jobs[j].request, jobs[j].line)
            BY <1>2, <4>1, PieceScheduled
      <4> QED
          BY <2>5, <3>1, <4>2 DEF ScheduledBy
    <3>3. \/ orders[a.order].status = "pending"
          \/ /\ ~orders[a.order].high /\ a.order \in jobs[j].request.resolution
             /\ a.status = "scheduled"
          BY <1>2, <2>5, <3>2, JobSelects
    <3>4. orders[a.order].status # "pending"
          BY <2>5 DEF StoreInv, Matched, Matches
    <3>5. a.high = orders[a.order].high
          BY DEF StoreInv, AllocationsType
    <3> QED
        BY <2>3, <3>3, <3>4, <3>5 DEF Explained, MovedByChoice
  <2> QED
      BY <2>6, <2>7
<1>3. CASE FailJob(j)
      BY <1>1, <1>3 DEF FailJob
<1> QED
    BY <1>2, <1>3 DEF ExecuteScheduleJob

LEMMA NextExplained ==
    ASSUME StoreAssumption, RulesAssumption, StoreInv, Next, NEW a \in allocations
    PROVE  Explained(a)
<1>1. CASE SalesNext
      BY <1>1, OrdersStepExplained DEF SalesNext
<1>2. CASE SchedulerNext
      BY <1>2, OrdersStepExplained, ProductionExplained DEF SchedulerNext, Explained
<1>3. CASE AnyoneNext
      BY <1>3, OrdersStepExplained DEF AnyoneNext
<1>4. CASE JobsNext
      BY <1>4, JobExplained DEF JobsNext
<1> QED
    BY <1>1, <1>2, <1>3, <1>4 DEF Next

\* An allocation leaves the calendar only with its order, which is cancelled, or
\* because a scheduler chose to move the order in a job: a low-priority order
\* that is not in production yet.
THEOREM OnlyChosenOrdersMove == Spec => MovedByChoiceOnly
<1> DEFINE Step == \A a \in allocations : Explained(a)
<1>1. StoreInv /\ [Next]_vars => [Step]_vars
      BY NextExplained, StoreAssumption, RulesAssumption
<1>2. [Step]_vars =>
         [\A a \in allocations :
            \/ \E b \in allocations' : b.order = a.order /\ b.day = a.day /\ b.quantity = a.quantity
            \/ orders'[a.order].status = "cancelled"
            \/ /\ ~a.high
               /\ a.status = "scheduled"
               /\ \E j \in DOMAIN jobs : Executed(j) /\ a.order \in jobs[j].request.resolution]_vars
      BY DEF Explained, StaysOn, MovedByChoice
<1> QED
    BY <1>1, <1>2, StoreInvariance, PTL DEF Spec, MovedByChoiceOnly
(***************************************************************************)
(* Loads of the lines                                                      *)
(***************************************************************************)
\* No day of any line has more to make than before.
NoMoreLoad == \A l, d : Load(allocations', l, d) <= Load(allocations, l, d)

LEMMA FewerAllocations ==
    ASSUME RulesAssumption, StoreInv, allocations' \subseteq allocations
    PROVE  NoMoreLoad
<1> SUFFICES ASSUME NEW l, NEW d
             PROVE  Load(allocations', l, d) <= Load(allocations, l, d)
    BY DEF NoMoreLoad
<1> DEFINE other == allocations'
<1>1. OnLineDay(other, l, d) \subseteq OnLineDay(allocations, l, d)
      BY DEF OnLineDay
<1> HIDE DEF other
<1>2. Load(other, l, d) <= Load(allocations, l, d)
      BY <1>1, StoreTables, LoadOfFewer
<1> QED
    BY <1>2 DEF other

\* Production marks the allocation of an order and leaves it where it is.
LEMMA ProductionMarks ==
    ASSUME StoreInv, NEW c, NEW o \in DOMAIN orders,
           \/ StartProduction(c, o)
           \/ \E day : CompleteProduction(c, o, day)
           \/ \E day, produced : PartialProduction(c, o, day, produced)
    PROVE  \E a \in allocations, status \in {"inProgress", "completed"} :
              /\ a \in AllocationRow
              /\ allocations' = (allocations \ {a})
                                   \cup {[a EXCEPT !.locked = TRUE, !.status = status]}
<1>1. orders[o].status \in {"scheduled", "inProgress"}
      BY DEF StartProduction, CanStart, CompleteProduction, PartialProduction, CanConfirm
<1>2. PICK a \in allocations :
          a \in AllocationRow /\ Of(allocations, o) = {a} /\ OpenOf(allocations, o) = {a}
      BY <1>1, OneOpen
<1>3. CASE StartProduction(c, o)
  <2>1. allocations' = (allocations \ {a})
                          \cup {[a EXCEPT !.locked = TRUE, !.status = "inProgress"]}
        BY <1>2, <1>3 DEF StartProduction, Started
  <2> QED
      BY <1>2, <2>1
<1>4. CASE \/ \E day : CompleteProduction(c, o, day)
           \/ \E day, produced : PartialProduction(c, o, day, produced)
  <2>1. PICK day : \/ CompleteProduction(c, o, day)
                   \/ \E produced : PartialProduction(c, o, day, produced)
        BY <1>4
  <2> DEFINE done == {x \in OpenOf(allocations, o) : x.day = day}
  <2>2. /\ \E x \in OpenOf(allocations, o) : x.day = day
        /\ \/ allocations' = (allocations \ done) \cup
                  {[x EXCEPT !.locked = TRUE, !.status = "completed"] : x \in done}
           \/ allocations' = (allocations \ OpenOf(allocations, o)) \cup
                  {[x EXCEPT !.locked = TRUE, !.status = "completed"] : x \in done}
        BY <2>1 DEF CompleteProduction, PartialProduction, CanConfirm
  <2>3. done = {a}
        BY <1>2, <2>2
  <2> HIDE DEF done
  <2>4. allocations' = (allocations \ {a})
                          \cup {[a EXCEPT !.locked = TRUE, !.status = "completed"]}
        BY <1>2, <2>2, <2>3
  <2> QED
      BY <1>2, <2>4
<1> QED
    BY <1>3, <1>4

LEMMA ProductionBooksNothing ==
    ASSUME RulesAssumption, StoreInv, NEW c, NEW o \in DOMAIN orders,
           \/ StartProduction(c, o)
           \/ \E day : CompleteProduction(c, o, day)
           \/ \E day, produced : PartialProduction(c, o, day, produced)
    PROVE  NoMoreLoad
<1>1. PICK a \in allocations, status \in {"inProgress", "completed"} :
          /\ a \in AllocationRow
          /\ allocations' = (allocations \ {a})
                               \cup {[a EXCEPT !.locked = TRUE, !.status = status]}
      BY ProductionMarks
<1> DEFINE b == [a EXCEPT !.locked = TRUE, !.status = status]
           h == [x \in allocations |-> IF x = a THEN b ELSE x]
           other == allocations'
<1>2. b.line = a.line /\ b.day = a.day /\ b.quantity = a.quantity
      BY <1>1 DEF AllocationRow
<1>3. other = (allocations \ {a}) \cup {b}
      BY <1>1
<1>4. \A x \in allocations : h[x] = IF x = a THEN b ELSE x
      OBVIOUS
<1> HIDE DEF b, h, other
<1>5. KeepsPlace(h, allocations)
      BY <1>2, <1>4 DEF KeepsPlace
<1>6. \A y \in other : \E x \in allocations : y = h[x]
      BY <1>3, <1>4
<1>7. \A l, d : Load(other, l, d) <= Load(allocations, l, d)
      BY <1>5, <1>6, StoreTables, LoadOfSomeChanged
<1> QED
    BY <1>7 DEF NoMoreLoad, other

\* Only a job does, and without manual force no day gets more than the line can make.
LEMMA JobBooks ==
    ASSUME RulesAssumption, StoreInv, NEW j \in DOMAIN jobs, ExecuteScheduleJob(j),
           ~jobs[j].request.manualForce, NEW l, NEW d
    PROVE  \/ Load(allocations', l, d) <= Load(allocations, l, d)
           \/ Load(allocations', l, d) <= Capacity[l]
<1> DEFINE req == jobs[j].request
           plan == PlanLocked(req)
           split == Split(orders, plan.allocations)
           planned == allocations'
<1>1. CASE MayExecute(jobs[j], plan) /\ CompleteJob(j, plan)
  <2>1. /\ PartsSuffice(split) /\ plan.conflicts = <<>>
        /\ planned = AllocationsPlanned(allocations, split, jobs[j].line)
        /\ \A o \in req.resolution : CanMove(orders, allocations, jobs[j].line, o)
        BY <1>1 DEF CompleteJob, MayExecute, CanPersist
  <2>2. req \in Asked /\ jobs[j].line = req.line
        BY DEF StoreInv, RequestsType, JobRow
  <2>3. NobodyLate(plan.conflicts)
        BY <2>1 DEF NobodyLate
  <2>4. plan = PlanLocked(req) /\ split = Split(orders, plan.allocations) /\ ~req.manualForce
        OBVIOUS
  <2> HIDE DEF req, plan, split, planned
  <2>5. /\ PiecesFit(orders, req, split) /\ WholePlanned(orders, req, split)
        /\ RoomLeft(allocations, req, split)
        BY <2>1, <2>2, <2>3, <2>4, SplitOfRequest
  <2>6. IsRequest(req)
        BY <2>2 DEF Asked, Lines, IsRequest
  <2>7. \/ Load(planned, l, d) <= Load(allocations, l, d)
        \/ Load(planned, l, d) <= Capacity[l]
        BY <2>1, <2>2, <2>5, <2>6, StoreTables, PlanBooks
  <2> QED
      BY <2>7 DEF planned
<1>2. CASE FailJob(j)
  <2>1. allocations' = allocations
        BY <1>2 DEF FailJob
  <2>2. NoMoreLoad
        BY <2>1, FewerAllocations
  <2> QED
      BY <2>2 DEF NoMoreLoad
<1> QED
    BY <1>1, <1>2 DEF ExecuteScheduleJob

\* A job that is executed and changes allocations has been queued until then.
LEMMA JobExecuted ==
    ASSUME StoreInv, NEW j \in DOMAIN jobs, ExecuteScheduleJob(j)
    PROVE  allocations' = allocations \/ Executed(j)
<1> DEFINE plan == PlanLocked(jobs[j].request)
<1>1. CASE CompleteJob(j, plan)
  <2>1. jobs' = [jobs EXCEPT ![j].status = "completed"] /\ jobs[j].status = "queued"
        BY <1>1 DEF CompleteJob, ExecuteScheduleJob
  <2>2. jobs[j] \in JobRow
        BY DEF StoreInv, RequestsType
  <2> QED
      BY <2>1, <2>2 DEF Executed, JobRow
<1>2. CASE FailJob(j)
      BY <1>2 DEF FailJob
<1> QED
    BY <1>1, <1>2 DEF ExecuteScheduleJob

LEMMA OnlyJobsBook ==
    ASSUME RulesAssumption, StoreInv, [Next]_vars
    PROVE  NoMoreLoad \/ \E j \in DOMAIN jobs : ExecuteScheduleJob(j)
<1>1. CASE SalesNext
  <2>1. allocations' \subseteq allocations
        BY <1>1 DEF SalesNext, CreateOrder, ResubmitOrder, RemoveAllocations, PreviewDraft,
                    NewPreview, ConfirmPreviewOrder
  <2> QED
      BY <2>1, FewerAllocations
<1>2. CASE SchedulerNext
  <2>1. PICK c \in Schedulers :
            \/ \E S : RejectOrders(c, S)
            \/ \E p, req : PreviewSchedule(c, p, req)
            \/ \E j, p : CreateScheduleJob(c, j, p)
            \/ \E o \in DOMAIN orders :
                  \/ StartProduction(c, o)
                  \/ \E day : CompleteProduction(c, o, day)
                  \/ \E day, produced : PartialProduction(c, o, day, produced)
        BY <1>2 DEF SchedulerNext
  <2>2. CASE \/ \E S : RejectOrders(c, S)
             \/ \E p, req : PreviewSchedule(c, p, req)
             \/ \E j, p : CreateScheduleJob(c, j, p)
    <3>1. allocations' \subseteq allocations
          BY <2>2 DEF RejectOrders, RemoveAllocations, PreviewSchedule, NewPreview,
                      CreateScheduleJob
    <3> QED
        BY <3>1, FewerAllocations
  <2> QED
      BY <2>1, <2>2, ProductionBooksNothing
<1>3. CASE AnyoneNext
  <2>1. allocations' \subseteq allocations
        BY <1>3 DEF AnyoneNext, UpdateOrderDueDate, CancelOrders, RemoveAllocations
  <2> QED
      BY <2>1, FewerAllocations
<1>4. CASE JobsNext
      BY <1>4 DEF JobsNext
<1>5. CASE UNCHANGED vars
      BY <1>5, FewerAllocations DEF vars
<1> QED
    BY <1>1, <1>2, <1>3, <1>4, <1>5 DEF Next

\* OverbookedByForceOnly for any instance: whatever is planned, split, moved or
\* confirmed in between, a day gets more than its line makes by a job alone, and one
\* with manual force.
THEOREM OnlyForceOverbooks == Spec => OverbookedByForceOnly
<1> DEFINE Booked == \A a \in allocations' :
              \/ Load(allocations', a.line, a.day) <= Load(allocations, a.line, a.day)
              \/ Load(allocations', a.line, a.day) <= Capacity[a.line]
              \/ \E j \in DOMAIN jobs : Executed(j) /\ jobs[j].request.manualForce
<1>1. ASSUME StoreInv, [Next]_vars
      PROVE  Booked
  <2>1. CASE NoMoreLoad
        BY <2>1 DEF NoMoreLoad
  <2>2. ASSUME NEW j \in DOMAIN jobs, ExecuteScheduleJob(j)
        PROVE  Booked
    <3>1. CASE jobs[j].request.manualForce /\ Executed(j)
          BY <3>1
    <3>2. CASE allocations' = allocations
      <4>1. NoMoreLoad
            BY <1>1, <3>2, FewerAllocations, RulesAssumption
      <4> QED
          BY <2>1, <4>1
    <3>3. CASE ~jobs[j].request.manualForce
          BY <1>1, <2>2, <3>3, JobBooks, RulesAssumption
    <3> QED
        BY <1>1, <2>2, <3>1, <3>2, <3>3, JobExecuted
  <2> QED
      BY <1>1, <2>1, <2>2, OnlyJobsBook, RulesAssumption
<1>2. StoreInv /\ [Next]_vars => [Booked]_vars
      BY <1>1
<1> QED
    BY <1>2, StoreInvariance, PTL DEF Spec, OverbookedByForceOnly
(***************************************************************************)
(* The promise to the customer                                             *)
(***************************************************************************)
IsBook(rows) ==
    /\ IsFiniteSet(DOMAIN rows)
    /\ \A o \in DOMAIN rows :
          o \in Nat \ {0} /\ rows[o].quantity \in Nat \ {0} /\ rows[o].status \in Statuses

LEMMA StoreBook ==
    ASSUME RulesAssumption, StoreInv, StoreInv'
    PROVE  IsBook(orders) /\ IsBook(orders')
<1>1. \A o \in DOMAIN orders : orders[o] \in OrderRow
      BY DEF StoreInv, OrdersType
<1>2. \A o \in DOMAIN orders' : orders'[o] \in OrderRow
      BY DEF StoreInv, OrdersType
<1>3. IsBook(orders)
      BY <1>1 DEF StoreInv, OrdersType, OrderRow, RulesAssumption, IsBook
<1>4. IsBook(orders')
      BY <1>2 DEF StoreInv, OrdersType, OrderRow, RulesAssumption, IsBook
<1> QED
    BY <1>3, <1>4

LEMMA SixStatuses == IsFiniteSet(Statuses)
<1>1. IsFiniteSet({"pending"})
      BY FS_Singleton
<1>2. IsFiniteSet({"pending"} \cup {"scheduled"})
      BY <1>1, FS_AddElement
<1>3. IsFiniteSet({"pending"} \cup {"scheduled"} \cup {"inProgress"})
      BY <1>2, FS_AddElement
<1>4. IsFiniteSet({"pending"} \cup {"scheduled"} \cup {"inProgress"} \cup {"completed"})
      BY <1>3, FS_AddElement
<1>5. IsFiniteSet({"rejected"} \cup {"cancelled"})
      BY FS_Singleton, FS_AddElement
<1>6. IsFiniteSet(({"pending"} \cup {"scheduled"} \cup {"inProgress"} \cup {"completed"})
                     \cup ({"rejected"} \cup {"cancelled"}))
      BY <1>4, <1>5, FS_Union
<1>7. Statuses = ({"pending"} \cup {"scheduled"} \cup {"inProgress"} \cup {"completed"})
                    \cup ({"rejected"} \cup {"cancelled"})
      BY DEF Statuses
<1> QED
    BY <1>6, <1>7

LEMMA PageType ==
    ASSUME NEW rows, IsBook(rows), NEW x, NEW s \in Statuses
    PROVE  /\ Page(rows, x)[s] \in Nat
           /\ Page(rows, x)[s] = SumFunctionOnSet(Quantities(rows), Stage(rows, x, s))
           /\ IsFiniteSet(Stage(rows, x, s))
           /\ \A p \in Stage(rows, x, s) :
                 p \in DOMAIN rows /\ Quantities(rows)[p] = rows[p].quantity
                    /\ Quantities(rows)[p] \in Nat
<1> DEFINE f == Quantities(rows)
           S == Stage(rows, x, s)
<1>1. IsFiniteSet(S) /\ \A p \in S : p \in DOMAIN rows
      BY FS_Subset DEF IsBook, Stage
<1>2. \A p \in S : f[p] = rows[p].quantity /\ f[p] \in Nat
      BY <1>1 DEF IsBook, Quantities
<1>3. Page(rows, x)[s] = SumFunctionOnSet(f, S)
      BY DEF Page, Quantities
<1> HIDE DEF f, S
<1>4. SumFunctionOnSet(f, S) \in Nat
      BY <1>1, <1>2, SumType
<1> QED
    BY <1>1, <1>2, <1>3, <1>4 DEF f, S

\* OrderBook sums with the same operator.
LEMMA SameSum ==
    ASSUME NEW f, NEW S
    PROVE  Promise!SumFunctionOnSet(f, S) = SumFunctionOnSet(f, S)
BY DEF SumFunctionOnSet, FoldFunctionOnSet, MapThenFoldSet,
       Promise!SumFunctionOnSet, Promise!FoldFunctionOnSet, Promise!MapThenFoldSet

\* A page counts every wafer of an order and its parts, once.
LEMMA PageTotal ==
    ASSUME NEW rows, IsBook(rows), NEW x
    PROVE  Promise!Total(Page(rows, x)) = SumFunctionOnSet(Quantities(rows), OfFamily(rows, x))
<1> DEFINE f == Quantities(rows)
           g == Page(rows, x)
           S == OfFamily(rows, x)
           h == [p \in S |-> rows[p].status]
           group == [s \in Statuses |-> Stage(rows, x, s)]
<1>1. IsFiniteSet(S) /\ \A p \in S : p \in DOMAIN rows
      BY FS_Subset DEF IsBook, OfFamily
<1>2. \A p \in S : f[p] \in Nat /\ h[p] \in Statuses
      BY <1>1 DEF IsBook, Quantities
<1>3. \A s \in Statuses : group[s] = {p \in S : h[p] = s}
      BY DEF Stage, OfFamily
<1>4. Groups(group, h, S, Statuses)
      BY <1>2, <1>3 DEF Groups
<1>5. \A s \in Statuses : g[s] = SumFunctionOnSet(f, group[s])
      BY PageType
<1>6. Promise!Stages = Statuses
      BY DEF Promise!Stages, Statuses
<1>7. Promise!Total(g) = SumFunctionOnSet(g, Statuses)
      BY <1>6, SameSum DEF Promise!Total
<1> HIDE DEF f, g, h, S, group
<1>8. SumFunctionOnSet(f, S) = SumFunctionOnSet(g, Statuses)
      BY <1>1, <1>2, <1>4, <1>5, SixStatuses, SumGroups
<1> QED
    BY <1>7, <1>8 DEF f, g, S

\* The order stays at its stage, with its wafers.
Stays(rows, next, p) ==
    /\ p \in DOMAIN rows \cap DOMAIN next
    /\ next[p].status = rows[p].status /\ next[p].quantity = rows[p].quantity

LEMMA StageLess ==
    ASSUME NEW less, IsBook(less), NEW more, IsBook(more), NEW x, NEW s \in Statuses,
           \A p \in Stage(less, x, s) :
              p \in Stage(more, x, s) /\ less[p].quantity = more[p].quantity
    PROVE  Page(less, x)[s] <= Page(more, x)[s]
<1> DEFINE f == Quantities(less)
           g == Quantities(more)
           U == Stage(less, x, s)
           S == Stage(more, x, s)
<1>1. /\ Page(less, x)[s] = SumFunctionOnSet(f, U) /\ IsFiniteSet(U)
      /\ \A p \in U : f[p] = less[p].quantity /\ f[p] \in Nat
      BY PageType
<1>2. /\ Page(more, x)[s] = SumFunctionOnSet(g, S) /\ IsFiniteSet(S)
      /\ \A p \in S : g[p] = more[p].quantity /\ g[p] \in Nat
      BY PageType
<1>3. U \in SUBSET S /\ \A p \in U : f[p] = g[p]
      BY <1>1, <1>2
<1> HIDE DEF f, g, S, U
<1>4. SumFunctionOnSet(f, U) = SumFunctionOnSet(g, U)
      BY <1>1, <1>3, SumCongruent
<1>5. SumFunctionOnSet(g, U) <= SumFunctionOnSet(g, S)
      BY <1>2, <1>3, SumSubset
<1> QED
    BY <1>1, <1>2, <1>4, <1>5

\* Who does not stay leaves a stage in from or arrives at one in to, and nothing is lost.
LEMMA FlowOf ==
    ASSUME NEW rows, IsBook(rows), NEW next, IsBook(next), NEW x,
           NEW from \in SUBSET Statuses, NEW to \in SUBSET Statuses, from \cap to = {},
           \A p \in OfFamily(rows, x) : rows[p].status \in from \/ Stays(rows, next, p),
           \A p \in OfFamily(next, x) : next[p].status \in to \/ Stays(rows, next, p),
           SumFunctionOnSet(Quantities(next), OfFamily(next, x))
              = SumFunctionOnSet(Quantities(rows), OfFamily(rows, x))
    PROVE  Promise!Flow(Page(rows, x), Page(next, x), from, to)
<1> DEFINE page == Page(rows, x)
           then == Page(next, x)
<1>1. ASSUME NEW s \in Statuses, s \notin to
      PROVE  then[s] <= page[s]
  <2>1. \A p \in Stage(next, x, s) :
            p \in Stage(rows, x, s) /\ next[p].quantity = rows[p].quantity
        BY <1>1 DEF Stage, OfFamily, Stays
  <2> QED
      BY <2>1, StageLess
<1>2. ASSUME NEW s \in Statuses, s \notin from
      PROVE  page[s] <= then[s]
  <2>1. \A p \in Stage(rows, x, s) :
            p \in Stage(next, x, s) /\ rows[p].quantity = next[p].quantity
        BY <1>2 DEF Stage, OfFamily, Stays
  <2> QED
      BY <2>1, StageLess
<1>3. \A s \in Statuses : page[s] \in Nat /\ then[s] \in Nat
      BY PageType
<1>4. Promise!Total(then) = Promise!Total(page)
      BY PageTotal
<1>5. Promise!Stages = Statuses
      BY DEF Promise!Stages, Statuses
<1> HIDE DEF page, then
<1>6. \A s \in Statuses \ (from \cup to) : then[s] = page[s]
      BY <1>1, <1>2, <1>3
<1> QED
    BY <1>1, <1>2, <1>3, <1>4, <1>5, <1>6 DEF Promise!Flow, page, then

LEMMA SameFamily ==
    ASSUME NEW rows, IsBook(rows), NEW next, IsBook(next), NEW x,
           OfFamily(next, x) = OfFamily(rows, x),
           \A p \in OfFamily(rows, x) : next[p].quantity = rows[p].quantity
    PROVE  SumFunctionOnSet(Quantities(next), OfFamily(next, x))
              = SumFunctionOnSet(Quantities(rows), OfFamily(rows, x))
<1> DEFINE f == Quantities(rows)
           g == Quantities(next)
           S == OfFamily(rows, x)
<1>1. IsFiniteSet(S) /\ \A p \in S : p \in DOMAIN rows \cap DOMAIN next
      BY FS_Subset DEF IsBook, OfFamily
<1>2. \A p \in S : f[p] \in Nat /\ f[p] = g[p]
      BY <1>1 DEF IsBook, Quantities
<1> HIDE DEF f, g, S
<1>3. SumFunctionOnSet(f, S) = SumFunctionOnSet(g, S)
      BY <1>1, <1>2, SumCongruent
<1> QED
    BY <1>3 DEF f, g, S

\* No order and none of its parts gains or loses wafers.
FamiliesKept(rows, next) ==
    \A x \in Originals(rows) :
        SumFunctionOnSet(Quantities(next), OfFamily(next, x))
           = SumFunctionOnSet(Quantities(rows), OfFamily(rows, x))

LEMMA BookMoves ==
    ASSUME IsBook(orders), IsBook(orders'),
           NEW from \in SUBSET Statuses, NEW to \in SUBSET Statuses, from \cap to = {},
           Originals(orders') = Originals(orders), FamiliesKept(orders, orders'),
           \A p \in DOMAIN orders : orders[p].status \in from \/ Stays(orders, orders', p),
           \A p \in DOMAIN orders' : orders'[p].status \in to \/ Stays(orders, orders', p)
    PROVE  Promise!Move(from, to)
<1>1. ASSUME NEW x \in Originals(orders)
      PROVE  Promise!Flow(Page(orders, x), Page(orders', x), from, to)
  <2>1. /\ \A p \in OfFamily(orders, x) :
              orders[p].status \in from \/ Stays(orders, orders', p)
        /\ \A p \in OfFamily(orders', x) :
              orders'[p].status \in to \/ Stays(orders, orders', p)
        BY DEF OfFamily
  <2> QED
      BY <2>1, FlowOf DEF FamiliesKept
<1> QED
    BY <1>1 DEF Promise!Move, Book

\* Some orders go from some stages to others, and none is cut.
LEMMA OrdersMove ==
    ASSUME RulesAssumption, StoreInv, StoreInv',
           NEW from \in SUBSET Statuses, NEW to \in SUBSET Statuses, from \cap to = {},
           DOMAIN orders' = DOMAIN orders,
           \A p \in DOMAIN orders :
              /\ orders'[p].quantity = orders[p].quantity
              /\ \/ orders'[p].status = orders[p].status
                 \/ orders[p].status \in from /\ orders'[p].status \in to
    PROVE  Promise!Move(from, to)
<1>1. IsBook(orders) /\ IsBook(orders')
      BY StoreBook
<1>2. Originals(orders') = Originals(orders)
      BY DEF Originals
<1>3. FamiliesKept(orders, orders')
  <2> SUFFICES ASSUME NEW x \in Originals(orders)
               PROVE  SumFunctionOnSet(Quantities(orders'), OfFamily(orders', x))
                         = SumFunctionOnSet(Quantities(orders), OfFamily(orders, x))
      BY DEF FamiliesKept
  <2>1. OfFamily(orders', x) = OfFamily(orders, x)
        BY DEF OfFamily
  <2>2. \A p \in OfFamily(orders, x) : orders'[p].quantity = orders[p].quantity
        BY DEF OfFamily
  <2> QED
      BY <1>1, <2>1, <2>2, SameFamily
<1>4. /\ \A p \in DOMAIN orders : orders[p].status \in from \/ Stays(orders, orders', p)
      /\ \A p \in DOMAIN orders' : orders'[p].status \in to \/ Stays(orders, orders', p)
      BY DEF Stays
<1> QED
    BY <1>1, <1>2, <1>3, <1>4, BookMoves

LEMMA BulksMove ==
    ASSUME RulesAssumption, StoreInv, StoreInv', NEW c, NEW S \in Bulks,
           RejectOrders(c, S) \/ CancelOrders(c, S)
    PROVE  Promise!Reject \/ Promise!Cancel
<1>0. S \subseteq DOMAIN orders /\ \A o \in DOMAIN orders : orders[o] \in OrderRow
      BY DEF Bulks, StoreInv, OrdersType
<1>1. CASE RejectOrders(c, S)
  <2>1. /\ DOMAIN orders' = DOMAIN orders
        /\ \A p \in DOMAIN orders :
              /\ orders'[p].quantity = orders[p].quantity
              /\ \/ orders'[p].status = orders[p].status
                 \/ orders[p].status \in {"pending"} /\ orders'[p].status \in {"rejected"}
        BY <1>0, <1>1 DEF RejectOrders, SetStatus, CanReject, OrderRow
  <2>2. Promise!Move({"pending"}, {"rejected"})
        BY <2>1, OrdersMove DEF Statuses
  <2> QED
      BY <2>2 DEF Promise!Reject
<1>2. CASE CancelOrders(c, S)
  <2> DEFINE from == {"pending", "scheduled", "rejected"}
  <2>1. /\ DOMAIN orders' = DOMAIN orders
        /\ \A p \in DOMAIN orders :
              /\ orders'[p].quantity = orders[p].quantity
              /\ \/ orders'[p].status = orders[p].status
                 \/ orders[p].status \in from /\ orders'[p].status \in {"cancelled"}
        BY <1>0, <1>2 DEF CancelOrders, SetStatus, CanCancel, OrderRow, Statuses
  <2>2. from \in SUBSET Statuses /\ from \cap {"cancelled"} = {}
        BY DEF Statuses
  <2> HIDE DEF from
  <2>3. Promise!Move(from, {"cancelled"})
        BY <2>1, <2>2, OrdersMove DEF Statuses
  <2> QED
      BY <2>3 DEF Promise!Cancel, from
<1> QED
    BY <1>1, <1>2

LEMMA StartMoves ==
    ASSUME RulesAssumption, StoreInv, StoreInv', NEW c, NEW o \in DOMAIN orders,
           StartProduction(c, o)
    PROVE  Promise!Start
<1>1. /\ DOMAIN orders' = DOMAIN orders
      /\ \A p \in DOMAIN orders :
            /\ orders'[p].quantity = orders[p].quantity
            /\ \/ orders'[p].status = orders[p].status
               \/ orders[p].status \in {"scheduled"} /\ orders'[p].status \in {"inProgress"}
  <2>1. \A p \in DOMAIN orders : orders[p] \in OrderRow
        BY DEF StoreInv, OrdersType
  <2> QED
      BY <2>1 DEF StartProduction, SetStatus, CanStart, OrderRow
<1>2. Promise!Move({"scheduled"}, {"inProgress"})
      BY <1>1, OrdersMove DEF Statuses
<1> QED
    BY <1>2 DEF Promise!Start

LEMMA CompleteMoves ==
    ASSUME RulesAssumption, StoreInv, StoreInv', NEW c, NEW o \in DOMAIN orders, NEW day,
           CompleteProduction(c, o, day)
    PROVE  Promise!Confirm
<1> DEFINE to == {"completed", "pending"}
<1>1. /\ DOMAIN orders' = DOMAIN orders
      /\ \A p \in DOMAIN orders :
            /\ orders'[p].quantity = orders[p].quantity
            /\ \/ orders'[p].status = orders[p].status
               \/ orders[p].status \in {"inProgress"} /\ orders'[p].status \in to
  <2>1. \A p \in DOMAIN orders : orders[p] \in OrderRow
        BY DEF StoreInv, OrdersType
  <2> QED
      BY <2>1 DEF CompleteProduction, SetStatus, CanConfirm, OrderRow
<1>2. to \in SUBSET Statuses /\ {"inProgress"} \cap to = {}
      BY DEF Statuses
<1> HIDE DEF to
<1>3. Promise!Move({"inProgress"}, to)
      BY <1>1, <1>2, OrdersMove DEF Statuses
<1> QED
    BY <1>3 DEF Promise!Confirm, to

\* An order that is cut and the part that has the rest have together what it had.
LEMMA FamilyCut ==
    ASSUME NEW rows, IsBook(rows), NEW next, IsBook(next), NEW o \in DOMAIN rows, NEW part,
           part \notin DOMAIN rows, DOMAIN next = DOMAIN rows \cup {part},
           \A p \in DOMAIN rows \ {o} : next[p].quantity = rows[p].quantity,
           next[o].quantity + next[part].quantity = rows[o].quantity,
           Original(part) = Original(o), NEW x
    PROVE  SumFunctionOnSet(Quantities(next), OfFamily(next, x))
              = SumFunctionOnSet(Quantities(rows), OfFamily(rows, x))
<1> DEFINE f == Quantities(rows)
           g == Quantities(next)
           S == OfFamily(rows, x)
           T == S \ {o}
<1>1. CASE Original(o) # x
  <2>1. /\ OfFamily(next, x) = OfFamily(rows, x)
        /\ \A p \in OfFamily(rows, x) : next[p].quantity = rows[p].quantity
        BY <1>1 DEF OfFamily
  <2> QED
      BY <2>1, SameFamily
<1>2. CASE Original(o) = x
  <2>1. /\ IsFiniteSet(S) /\ o \in S /\ part \notin S
        /\ OfFamily(next, x) = S \cup {part}
        BY <1>2, FS_Subset DEF IsBook, OfFamily
  <2>2. /\ \A p \in S : f[p] \in Nat /\ f[p] = rows[p].quantity
        /\ \A p \in S \cup {part} : g[p] \in Nat /\ g[p] = next[p].quantity
        /\ \A p \in T : f[p] = g[p]
        BY DEF IsBook, Quantities, OfFamily
  <2> HIDE DEF f, g, S
  <2>3. SumFunctionOnSet(g, S \cup {part}) = g[part] + SumFunctionOnSet(g, S)
        BY <2>1, <2>2, SumAdd
  <2>4. /\ SumFunctionOnSet(g, S) = g[o] + SumFunctionOnSet(g, T)
        /\ SumFunctionOnSet(f, S) = f[o] + SumFunctionOnSet(f, T)
        BY <2>1, <2>2, SumRemove
  <2>5. IsFiniteSet(T)
        BY <2>1, FS_Subset
  <2> HIDE DEF T
  <2>6. SumFunctionOnSet(f, T) = SumFunctionOnSet(g, T)
        BY <2>2, <2>5, SumCongruent
  <2>7. SumFunctionOnSet(f, T) \in Nat
    <3>1. \A p \in T : f[p] \in Nat
          BY <2>2 DEF T
    <3> QED
        BY <2>5, <3>1, SumType
  <2>8. f[o] = g[o] + g[part] /\ g[o] \in Nat /\ g[part] \in Nat
        BY <2>1, <2>2
  <2>9. SumFunctionOnSet(g, S \cup {part}) = SumFunctionOnSet(f, S)
        BY <2>3, <2>4, <2>6, <2>7, <2>8
  <2> QED
      BY <2>1, <2>9 DEF f, g, S
<1> QED
    BY <1>1, <1>2

LEMMA PartialMoves ==
    ASSUME RulesAssumption, StoreInv, StoreInv', NEW c, NEW o \in DOMAIN orders, NEW day,
           NEW produced \in Nat \ {0}, PartialProduction(c, o, day, produced)
    PROVE  Promise!Confirm
<1> DEFINE to == {"completed", "pending"}
           part == NextPart(o, DOMAIN orders)
           rest == Remainder(orders[o], o, produced, revision[orders[o].line])
<1>1. /\ produced < orders[o].quantity /\ orders[o].status = "inProgress" /\ part # NoPart
      /\ orders' = With([orders EXCEPT ![o].quantity = produced, ![o].status = "completed"],
                        part, rest)
      BY DEF PartialProduction, CanConfirm
<1>2. /\ orders[o] \in OrderRow /\ o \in Nat
      /\ \A p \in DOMAIN orders : orders[p] \in OrderRow
      BY DEF StoreInv, OrdersType
<1>3. /\ part \in o + 1 .. Original(o) + MaxParts /\ part \notin DOMAIN orders
      BY <1>1, <1>2, NextPartType
<1>4. /\ part % 10 # 0 /\ Original(part) = Original(o)
      BY <1>2, <1>3, PartIsNoOriginal
<1>5. /\ rest.quantity = orders[o].quantity - produced /\ rest.status = "pending"
      BY <1>2 DEF Remainder, OrderRow
<1> HIDE DEF part, rest
<1>6. /\ DOMAIN orders' = DOMAIN orders \cup {part}
      /\ orders'[part] = rest
      /\ \A p \in DOMAIN orders \ {o} : orders'[p] = orders[p]
      /\ orders'[o].quantity = produced /\ orders'[o].status = "completed"
      BY <1>1, <1>2, <1>3 DEF With, OrderRow
<1>7. IsBook(orders) /\ IsBook(orders')
      BY StoreBook
<1>8. FamiliesKept(orders, orders')
  <2>1. orders'[o].quantity + orders'[part].quantity = orders[o].quantity
        BY <1>2, <1>5, <1>6 DEF OrderRow
  <2>2. \A p \in DOMAIN orders \ {o} : orders'[p].quantity = orders[p].quantity
        BY <1>6
  <2> QED
      BY <1>3, <1>4, <1>6, <1>7, <2>1, <2>2, FamilyCut DEF FamiliesKept
<1>9. Originals(orders') = Originals(orders)
      BY <1>4, <1>6 DEF Originals
<1>10. /\ \A p \in DOMAIN orders : orders[p].status \in {"inProgress"} \/ Stays(orders, orders', p)
       /\ \A p \in DOMAIN orders' : orders'[p].status \in to \/ Stays(orders, orders', p)
      BY <1>1, <1>5, <1>6 DEF Stays
<1>11. to \in SUBSET Statuses /\ {"inProgress"} \cap to = {}
      BY DEF Statuses
<1> HIDE DEF to
<1>12. Promise!Move({"inProgress"}, to)
      BY <1>7, <1>8, <1>9, <1>10, <1>11, BookMoves DEF Statuses
<1> QED
    BY <1>12 DEF Promise!Confirm, to

LEMMA PageSame ==
    ASSUME NEW rows, IsBook(rows), NEW next, IsBook(next), NEW x,
           OfFamily(next, x) = OfFamily(rows, x),
           \A p \in OfFamily(rows, x) : Stays(rows, next, p)
    PROVE  Page(next, x) = Page(rows, x)
<1>1. ASSUME NEW s \in Statuses
      PROVE  Page(next, x)[s] = Page(rows, x)[s]
  <2>1. /\ \A p \in Stage(next, x, s) :
              p \in Stage(rows, x, s) /\ next[p].quantity = rows[p].quantity
        /\ \A p \in Stage(rows, x, s) :
              p \in Stage(next, x, s) /\ rows[p].quantity = next[p].quantity
        BY DEF Stage, OfFamily, Stays
  <2>2. Page(next, x)[s] <= Page(rows, x)[s] /\ Page(rows, x)[s] <= Page(next, x)[s]
        BY <2>1, StageLess
  <2>3. Page(next, x)[s] \in Nat /\ Page(rows, x)[s] \in Nat
        BY PageType
  <2> QED
      BY <2>2, <2>3
<1> QED
    BY <1>1 DEF Page

\* The page of an order that has no parts yet.
LEMMA PageOfOne ==
    ASSUME NEW rows, IsBook(rows), NEW x \in DOMAIN rows, OfFamily(rows, x) = {x}
    PROVE  Page(rows, x) = [Promise!Nothing EXCEPT ![rows[x].status] = Page(rows, x)[rows[x].status]]
<1> DEFINE page == Page(rows, x)
           at == rows[x].status
<1>1. ASSUME NEW s \in Statuses, s # at
      PROVE  page[s] = 0
  <2>1. Stage(rows, x, s) = {}
        BY <1>1 DEF Stage, OfFamily
  <2> QED
      BY <2>1, PageType, SumEmpty
<1>2. page = [s \in Statuses |-> page[s]]
      BY DEF Page
<1>3. at \in Statuses
      BY DEF IsBook
<1>4. Promise!Nothing = [s \in Statuses |-> 0]
      BY DEF Promise!Nothing, Promise!Stages, Statuses
<1> HIDE DEF page, at
<1>5. page = [Promise!Nothing EXCEPT ![at] = page[at]]
      BY <1>1, <1>2, <1>3, <1>4
<1> QED
    BY <1>5 DEF page, at

LEMMA OrderPlaced ==
    ASSUME RulesAssumption, StoreInv, StoreInv', NEW new, new = 10 * nextOrderID,
           DOMAIN orders' = DOMAIN orders \cup {new},
           orders'[new].status \in {"pending", "rejected"},
           \A p \in DOMAIN orders :
              /\ orders'[p].quantity = orders[p].quantity
              /\ \/ orders'[p].status = orders[p].status
                 \/ orders[p].status = "pending" /\ orders'[p].status = "rejected"
    PROVE  Promise!Place
<1>1. IsBook(orders) /\ IsBook(orders')
      BY StoreBook
<1>2. /\ nextOrderID \in Nat /\ new \in Nat
      /\ \A p \in DOMAIN orders : p \in Nat /\ p < new
      BY DEF StoreInv, OrdersType
<1>3. /\ Original(new) = new /\ new % 10 = 0
  <2>1. Original(10 * nextOrderID) = 10 * nextOrderID
        BY <1>2, OwnOriginal
  <2>2. Original(new) = new
        BY <2>1
  <2>3. new % 10 \in 0 .. 9
        BY <1>2
  <2> QED
      BY <1>2, <2>2, <2>3 DEF Original
<1>4. \A p \in DOMAIN orders : Original(p) # new
  <2> SUFFICES ASSUME NEW p \in DOMAIN orders PROVE Original(p) # new
      OBVIOUS
  <2>1. p \in Nat /\ p < new /\ p % 10 \in 0 .. 9
        BY <1>2
  <2> QED
      BY <1>2, <2>1 DEF Original
<1>5. OfFamily(orders', new) = {new}
      BY <1>3, <1>4 DEF OfFamily
<1>6. /\ Originals(orders') = Originals(orders) \cup {new}
      /\ new \in Originals(orders') \ Originals(orders)
      BY <1>2, <1>3 DEF Originals
<1>7. Page(orders', new)
         = [Promise!Nothing EXCEPT ![orders'[new].status] = Page(orders', new)[orders'[new].status]]
      BY <1>1, <1>5, PageOfOne
<1>8. ASSUME NEW x \in Originals(orders)
      PROVE  Promise!Flow(Page(orders, x), Page(orders', x), {"pending"}, {"rejected"})
  <2>1. OfFamily(orders', x) = OfFamily(orders, x)
        BY <1>2, <1>3 DEF OfFamily, Originals
  <2>2. \A p \in OfFamily(orders, x) : orders'[p].quantity = orders[p].quantity
        BY DEF OfFamily
  <2>3. SumFunctionOnSet(Quantities(orders'), OfFamily(orders', x))
           = SumFunctionOnSet(Quantities(orders), OfFamily(orders, x))
        BY <1>1, <2>1, <2>2, SameFamily
  <2>4. /\ \A p \in OfFamily(orders, x) :
              orders[p].status \in {"pending"} \/ Stays(orders, orders', p)
        /\ \A p \in OfFamily(orders', x) :
              orders'[p].status \in {"rejected"} \/ Stays(orders, orders', p)
        BY <2>1 DEF OfFamily, Stays
  <2>5. /\ {"pending"} \in SUBSET Statuses /\ {"rejected"} \in SUBSET Statuses
        /\ {"pending"} \cap {"rejected"} = {}
        BY DEF Statuses
  <2> QED
      BY <1>1, <2>3, <2>4, <2>5, FlowOf
<1>9. /\ DOMAIN Book = Originals(orders) /\ DOMAIN Book' = Originals(orders')
      /\ \A x \in Originals(orders) : Book[x] = Page(orders, x)
      /\ \A x \in Originals(orders') : Book'[x] = Page(orders', x)
      BY DEF Book
<1> QED
    BY <1>6, <1>7, <1>8, <1>9 DEF Promise!Place

LEMMA NewOrdersPlaced ==
    ASSUME StoreAssumption, RulesAssumption, StoreInv, StoreInv', NEW c, NEW wanted,
           CreateOrder(c, wanted)
    PROVE  Promise!Place
<1> DEFINE new == 10 * nextOrderID
           order == NewOrder(wanted, c.subject, revision[wanted.line])
<1>1. /\ orders' = With(orders, new, order) /\ order.status = "pending"
      BY DEF CreateOrder, NewOrder
<1>2. new \notin DOMAIN orders
      BY DEF StoreInv, OrdersType
<1> HIDE DEF order, new
<1>3. /\ DOMAIN orders' = DOMAIN orders \cup {new}
      /\ orders'[new].status \in {"pending", "rejected"}
      /\ \A p \in DOMAIN orders : orders'[p] = orders[p]
      BY <1>1, <1>2 DEF With
<1> QED
    BY <1>3, OrderPlaced DEF new

LEMMA DraftsPlaced ==
    ASSUME RulesAssumption, StoreInv, StoreInv', NEW c, NEW p \in DOMAIN previews,
           NEW deferDraft \in BOOLEAN, NEW deferred \in SUBSET DOMAIN orders,
           ConfirmPreviewOrder(c, p, deferDraft, deferred)
    PROVE  Promise!Place
<1> DEFINE preview == previews[p]
           draft == preview.request.draft
           new == 10 * nextOrderID
           order == NewOrder(draft, c.subject, revision[draft.line])
           row == [order EXCEPT !.status = IF deferDraft THEN "rejected" ELSE @]
           rest == [o \in DOMAIN orders |->
                       IF o \in deferred THEN [orders[o] EXCEPT !.status = "rejected"]
                                         ELSE orders[o]]
<1>1. /\ orders' = With(rest, new, row)
      /\ MayDefer(c, preview, deferred)
      BY DEF ConfirmPreviewOrder
<1>2. row.status \in {"pending", "rejected"}
      BY DEF NewOrder
<1>3. new \notin DOMAIN orders
      BY DEF StoreInv, OrdersType
<1>4. \A o \in DOMAIN orders : orders[o] \in OrderRow
      BY DEF StoreInv, OrdersType
<1>5. \A o \in deferred : orders[o].status = "pending"
      BY <1>1 DEF MayDefer, CanDefer
<1>6. /\ DOMAIN rest = DOMAIN orders
      /\ \A o \in DOMAIN orders :
            /\ rest[o].quantity = orders[o].quantity
            /\ \/ rest[o].status = orders[o].status
               \/ orders[o].status = "pending" /\ rest[o].status = "rejected"
      BY <1>4, <1>5 DEF OrderRow
<1> HIDE DEF row, rest, new
<1>7. /\ DOMAIN orders' = DOMAIN orders \cup {new}
      /\ orders'[new].status \in {"pending", "rejected"}
      /\ \A o \in DOMAIN orders : orders'[o] = rest[o]
      BY <1>1, <1>2, <1>3, <1>6 DEF With
<1>8. \A o \in DOMAIN orders :
          /\ orders'[o].quantity = orders[o].quantity
          /\ \/ orders'[o].status = orders[o].status
             \/ orders[o].status = "pending" /\ orders'[o].status = "rejected"
      BY <1>6, <1>7
<1> QED
    BY <1>7, <1>8, OrderPlaced DEF new

LEMMA OrderAmended ==
    ASSUME RulesAssumption, StoreInv, StoreInv', NEW o \in DOMAIN orders,
           DOMAIN orders' = DOMAIN orders,
           \A p \in DOMAIN orders \ {o} : orders'[p] = orders[p],
           orders[o].status \in {"pending", "rejected"},
           orders'[o].status \in {"pending", "rejected"}
    PROVE  Promise!Amend \/ Book' = Book
<1> DEFINE x == Original(o)
           at == orders[o].status
<1>1. IsBook(orders) /\ IsBook(orders')
      BY StoreBook
<1>2. Originals(orders') = Originals(orders)
      BY DEF Originals
<1>3. ASSUME NEW y \in Originals(orders) \ {x}
      PROVE  Page(orders', y) = Page(orders, y)
  <2>1. /\ OfFamily(orders', y) = OfFamily(orders, y)
        /\ \A p \in OfFamily(orders, y) : Stays(orders, orders', p)
        BY <1>3 DEF OfFamily, Stays
  <2> QED
      BY <1>1, <2>1, PageSame
<1>4. ASSUME NEW s \in Statuses \ {"pending", "rejected"}
      PROVE  Page(orders', x)[s] = Page(orders, x)[s]
  <2>1. /\ \A p \in Stage(orders', x, s) :
              p \in Stage(orders, x, s) /\ orders'[p].quantity = orders[p].quantity
        /\ \A p \in Stage(orders, x, s) :
              p \in Stage(orders', x, s) /\ orders[p].quantity = orders'[p].quantity
        BY <1>4 DEF Stage
  <2>2. /\ Page(orders', x)[s] <= Page(orders, x)[s]
        /\ Page(orders, x)[s] <= Page(orders', x)[s]
        BY <1>1, <2>1, StageLess
  <2>3. Page(orders', x)[s] \in Nat /\ Page(orders, x)[s] \in Nat
        BY <1>1, PageType
  <2> QED
      BY <2>2, <2>3
<1>5. Page(orders, x)["pending"] + Page(orders, x)["rejected"] > 0
  <2> DEFINE f == Quantities(orders)
             S == Stage(orders, x, at)
  <2>1. at \in Statuses
        BY DEF Statuses
  <2>2. /\ Page(orders, x)[at] = SumFunctionOnSet(f, S) /\ IsFiniteSet(S)
        /\ \A p \in S : f[p] \in Nat
        BY <1>1, <2>1, PageType
  <2>3. o \in S /\ f[o] > 0
        BY <1>1 DEF Stage, IsBook, Quantities
  <2> HIDE DEF f, S
  <2>4. SumFunctionOnSet(f, S) = f[o] + SumFunctionOnSet(f, S \ {o})
        BY <2>2, <2>3, SumRemove
  <2>5. SumFunctionOnSet(f, S \ {o}) \in Nat
    <3>1. IsFiniteSet(S \ {o}) /\ \A p \in S \ {o} : f[p] \in Nat
          BY <2>2, FS_Subset
    <3> HIDE DEF f, S
    <3> QED
        BY <3>1, SumType
  <2>6. Page(orders, x)[at] > 0
        BY <2>2, <2>3, <2>4, <2>5
  <2>7. Page(orders, x)["pending"] \in Nat /\ Page(orders, x)["rejected"] \in Nat
        BY <1>1, PageType DEF Statuses
  <2> QED
      BY <2>6, <2>7
<1>6. /\ DOMAIN Book = Originals(orders) /\ DOMAIN Book' = Originals(orders')
      /\ \A y \in Originals(orders) : Book[y] = Page(orders, y)
      /\ \A y \in Originals(orders') : Book'[y] = Page(orders', y)
      BY DEF Book
<1> HIDE DEF x
<1>7. CASE x \in Originals(orders)
  <2>1. Promise!Stages = Statuses
        BY DEF Promise!Stages, Statuses
  <2>2. Promise!Amend
        BY <1>2, <1>3, <1>4, <1>5, <1>6, <1>7, <2>1 DEF Promise!Amend
  <2> QED
      BY <2>2
<1>8. CASE x \notin Originals(orders)
  <2>1. \A y \in Originals(orders) : Page(orders', y) = Page(orders, y)
        BY <1>3, <1>8
  <2>2. Book' = Book
        BY <1>2, <2>1 DEF Book
  <2> QED
      BY <2>2
<1> QED
    BY <1>7, <1>8

LEMMA ChangesAmend ==
    ASSUME RulesAssumption, StoreInv, StoreInv', NEW c, NEW o \in DOMAIN orders, NEW change,
           UpdateOrderDueDate(c, o, change) \/ ResubmitOrder(c, o, change)
    PROVE  Promise!Amend \/ Book' = Book
<1>1. orders[o] \in OrderRow /\ Amended(orders[o], change).status = orders[o].status
      BY DEF StoreInv, OrdersType, OrderRow, Amended
<1>2. /\ DOMAIN orders' = DOMAIN orders
      /\ \A p \in DOMAIN orders \ {o} : orders'[p] = orders[p]
      /\ orders[o].status \in {"pending", "rejected"}
      /\ orders'[o].status \in {"pending", "rejected"}
  <2>1. CASE UpdateOrderDueDate(c, o, change)
        BY <1>1, <2>1 DEF UpdateOrderDueDate, Write, CanUpdate
  <2>2. CASE ResubmitOrder(c, o, change)
    <3> DEFINE row == [Amended(orders[o], change) EXCEPT !.status = "pending"]
    <3>1. /\ orders' = [orders EXCEPT ![o] = row]
          /\ orders[o].status \in {"pending", "rejected"}
          BY <2>2 DEF ResubmitOrder, Write, CanResubmit
    <3>2. row.status = "pending"
          BY <1>1 DEF OrderRow, Amended
    <3> HIDE DEF row
    <3> QED
        BY <3>1, <3>2
  <2> QED
      BY <2>1, <2>2
<1> QED
    BY <1>2, OrderAmended

\* An order stays as it is, or is scheduled, from pending or again, and what is new is
\* scheduled.
Scheduled(rows, next, p) ==
    /\ next[p].status = "scheduled"
    /\ p \in DOMAIN rows => rows[p].status \in {"pending", "scheduled"}

\* Wafers that are scheduled again, in other parts than before, stay scheduled.
LEMMA FlowOfSchedule ==
    ASSUME NEW rows, IsBook(rows), NEW next, IsBook(next), NEW x,
           DOMAIN rows \subseteq DOMAIN next,
           \A p \in DOMAIN next : Stays(rows, next, p) \/ Scheduled(rows, next, p),
           SumFunctionOnSet(Quantities(next), OfFamily(next, x))
              = SumFunctionOnSet(Quantities(rows), OfFamily(rows, x))
    PROVE  Promise!Flow(Page(rows, x), Page(next, x), {"pending"}, {"scheduled"})
<1> DEFINE page == Page(rows, x)
           then == Page(next, x)
           rest == Statuses \ {"scheduled"}
           fixed == rest \ {"pending"}
<1>1. ASSUME NEW s \in Statuses, s # "scheduled"
      PROVE  then[s] <= page[s]
  <2>1. \A p \in Stage(next, x, s) :
            p \in Stage(rows, x, s) /\ next[p].quantity = rows[p].quantity
        BY <1>1 DEF Stage, Stays, Scheduled
  <2> QED
      BY <2>1, StageLess
<1>2. ASSUME NEW s \in fixed
      PROVE  page[s] <= then[s]
  <2>1. \A p \in Stage(rows, x, s) :
            p \in Stage(next, x, s) /\ rows[p].quantity = next[p].quantity
        BY <1>2 DEF Stage, Stays, Scheduled
  <2> QED
      BY <2>1, StageLess
<1>3. \A s \in Statuses : page[s] \in Nat /\ then[s] \in Nat
      BY PageType
<1>4. Promise!Total(then) = Promise!Total(page)
      BY PageTotal
<1>5. Promise!Stages = Statuses
      BY DEF Promise!Stages, Statuses
<1>6. /\ IsFiniteSet(Statuses) /\ "scheduled" \in Statuses
      /\ IsFiniteSet(rest) /\ "pending" \in rest /\ rest \subseteq Statuses
      /\ IsFiniteSet(fixed) /\ fixed \subseteq rest
      BY SixStatuses, FS_Subset DEF Statuses
<1> HIDE DEF page, then, rest
<1>7. /\ Promise!Total(page) = SumFunctionOnSet(page, Statuses)
      /\ Promise!Total(then) = SumFunctionOnSet(then, Statuses)
      BY <1>5, SameSum DEF Promise!Total
<1>8. /\ SumFunctionOnSet(page, Statuses) = page["scheduled"] + SumFunctionOnSet(page, rest)
      /\ SumFunctionOnSet(then, Statuses) = then["scheduled"] + SumFunctionOnSet(then, rest)
      BY <1>3, <1>6, SumWithout DEF rest
<1>9. /\ SumFunctionOnSet(page, rest) = page["pending"] + SumFunctionOnSet(page, fixed)
      /\ SumFunctionOnSet(then, rest) = then["pending"] + SumFunctionOnSet(then, fixed)
      BY <1>3, <1>6, SumWithout
<1>10. \A s \in fixed : then[s] = page[s]
  <2> SUFFICES ASSUME NEW s \in fixed PROVE then[s] = page[s]
      OBVIOUS
  <2>1. s \in Statuses /\ s # "scheduled"
        BY <1>6 DEF rest
  <2> QED
      BY <1>1, <1>2, <1>3, <2>1
<1> HIDE DEF fixed
<1>11. SumFunctionOnSet(then, fixed) = SumFunctionOnSet(page, fixed)
  <2>1. \A s \in fixed : page[s] \in Nat
        BY <1>3, <1>6
  <2> QED
      BY <1>6, <1>10, <2>1, SumCongruent
<1>12. SumFunctionOnSet(page, fixed) \in Nat
  <2>1. \A s \in fixed : page[s] \in Nat
        BY <1>3, <1>6
  <2> QED
      BY <1>6, <2>1, SumType
<1>13. then["pending"] <= page["pending"]
      BY <1>1, <1>6 DEF rest
<1>14. then["scheduled"] >= page["scheduled"]
      BY <1>3, <1>4, <1>6, <1>7, <1>8, <1>9, <1>11, <1>12, <1>13
<1>15. \A s \in Statuses \ ({"pending"} \cup {"scheduled"}) : then[s] = page[s]
      BY <1>10 DEF fixed, rest
<1> QED
    BY <1>4, <1>5, <1>13, <1>14, <1>15 DEF Promise!Flow, page, then

LEMMA JobSchedules ==
    ASSUME RulesAssumption, StoreInv, StoreInv', NEW j \in DOMAIN jobs,
           NEW plan, plan = PlanLocked(jobs[j].request),
           MayExecute(jobs[j], plan), CompleteJob(j, plan)
    PROVE  Promise!Schedule
<1> DEFINE req == jobs[j].request
           line == jobs[j].line
           split == Split(orders, plan.allocations)
           S == PlannedOrders(split)
           now == revision[line]
<1>1. /\ PartsSuffice(split)
      /\ orders' = OrdersPlanned(orders, split, S, now)
      BY DEF CompleteJob
<1>2. req \in Asked
      BY DEF StoreInv, RequestsType, JobRow
<1>3. NobodyLate(plan.conflicts)
      BY DEF MayExecute, CanPersist, NobodyLate
<1>4. PiecesFit(orders, req, split) /\ WholePlanned(orders, req, split)
      BY <1>1, <1>2, <1>3, SplitOfRequest
<1>5. /\ WellSplit(orders, split) /\ 0 \notin DOMAIN orders
      /\ \A p \in DOMAIN orders : p \in Nat
      BY <1>4 DEF PiecesFit, StoreInv, OrdersType
<1>6. \A i \in DOMAIN split : ScheduledBy(split[i], req, line)
  <2>1. split = Split(orders, plan.allocations)
        OBVIOUS
  <2> HIDE DEF split
  <2> QED
      BY <2>1, PieceScheduled
<1> HIDE DEF split, req, now
<1>7. /\ DOMAIN orders' = DOMAIN orders \cup Parts(split)
      /\ Parts(split) = S \ DOMAIN orders
      /\ \A p \in DOMAIN orders \ S : orders'[p] = orders[p]
      BY <1>1, <1>5, OrdersAfterPlan DEF OthersKept
<1>8. IsBook(orders) /\ IsBook(orders')
      BY StoreBook
<1>9. FamiliesKept(orders, orders')
  <2>1. \A i \in DOMAIN split : orders'[split[i].order].quantity = split[i].quantity
        BY <1>6 DEF ScheduledBy
  <2>2. IsOrderTable(orders)
        BY StoreTables
  <2> HIDE DEF S
  <2> QED
      BY <1>1, <1>4, <2>1, <2>2, FamilyKept DEF FamiliesKept
<1>10. Originals(orders') = Originals(orders)
  <2>1. ASSUME NEW p \in Parts(split) PROVE p % 10 # 0
    <3>1. PICK i \in DOMAIN split : split[i].source # 0 /\ p = split[i].order
          BY <2>1 DEF Parts
    <3>2. /\ split[i].source \in DOMAIN orders
          /\ p \in split[i].source + 1 .. Original(split[i].source) + MaxParts
          BY <1>5, <3>1 DEF WellSplit, Origin
    <3> QED
        BY <1>5, <3>2, PartIsNoOriginal
  <2> QED
      BY <1>7, <2>1 DEF Originals
<1>11. ASSUME NEW p \in DOMAIN orders'
       PROVE  Stays(orders, orders', p) \/ Scheduled(orders, orders', p)
  <2>1. CASE p \in S
    <3>1. PICK i \in DOMAIN split : p = split[i].order
          BY <2>1 DEF PlannedOrders
    <3>2. /\ orders'[p].status = "scheduled"
          /\ p \in DOMAIN orders => p \in Selected(orders, req)
          BY <1>6, <3>1 DEF ScheduledBy
    <3>3. p \in DOMAIN orders => orders[p].status \in {"pending", "scheduled"}
          BY <3>2, JobSelects DEF req
    <3> QED
        BY <3>2, <3>3 DEF Scheduled
  <2>2. CASE p \notin S
        BY <1>7, <2>2 DEF Stays
  <2> QED
      BY <2>1, <2>2
<1>12. ASSUME NEW x \in Originals(orders)
       PROVE  Promise!Flow(Page(orders, x), Page(orders', x), {"pending"}, {"scheduled"})
  <2>1. SumFunctionOnSet(Quantities(orders'), OfFamily(orders', x))
           = SumFunctionOnSet(Quantities(orders), OfFamily(orders, x))
        BY <1>9 DEF FamiliesKept
  <2> QED
      BY <1>7, <1>8, <1>11, <2>1, FlowOfSchedule
<1> QED
    BY <1>10, <1>12 DEF Promise!Schedule, Promise!Move, Book

LEMMA BookUnchanged == ASSUME orders' = orders PROVE Book' = Book
BY DEF Book

LEMMA SalesImplements ==
    ASSUME StoreAssumption, RulesAssumption, StoreInv, StoreInv', SalesNext
    PROVE  Promise!Next \/ Book' = Book
<1> PICK c \in Sales :
        \/ \E wanted \in Wants : CreateOrder(c, wanted)
        \/ \E o \in DOMAIN orders, change \in Changes : ResubmitOrder(c, o, change)
        \/ \E p, req : PreviewDraft(c, p, req)
        \/ \E p \in DOMAIN previews, deferDraft \in BOOLEAN, deferred \in SUBSET DOMAIN orders :
              ConfirmPreviewOrder(c, p, deferDraft, deferred)
    BY DEF SalesNext
<1>1. CASE \E wanted \in Wants : CreateOrder(c, wanted)
      BY <1>1, NewOrdersPlaced DEF Promise!Next
<1>2. CASE \E o \in DOMAIN orders, change \in Changes : ResubmitOrder(c, o, change)
      BY <1>2, ChangesAmend DEF Promise!Next
<1>3. CASE \E p, req : PreviewDraft(c, p, req)
  <2>1. orders' = orders
        BY <1>3 DEF PreviewDraft, NewPreview
  <2> QED
      BY <2>1, BookUnchanged
<1>4. CASE \E p \in DOMAIN previews, deferDraft \in BOOLEAN, deferred \in SUBSET DOMAIN orders :
              ConfirmPreviewOrder(c, p, deferDraft, deferred)
      BY <1>4, DraftsPlaced DEF Promise!Next
<1> QED
    BY <1>1, <1>2, <1>3, <1>4

LEMMA SchedulerImplements ==
    ASSUME RulesAssumption, StoreInv, StoreInv', SchedulerNext
    PROVE  Promise!Next \/ Book' = Book
<1> PICK c \in Schedulers :
        \/ \E S \in Bulks : RejectOrders(c, S)
        \/ \E p, req : PreviewSchedule(c, p, req)
        \/ \E j, p : CreateScheduleJob(c, j, p)
        \/ \E o \in DOMAIN orders : StartProduction(c, o)
        \/ \E o \in DOMAIN orders : \E day : CompleteProduction(c, o, day)
        \/ \E o \in DOMAIN orders : \E day : \E produced \in 1 .. orders[o].quantity :
              PartialProduction(c, o, day, produced)
    BY DEF SchedulerNext
<1>1. CASE \E S \in Bulks : RejectOrders(c, S)
      BY <1>1, BulksMove DEF Promise!Next
<1>2. CASE (\E p, req : PreviewSchedule(c, p, req)) \/ (\E j, p : CreateScheduleJob(c, j, p))
  <2>1. orders' = orders
        BY <1>2 DEF PreviewSchedule, NewPreview, CreateScheduleJob
  <2> QED
      BY <2>1, BookUnchanged
<1>3. CASE \E o \in DOMAIN orders : StartProduction(c, o)
      BY <1>3, StartMoves DEF Promise!Next
<1>4. CASE \E o \in DOMAIN orders : \E day : CompleteProduction(c, o, day)
      BY <1>4, CompleteMoves DEF Promise!Next
<1>5. CASE \E o \in DOMAIN orders : \E day : \E produced \in 1 .. orders[o].quantity :
              PartialProduction(c, o, day, produced)
  <2>1. PICK o \in DOMAIN orders :
            \E day : \E produced \in 1 .. orders[o].quantity : PartialProduction(c, o, day, produced)
        BY <1>5
  <2>2. PICK day : \E produced \in 1 .. orders[o].quantity : PartialProduction(c, o, day, produced)
        BY <2>1
  <2>3. PICK produced \in 1 .. orders[o].quantity : PartialProduction(c, o, day, produced)
        BY <2>2
  <2>4. produced \in Nat \ {0}
    <3>1. orders[o] \in OrderRow
          BY DEF StoreInv, OrdersType
    <3> QED
        BY <3>1 DEF OrderRow, RulesAssumption
  <2> QED
      BY <2>3, <2>4, PartialMoves DEF Promise!Next
<1> QED
    BY <1>1, <1>2, <1>3, <1>4, <1>5

LEMMA JobsImplement ==
    ASSUME RulesAssumption, StoreInv, StoreInv', NEW j \in DOMAIN jobs, ExecuteScheduleJob(j)
    PROVE  Promise!Next \/ Book' = Book
<1> DEFINE plan == PlanLocked(jobs[j].request)
<1>1. CASE MayExecute(jobs[j], plan) /\ CompleteJob(j, plan)
      BY <1>1, JobSchedules DEF Promise!Next
<1>2. CASE FailJob(j)
  <2>1. orders' = orders
        BY <1>2 DEF FailJob
  <2> QED
      BY <2>1, BookUnchanged
<1> QED
    BY <1>1, <1>2 DEF ExecuteScheduleJob

LEMMA NextImplements ==
    ASSUME StoreAssumption, RulesAssumption, StoreInv, StoreInv', [Next]_vars
    PROVE  Promise!Next \/ Book' = Book
<1>1. CASE SalesNext
      BY <1>1, SalesImplements
<1>2. CASE SchedulerNext
      BY <1>2, SchedulerImplements
<1>3. CASE AnyoneNext
  <2>1. CASE \E c, change : \E o \in DOMAIN orders : UpdateOrderDueDate(c, o, change)
        BY <2>1, ChangesAmend DEF Promise!Next
  <2>2. CASE \E c : \E S \in Bulks : CancelOrders(c, S)
        BY <2>2, BulksMove DEF Promise!Next
  <2> QED
      BY <1>3, <2>1, <2>2 DEF AnyoneNext
<1>4. CASE JobsNext
      BY <1>4, JobsImplement DEF JobsNext
<1>5. CASE UNCHANGED vars
      BY <1>5, BookUnchanged DEF vars
<1> QED
    BY <1>1, <1>2, <1>3, <1>4, <1>5 DEF Next

\* The store implements OrderBook, for any lines, claims, orders, requests and bounds:
\* whatever is planned, split into parts, moved, confirmed in part or pushed back, the
\* wafers of an order and its parts are somewhere, none is lost or made twice, and they
\* only move along the stages that the customer is promised.
THEOREM StoreImplementsOrderBook == Spec => ImplementsOrderBook
<1>1. Init => Promise!Init
  <2> SUFFICES ASSUME Init PROVE Promise!Init
      OBVIOUS
  <2>1. DOMAIN orders = {}
        BY DEF Init, NoMap
  <2>2. Originals(orders) = {}
        BY <2>1 DEF Originals
  <2> QED
      BY <2>2 DEF Promise!Init, Book
<1>2. StoreInv /\ StoreInv' /\ [Next]_vars => [Promise!Next]_Book
      BY NextImplements, StoreAssumption, RulesAssumption
<1> QED
    BY <1>1, <1>2, StoreInvariance, PTL DEF Spec, Promise!Spec, ImplementsOrderBook

(***************************************************************************)
(* What a preview shows stays what a job would plan                        *)
(***************************************************************************)
PlanOn(rows, all, req) ==
    Split(rows, Plan(PlanRequest(OrderInputs(rows, req), all, req)).allocations)

\* The orders and allocations of a line are the same.
SameLine(rows, all, next, then, l) ==
    /\ \A o \in DOMAIN rows : rows[o].line = l => o \in DOMAIN next /\ next[o] = rows[o]
    /\ \A o \in DOMAIN next : next[o].line = l => o \in DOMAIN rows /\ rows[o] = next[o]
    /\ {a \in all : a.line = l} = {a \in then : a.line = l}

\* An order is on one line with all its parts.
OneLine(rows) ==
    \A o, p \in DOMAIN rows : Original(o) = Original(p) => rows[o].line = rows[p].line

LEMMA PlanOnLine ==
    ASSUME RulesAssumption, NEW rows, IsOrderTable(rows), OneLine(rows),
           NEW next, IsOrderTable(next), OneLine(next),
           NEW all, IsCalendar(all), NEW then, IsCalendar(then), NEW req, IsRequest(req),
           SameLine(rows, all, next, then, req.line)
    PROVE  PlanOn(rows, all, req) = PlanOn(next, then, req)
<1> DEFINE l == req.line
           inputs == OrderInputs(rows, req)
           r == PlanRequest(inputs, all, req)
           s == PlanRequest(inputs, then, req)
           pieces == Plan(r).allocations
<1>1. Selected(rows, req) = Selected(next, req)
      BY DEF Selected, SameLine
<1>2. OrderInputs(next, req) = inputs
  <2>1. \A o \in Selected(rows, req) : next[o] = rows[o]
        BY DEF Selected, SameLine
  <2> QED
      BY <1>1, <2>1 DEF OrderInputs
<1>3. /\ DOMAIN inputs = Selected(rows, req) /\ DOMAIN inputs \subseteq DOMAIN rows
      /\ \A o \in DOMAIN inputs : rows[o].line = l
      BY DEF OrderInputs, Selected
<1>4. /\ DOMAIN inputs \in SUBSET Nat /\ IsFiniteSet(DOMAIN inputs)
      /\ \A o \in DOMAIN inputs :
            /\ inputs[o].quantity \in Nat \ {0} /\ inputs[o].high \in BOOLEAN
            /\ inputs[o].due \in Int /\ inputs[o].createdAt \in Int
      BY <1>3, FS_Subset DEF IsOrderTable, OrderInputs, Input
<1> HIDE DEF inputs
<1>5. IsPlanRequest(r) /\ IsPlanRequest(s)
      BY <1>4, RequestType DEF IsCalendar, IsRequest
<1>6. SameForLine(r, s)
  <2>1. ExistingOfLine(r) = ExistingOfLine(s)
    <3>1. /\ ExistingOfLine(r) = {a \in all : a.line = l /\ a.order \notin req.resolution}
          /\ ExistingOfLine(s) = {a \in then : a.line = l /\ a.order \notin req.resolution}
          BY DEF ExistingOfLine, PlanRequest, Listed
    <3> QED
        BY <3>1 DEF SameLine
  <2>2. \A k \in ExistingOfLine(r) : r.existing[k] = s.existing[k]
        BY <2>1 DEF ExistingOfLine, PlanRequest, Listed
  <2> QED
      BY <2>1, <2>2 DEF SameForLine, PlanRequest
<1>7. r.orders = inputs
      BY DEF PlanRequest
<1> HIDE DEF r, s
<1>8. Plan(s) = Plan(r)
      BY <1>5, <1>6, PlanOfLine
<1>9. /\ pieces \in Seq(PlanPiece)
      /\ \A i \in DOMAIN pieces : pieces[i].order \in Selected(rows, req)
      BY <1>3, <1>5, <1>7, PiecesPlanned DEF Plans, PiecesAreOf
<1> HIDE DEF pieces
<1>10. ASSUME NEW i \in DOMAIN pieces,
              NEW part \in pieces[i].order + 1 .. Original(pieces[i].order) + MaxParts
       PROVE  part \in DOMAIN rows <=> part \in DOMAIN next
  <2> DEFINE o == pieces[i].order
  <2>1. o \in Selected(rows, req) /\ o \in DOMAIN rows /\ rows[o].line = l
        BY <1>9 DEF Selected
  <2>2. o \in DOMAIN next /\ next[o].line = l /\ o \in Nat
        BY <2>1 DEF SameLine, IsOrderTable
  <2> HIDE DEF o
  <2>3. Original(part) = Original(o)
        BY <1>10, <2>2, PartIsNoOriginal DEF o
  <2>4. CASE part \in DOMAIN rows
        BY <2>1, <2>3, <2>4 DEF OneLine, SameLine
  <2>5. CASE part \in DOMAIN next
        BY <2>2, <2>3, <2>5 DEF OneLine, SameLine
  <2> QED
      BY <2>4, <2>5
<1>11. Split(rows, pieces) = Split(next, pieces)
      BY <1>9, <1>10, SameSplit
<1> QED
    BY <1>2, <1>8, <1>11 DEF PlanOn, pieces, inputs, r, s

(***************************************************************************)
(* A line whose revision stays is as it was                                *)
(***************************************************************************)
LineStays(l) == SameLine(orders, allocations, orders', allocations', l)

\* A step changes no line but those whose revision it raises.
LinesStay ==
    \A l \in Lines :
        /\ revision'[l] \in Nat /\ revision'[l] >= revision[l]
        /\ revision'[l] = revision[l] => LineStays(l)

LEMMA BumpedMore ==
    ASSUME StoreInv, NEW S \in SUBSET DOMAIN orders, Bump(S), NEW l \in Lines
    PROVE  /\ revision'[l] \in Nat /\ revision'[l] >= revision[l]
           /\ revision'[l] = revision[l] => \A o \in S : orders[o].line # l
<1> DEFINE T == {o \in S : orders[o].line = l}
<1>1. IsFiniteSet(T)
      BY FS_Subset DEF StoreInv, OrdersType
<1>2. revision[l] \in Nat /\ revision'[l] = revision[l] + Cardinality(T)
      BY DEF Bump, StoreInv
<1> HIDE DEF T
<1>3. Cardinality(T) \in Nat /\ (Cardinality(T) = 0 => T = {})
      BY <1>1, FS_CardinalityType, FS_EmptySet
<1> QED
    BY <1>2, <1>3 DEF T

LEMMA OnOwnLine ==
    ASSUME StoreInv, NEW a \in allocations, orders[a.order].status # "completed"
    PROVE  a.order \in DOMAIN orders /\ a.line = orders[a.order].line
<1>1. a.order \in DOMAIN orders /\ a \in Of(allocations, a.order)
      BY DEF StoreInv, AllocationsType, Of
<1>2. orders[a.order] \in OrderRow /\ Matches(orders[a.order], Of(allocations, a.order))
      BY <1>1 DEF StoreInv, OrdersType, Matched
<1> QED
    BY <1>1, <1>2 DEF Matches, OrderRow, Statuses

\* Orders of a set and their allocations change, and the lines of the set are bumped.
LEMMA SetChanged ==
    ASSUME StoreInv, NEW S \in SUBSET DOMAIN orders, Bump(S),
           DOMAIN orders \subseteq DOMAIN orders',
           \A o \in DOMAIN orders \ S : orders'[o] = orders[o],
           \A o \in S : orders'[o].line = orders[o].line /\ orders[o].status # "completed",
           \A o \in DOMAIN orders' \ DOMAIN orders : \E p \in S : orders'[o].line = orders[p].line,
           \A a \in allocations : a.order \notin S => a \in allocations',
           \A a \in allocations' \ allocations : \E p \in S : a.line = orders[p].line
    PROVE  LinesStay
<1> SUFFICES ASSUME NEW l \in Lines
             PROVE  /\ revision'[l] \in Nat /\ revision'[l] >= revision[l]
                    /\ revision'[l] = revision[l] => LineStays(l)
    BY DEF LinesStay
<1>1. /\ revision'[l] \in Nat /\ revision'[l] >= revision[l]
      /\ revision'[l] = revision[l] => \A o \in S : orders[o].line # l
      BY BumpedMore
<1>2. ASSUME \A o \in S : orders[o].line # l
      PROVE  LineStays(l)
  <2>1. \A o \in DOMAIN orders : orders[o].line = l => o \in DOMAIN orders' /\ orders'[o] = orders[o]
        BY <1>2
  <2>2. \A o \in DOMAIN orders' : orders'[o].line = l => o \in DOMAIN orders /\ orders[o] = orders'[o]
        BY <1>2
  <2>3. \A a \in allocations : a.line = l => a \in allocations'
    <3> SUFFICES ASSUME NEW a \in allocations, a.line = l, a.order \in S
                 PROVE  FALSE
        OBVIOUS
    <3> QED
        BY <1>2, OnOwnLine
  <2>4. \A a \in allocations' : a.line = l => a \in allocations
        BY <1>2
  <2>5. {a \in allocations : a.line = l} = {a \in allocations' : a.line = l}
        BY <2>3, <2>4
  <2> QED
      BY <2>1, <2>2, <2>5 DEF LineStays, SameLine
<1> QED
    BY <1>1, <1>2

\* Parts go to the line of their order.
LEMMA PartsOnLine ==
    ASSUME NEW rows, NEW next, OneLine(rows),
           \A o \in DOMAIN rows \cap DOMAIN next : next[o].line = rows[o].line,
           \A o \in DOMAIN next \ DOMAIN rows :
              \E p \in DOMAIN rows : Original(o) = Original(p) /\ next[o].line = rows[p].line
    PROVE  OneLine(next)
<1>1. \A o \in DOMAIN next :
          \E p \in DOMAIN rows : Original(o) = Original(p) /\ next[o].line = rows[p].line
      OBVIOUS
<1> QED
    BY <1>1 DEF OneLine

\* One more order, without parts.
LEMMA NewOnLine ==
    ASSUME StoreInv, OneLine(orders), NEW new, new = 10 * nextOrderID,
           DOMAIN orders' = DOMAIN orders \cup {new},
           \A o \in DOMAIN orders : orders'[o].line = orders[o].line
    PROVE  OneLine(orders')
<1>1. /\ nextOrderID \in Nat
      /\ \A p \in DOMAIN orders : p \in Nat /\ p < new
      BY DEF StoreInv, OrdersType
<1>2. Original(new) = new
      BY <1>1, OwnOriginal
<1>3. \A p \in DOMAIN orders : Original(p) # new
  <2> SUFFICES ASSUME NEW p \in DOMAIN orders PROVE Original(p) # new
      OBVIOUS
  <2>1. p \in Nat /\ p < new /\ p % 10 \in 0 .. 9
        BY <1>1
  <2> QED
      BY <1>1, <2>1 DEF Original
<1> QED
    BY <1>2, <1>3 DEF OneLine

LEMMA EditsStay ==
    ASSUME StoreInv, OneLine(orders), NEW c, NEW o \in DOMAIN orders, NEW change,
           UpdateOrderDueDate(c, o, change) \/ ResubmitOrder(c, o, change)
    PROVE  LinesStay /\ OneLine(orders')
<1>1. orders[o] \in OrderRow /\ Amended(orders[o], change).line = orders[o].line
      BY DEF StoreInv, OrdersType, OrderRow, Amended
<1>2. /\ DOMAIN orders' = DOMAIN orders
      /\ \A p \in DOMAIN orders \ {o} : orders'[p] = orders[p]
      /\ orders'[o].line = orders[o].line /\ orders[o].status # "completed"
      /\ RemoveAllocations({o}) /\ Bump({o})
  <2>1. CASE UpdateOrderDueDate(c, o, change)
        BY <1>1, <2>1 DEF UpdateOrderDueDate, Write, CanUpdate
  <2>2. CASE ResubmitOrder(c, o, change)
    <3> DEFINE row == [Amended(orders[o], change) EXCEPT !.status = "pending"]
    <3>1. /\ orders' = [orders EXCEPT ![o] = row] /\ RemoveAllocations({o}) /\ Bump({o})
          /\ orders[o].status # "completed"
          BY <2>2 DEF ResubmitOrder, Write, CanResubmit
    <3>2. row.line = orders[o].line
          BY <1>1 DEF OrderRow, Amended
    <3> HIDE DEF row
    <3> QED
        BY <3>1, <3>2
  <2> QED
      BY <2>1, <2>2
<1>3. /\ \A a \in allocations : a.order \notin {o} => a \in allocations'
      /\ allocations' \subseteq allocations
      BY <1>2 DEF RemoveAllocations
<1>4. LinesStay
      BY <1>2, <1>3, SetChanged
<1> QED
    BY <1>2, <1>4, PartsOnLine

LEMMA BulksStay ==
    ASSUME StoreInv, OneLine(orders), NEW c, NEW S \in Bulks,
           RejectOrders(c, S) \/ CancelOrders(c, S)
    PROVE  LinesStay /\ OneLine(orders')
<1>1. S \in SUBSET DOMAIN orders /\ \A o \in DOMAIN orders : orders[o] \in OrderRow
      BY DEF Bulks, StoreInv, OrdersType
<1>2. /\ DOMAIN orders' = DOMAIN orders
      /\ \A p \in DOMAIN orders \ S : orders'[p] = orders[p]
      /\ \A p \in S : orders'[p].line = orders[p].line /\ orders[p].status # "completed"
      /\ RemoveAllocations(S) /\ Bump(S)
      BY <1>1 DEF RejectOrders, CancelOrders, SetStatus, CanReject, CanCancel, OrderRow
<1>3. /\ \A a \in allocations : a.order \notin S => a \in allocations'
      /\ allocations' \subseteq allocations
      BY <1>2 DEF RemoveAllocations
<1>4. LinesStay
      BY <1>1, <1>2, <1>3, SetChanged
<1> QED
    BY <1>1, <1>2, <1>4, PartsOnLine

LEMMA ProductionStays ==
    ASSUME RulesAssumption, StoreInv, OneLine(orders), NEW c, NEW o \in DOMAIN orders, NEW day,
           NEW produced \in Nat \ {0},
           \/ StartProduction(c, o)
           \/ CompleteProduction(c, o, day)
           \/ PartialProduction(c, o, day, produced)
    PROVE  LinesStay /\ OneLine(orders')
<1> DEFINE part == NextPart(o, DOMAIN orders)
           rest == Remainder(orders[o], o, produced, revision[orders[o].line])
<1>1. orders[o] \in OrderRow /\ o \in Nat /\ \A p \in DOMAIN orders : orders[p] \in OrderRow
      BY DEF StoreInv, OrdersType
<1>2. rest.line = orders[o].line
      BY <1>1 DEF Remainder, OrderRow
<1> HIDE DEF rest
<1>3. /\ DOMAIN orders \subseteq DOMAIN orders'
      /\ \A p \in DOMAIN orders \ {o} : orders'[p] = orders[p]
      /\ orders'[o].line = orders[o].line /\ orders[o].status # "completed" /\ Bump({o})
      /\ \A p \in DOMAIN orders' \ DOMAIN orders :
            Original(p) = Original(o) /\ orders'[p].line = orders[o].line
  <2>1. CASE StartProduction(c, o)
        BY <1>1, <2>1 DEF StartProduction, SetStatus, CanStart, OrderRow
  <2>2. CASE CompleteProduction(c, o, day)
        BY <1>1, <2>2 DEF CompleteProduction, SetStatus, CanConfirm, OrderRow
  <2>3. CASE PartialProduction(c, o, day, produced)
    <3> DEFINE cut == [orders EXCEPT ![o].quantity = produced, ![o].status = "completed"]
    <3>1. /\ orders' = With(cut, part, rest) /\ part # NoPart
          /\ orders[o].status # "completed" /\ Bump({o})
          BY <2>3 DEF PartialProduction, CanConfirm, rest
    <3>2. part \in o + 1 .. Original(o) + MaxParts /\ part \notin DOMAIN orders
          BY <1>1, <3>1, NextPartType
    <3>3. Original(part) = Original(o)
          BY <1>1, <3>2, PartIsNoOriginal
    <3>4. /\ DOMAIN cut = DOMAIN orders /\ cut[o].line = orders[o].line
          /\ \A p \in DOMAIN orders \ {o} : cut[p] = orders[p]
          BY <1>1 DEF OrderRow
    <3> HIDE DEF cut, part
    <3> QED
        BY <1>2, <3>1, <3>2, <3>3, <3>4 DEF With
  <2> QED
      BY <2>1, <2>2, <2>3
<1>4. ASSUME NEW a \in allocations, a.order # o
      PROVE  a \in allocations'
  <2>1. a \notin OpenOf(allocations, o)
        BY <1>4 DEF OpenOf, Of
  <2> QED
      BY <2>1 DEF StartProduction, CompleteProduction, PartialProduction, Started
<1>5. ASSUME NEW a \in allocations' \ allocations
      PROVE  a.line = orders[o].line
  <2>1. \E b \in OpenOf(allocations, o) :
            \/ a = [b EXCEPT !.locked = TRUE, !.status = "inProgress"]
            \/ a = [b EXCEPT !.locked = TRUE, !.status = "completed"]
    <3>1. CASE StartProduction(c, o)
          BY <1>5, <3>1 DEF StartProduction, Started
    <3>2. CASE CompleteProduction(c, o, day)
          BY <1>5, <3>2 DEF CompleteProduction
    <3>3. CASE PartialProduction(c, o, day, produced)
          BY <1>5, <3>3 DEF PartialProduction
    <3> QED
        BY <3>1, <3>2, <3>3
  <2>2. PICK b \in OpenOf(allocations, o) :
            \/ a = [b EXCEPT !.locked = TRUE, !.status = "inProgress"]
            \/ a = [b EXCEPT !.locked = TRUE, !.status = "completed"]
        BY <2>1
  <2>3. b \in allocations /\ b.order = o /\ b \in AllocationRow
        BY DEF OpenOf, Of, StoreInv, AllocationsType
  <2>4. b.line = orders[o].line
        BY <1>3, <2>3, OnOwnLine
  <2> QED
      BY <2>2, <2>3, <2>4 DEF AllocationRow
<1>6. LinesStay
      BY <1>3, <1>4, <1>5, SetChanged
<1> QED
    BY <1>3, <1>6, PartsOnLine

LEMMA NewOrderStays ==
    ASSUME StoreInv, OneLine(orders), NEW new, new = 10 * nextOrderID,
           DOMAIN orders' = DOMAIN orders \cup {new}, NEW line \in Lines,
           orders'[new].line = line,
           \A o \in DOMAIN orders :
              /\ orders'[o].line = orders[o].line
              /\ orders[o].line = line \/ orders'[o] = orders[o],
           allocations' = allocations,
           NEW n \in Nat, n > revision[line], revision' = [revision EXCEPT ![line] = n]
    PROVE  LinesStay /\ OneLine(orders')
<1>1. revision \in [Lines -> Nat]
      BY DEF StoreInv
<1>2. LinesStay
  <2> SUFFICES ASSUME NEW l \in Lines
               PROVE  /\ revision'[l] \in Nat /\ revision'[l] >= revision[l]
                      /\ revision'[l] = revision[l] => LineStays(l)
      BY DEF LinesStay
  <2>1. CASE l = line
        BY <1>1, <2>1
  <2>2. CASE l # line
    <3>1. LineStays(l)
          BY <2>2 DEF LineStays, SameLine
    <3> QED
        BY <1>1, <2>2, <3>1
  <2> QED
      BY <2>1, <2>2
<1>3. OneLine(orders')
      BY NewOnLine
<1> QED
    BY <1>2, <1>3

LEMMA CreateStays ==
    ASSUME StoreInv, OneLine(orders), NEW c, NEW wanted, CreateOrder(c, wanted)
    PROVE  LinesStay /\ OneLine(orders')
<1> DEFINE new == 10 * nextOrderID
           line == wanted.line
           row == NewOrder(wanted, c.subject, revision[line])
           n == revision[line] + 1
<1>1. /\ line \in Lines /\ orders' = With(orders, new, row)
      /\ allocations' = allocations /\ revision' = [revision EXCEPT ![line] = n]
      BY DEF CreateOrder, Wanted, Lines
<1>2. row.line = line
      BY DEF NewOrder
<1>3. n \in Nat /\ n > revision[line]
      BY <1>1 DEF StoreInv
<1>4. new \notin DOMAIN orders
      BY DEF StoreInv, OrdersType
<1> HIDE DEF row, n, line
<1>5. /\ DOMAIN orders' = DOMAIN orders \cup {new} /\ orders'[new].line = line
      /\ \A o \in DOMAIN orders : orders'[o] = orders[o]
      BY <1>1, <1>2, <1>4 DEF With
<1> QED
    BY <1>1, <1>3, <1>5, NewOrderStays

LEMMA ConfirmStays ==
    ASSUME StoreInv, OneLine(orders), NEW c, NEW p \in DOMAIN previews,
           NEW deferDraft, NEW deferred \in SUBSET DOMAIN orders,
           ConfirmPreviewOrder(c, p, deferDraft, deferred),
           previews[p].request.draft.line = previews[p].line
    PROVE  LinesStay /\ OneLine(orders')
<1> DEFINE preview == previews[p]
           draft == preview.request.draft
           line == preview.line
           new == 10 * nextOrderID
           order == NewOrder(draft, c.subject, revision[line])
           row == [order EXCEPT !.status = IF deferDraft THEN "rejected" ELSE @]
           rest == [o \in DOMAIN orders |->
                       IF o \in deferred THEN [orders[o] EXCEPT !.status = "rejected"]
                                         ELSE orders[o]]
           n == revision[line] + 1 + Cardinality(deferred)
<1>1. /\ orders' = With(rest, new, row) /\ allocations' = allocations
      /\ revision' = [revision EXCEPT ![line] = @ + 1 + Cardinality(deferred)]
      /\ MayDefer(c, preview, deferred)
      BY DEF ConfirmPreviewOrder
<1>2. row.line = line
      BY DEF NewOrder
<1>3. line \in Lines
      BY DEF StoreInv, RequestsType, Asked
<1>4. \A o \in DOMAIN orders : orders[o] \in OrderRow
      BY DEF StoreInv, OrdersType
<1>5. \A o \in deferred : orders[o].line = line
      BY <1>1 DEF MayDefer, CanDefer
<1>6. /\ DOMAIN rest = DOMAIN orders
      /\ \A o \in DOMAIN orders :
            /\ rest[o].line = orders[o].line
            /\ orders[o].line = line \/ rest[o] = orders[o]
      BY <1>4, <1>5 DEF OrderRow
<1>7. new \notin DOMAIN orders
      BY DEF StoreInv, OrdersType
<1>8. /\ revision \in [Lines -> Nat] /\ n \in Nat /\ n > revision[line]
      /\ revision' = [revision EXCEPT ![line] = n]
  <2>1. IsFiniteSet(deferred)
        BY FS_Subset DEF StoreInv, OrdersType
  <2>2. Cardinality(deferred) \in Nat
        BY <2>1, FS_CardinalityType
  <2>3. revision \in [Lines -> Nat] /\ revision[line] \in Nat
        BY <1>3 DEF StoreInv
  <2> QED
      BY <1>1, <1>3, <2>2, <2>3
<1> HIDE DEF row, rest, n, line
<1>9. /\ DOMAIN orders' = DOMAIN orders \cup {new} /\ orders'[new].line = line
      /\ \A o \in DOMAIN orders : orders'[o] = rest[o]
      BY <1>1, <1>2, <1>6, <1>7 DEF With
<1>10. \A o \in DOMAIN orders :
           /\ orders'[o].line = orders[o].line
           /\ orders[o].line = line \/ orders'[o] = orders[o]
      BY <1>6, <1>9
<1> QED
    BY <1>1, <1>3, <1>8, <1>9, <1>10, NewOrderStays

LEMMA JobStays ==
    ASSUME RulesAssumption, StoreInv, OneLine(orders), NEW j \in DOMAIN jobs,
           NEW plan, plan = PlanLocked(jobs[j].request),
           MayExecute(jobs[j], plan), CompleteJob(j, plan)
    PROVE  LinesStay /\ OneLine(orders')
<1> DEFINE req == jobs[j].request
           line == jobs[j].line
           split == Split(orders, plan.allocations)
           S == PlannedOrders(split)
           now == revision[line]
<1>1. /\ PartsSuffice(split)
      /\ orders' = OrdersPlanned(orders, split, S, now)
      /\ allocations' = AllocationsPlanned(allocations, split, line)
      /\ revision' = [revision EXCEPT ![line] = @ + 1]
      BY DEF CompleteJob
<1>2. req \in Asked /\ line \in Lines
      BY DEF StoreInv, RequestsType, JobRow
<1>3. PiecesFit(orders, req, split)
      BY <1>1, <1>2, SplitOfRequest
<1>4. /\ WellSplit(orders, split) /\ 0 \notin DOMAIN orders
      /\ \A p \in DOMAIN orders : p \in Nat
      BY <1>3 DEF PiecesFit, StoreInv, OrdersType
<1>5. \A i \in DOMAIN split : ScheduledBy(split[i], req, line)
  <2>1. split = Split(orders, plan.allocations)
        OBVIOUS
  <2> HIDE DEF split
  <2> QED
      BY <2>1, PieceScheduled
<1>6. \A p \in Selected(orders, req) :
          p \in DOMAIN orders /\ orders[p].line = line /\ orders[p].status # "completed"
      BY JobSelects
<1> HIDE DEF split, req, now, line
<1>7. /\ DOMAIN orders' = DOMAIN orders \cup Parts(split)
      /\ Parts(split) = S \ DOMAIN orders
      /\ \A p \in DOMAIN orders \ S : orders'[p] = orders[p]
  <2>1. WellSplit(orders, split) /\ 0 \notin DOMAIN orders
        BY <1>4
  <2>2. OthersKept(orders, orders', split)
        BY <1>1, <2>1, OrdersAfterPlan
  <2> QED
      BY <2>2 DEF OthersKept
<1>8. ASSUME NEW p \in S
      PROVE  /\ orders'[p].line = line
             /\ p \in DOMAIN orders => orders[p].line = line /\ orders[p].status # "completed"
  <2>1. PICK i \in DOMAIN split : p = split[i].order
        BY <1>8 DEF PlannedOrders
  <2>2. /\ orders'[p].status = "scheduled" /\ Matches(orders'[p], {Placed(split[i], line)})
        /\ p \in DOMAIN orders => p \in Selected(orders, req)
        BY <1>5, <2>1 DEF ScheduledBy
  <2>3. orders'[p].line = line
        BY <2>2 DEF Matches, Placed
  <2> QED
      BY <1>6, <2>2, <2>3
<1>9. ASSUME NEW p \in Parts(split)
      PROVE  \E o \in DOMAIN orders : Original(p) = Original(o) /\ orders[o].line = line
  <2>1. PICK i \in DOMAIN split : split[i].source # 0 /\ p = split[i].order
        BY <1>9 DEF Parts
  <2>2. /\ split[i].source \in DOMAIN orders
        /\ p \in split[i].source + 1 .. Original(split[i].source) + MaxParts
        /\ split[i].source \in Selected(orders, req)
        BY <1>3, <1>4, <2>1 DEF WellSplit, Origin, PiecesFit
  <2>3. Original(p) = Original(split[i].source)
        BY <1>4, <2>2, PartIsNoOriginal
  <2> QED
      BY <1>6, <2>2, <2>3
<1> HIDE DEF S
<1>10. OneLine(orders')
  <2>1. \A o \in DOMAIN orders \cap DOMAIN orders' : orders'[o].line = orders[o].line
        BY <1>7, <1>8
  <2>2. \A o \in DOMAIN orders' \ DOMAIN orders :
            \E p \in DOMAIN orders : Original(o) = Original(p) /\ orders'[o].line = orders[p].line
        BY <1>7, <1>8, <1>9
  <2> QED
      BY <2>1, <2>2, PartsOnLine
<1>11. ASSUME NEW l \in Lines, l # line
       PROVE  LineStays(l)
  <2>1. \A o \in DOMAIN orders : orders[o].line = l => o \in DOMAIN orders' /\ orders'[o] = orders[o]
        BY <1>7, <1>8, <1>11
  <2>2. \A o \in DOMAIN orders' : orders'[o].line = l => o \in DOMAIN orders /\ orders[o] = orders'[o]
        BY <1>7, <1>8, <1>11
  <2> DEFINE gone == UNION {OpenOf(allocations, o) : o \in PlannedOrders(split)}
             rows == {Placed(split[i], line) : i \in DOMAIN split}
  <2>3. allocations' = (allocations \ gone) \cup rows
        BY <1>1 DEF AllocationsPlanned, Placed
  <2>4. \A a \in gone : a \in allocations /\ a.line = line
    <3> SUFFICES ASSUME NEW o \in PlannedOrders(split), NEW a \in OpenOf(allocations, o)
                 PROVE  a \in allocations /\ a.line = line
        OBVIOUS
    <3>1. a \in allocations /\ a.order = o
          BY DEF OpenOf, Of
    <3>2. o \in DOMAIN orders
          BY <3>1 DEF StoreInv, AllocationsType
    <3> QED
        BY <1>8, <3>1, <3>2, OnOwnLine DEF S
  <2>5. \A a \in rows : a.line = line
        BY DEF Placed
  <2> HIDE DEF gone, rows
  <2>6. {a \in allocations : a.line = l} = {a \in allocations' : a.line = l}
        BY <1>11, <2>3, <2>4, <2>5
  <2> QED
      BY <2>1, <2>2, <2>6 DEF LineStays, SameLine
<1>12. LinesStay
  <2> SUFFICES ASSUME NEW l \in Lines
               PROVE  /\ revision'[l] \in Nat /\ revision'[l] >= revision[l]
                      /\ revision'[l] = revision[l] => LineStays(l)
      BY DEF LinesStay
  <2>1. revision \in [Lines -> Nat] /\ line \in Lines
        BY <1>2 DEF StoreInv, line
  <2> QED
      BY <1>1, <1>11, <2>1
<1> QED
    BY <1>10, <1>12

(***************************************************************************)
(* The previews and jobs that are still good                               *)
(***************************************************************************)
\* A preview of a revision that its line still has shows what would be planned now.
PreviewShown(preview, now, rows, all) ==
    /\ preview.revision <= now[preview.line]
    /\ preview.actor \in Sales => preview.request.draft.line = preview.line
    /\ preview.actor \in Schedulers /\ preview.revision = now[preview.line] =>
          preview.allocations = PlanOn(rows, all, preview.request)

PreviewsShown ==
    \A p \in DOMAIN previews : PreviewShown(previews[p], revision, orders, allocations)

\* The preview that a queued job names, while it is saved, is the one it was made of.
MadeOf(job, preview) ==
    /\ preview.actor \in Schedulers
    /\ preview.line = job.line /\ preview.revision = job.revision
    /\ preview.request = job.request

JobsShown ==
    \A j \in DOMAIN jobs :
        jobs[j].status = "queued" /\ jobs[j].preview \in DOMAIN previews =>
            MadeOf(jobs[j], previews[jobs[j].preview])

ShownInv ==
    OneLine(orders) /\ PreviewsShown /\ JobsShown

\* A preview stays good while its line stays.
LEMMA PreviewStays ==
    ASSUME RulesAssumption, StoreInv, StoreInv', ShownInv, OneLine(orders'), LinesStay,
           NEW p \in DOMAIN previews
    PROVE  PreviewShown(previews[p], revision', orders', allocations')
<1> DEFINE preview == previews[p]
           req == preview.request
           l == preview.line
<1>1. /\ l \in Lines /\ req \in Asked /\ req.line = l /\ preview.revision \in Nat
      BY DEF StoreInv, RequestsType, Asked
<1>2. IsRequest(req)
      BY <1>1 DEF Asked, Lines, IsRequest
<1>3. /\ revision[l] \in Nat /\ revision'[l] \in Nat /\ revision'[l] >= revision[l]
      /\ revision'[l] = revision[l] => LineStays(l)
      BY <1>1 DEF LinesStay, StoreInv
<1>4. PreviewShown(preview, revision, orders, allocations)
      BY DEF ShownInv, PreviewsShown
<1>5. ASSUME preview.actor \in Schedulers, preview.revision = revision'[l]
      PROVE  preview.allocations = PlanOn(orders', allocations', req)
  <2>1. revision'[l] = revision[l]
        BY <1>1, <1>3, <1>4, <1>5 DEF PreviewShown
  <2>2. preview.allocations = PlanOn(orders, allocations, req)
        BY <1>4, <1>5, <2>1 DEF PreviewShown
  <2>3. SameLine(orders, allocations, orders', allocations', req.line)
        BY <1>1, <1>3, <2>1 DEF LineStays
  <2>4. IsOrderTable(orders) /\ IsCalendar(allocations)
        BY StoreTables
  <2>5. IsOrderTable(orders') /\ IsCalendar(allocations')
    <3>1. \A o \in DOMAIN orders' : orders'[o] \in OrderRow
          BY DEF StoreInv, OrdersType
    <3>2. IsOrderTable(orders')
          BY <3>1 DEF StoreInv, OrdersType, OrderRow, RulesAssumption, IsOrderTable
    <3>3. IsCalendar(allocations')
          BY DEF StoreInv, AllocationsType, AllocationRow, RulesAssumption, IsCalendar
    <3> QED
        BY <3>2, <3>3
  <2>6. OneLine(orders)
        BY DEF ShownInv
  <2> HIDE DEF req
  <2>7. PlanOn(orders, allocations, req) = PlanOn(orders', allocations', req)
        BY <1>2, <2>3, <2>4, <2>5, <2>6, PlanOnLine
  <2> QED
      BY <2>2, <2>7
<1> QED
    BY <1>1, <1>3, <1>4, <1>5 DEF PreviewShown

\* The rest of a step: it saves no preview and queues no job.
NothingNew ==
    /\ \A p \in DOMAIN previews' : p \in DOMAIN previews /\ previews'[p] = previews[p]
    /\ \A j \in DOMAIN jobs' :
          jobs'[j].status = "queued" => j \in DOMAIN jobs /\ jobs'[j] = jobs[j]

\* A step that raises the revision of each line it changes keeps previews good.
LEMMA NothingNewShown ==
    ASSUME RulesAssumption, StoreInv, StoreInv', ShownInv, LinesStay, OneLine(orders'),
           NothingNew
    PROVE  ShownInv'
<1>1. PreviewsShown'
  <2>1. ASSUME NEW p \in DOMAIN previews'
        PROVE  PreviewShown(previews'[p], revision', orders', allocations')
    <3>1. p \in DOMAIN previews /\ previews'[p] = previews[p]
          BY DEF NothingNew
    <3>2. PreviewShown(previews[p], revision', orders', allocations')
          BY <3>1, PreviewStays
    <3> QED
        BY <3>1, <3>2
  <2> QED
      BY <2>1 DEF PreviewsShown
<1>2. JobsShown'
      BY DEF ShownInv, JobsShown, NothingNew
<1> QED
    BY <1>1, <1>2 DEF ShownInv

\* A preview of the current revision that shows what would be planned.
LEMMA NewPreviewShown ==
    ASSUME ShownInv, NEW p, Free(p), NEW preview, NewPreview(p, preview),
           PreviewShown(preview, revision, orders, allocations)
    PROVE  ShownInv'
<1>1. /\ previews' = With(previews, p, preview)
      /\ UNCHANGED <<orders, allocations, revision, jobs, nextOrderID>>
      BY DEF NewPreview
<1>2. /\ DOMAIN previews' = DOMAIN previews \cup {p} /\ previews'[p] = preview
      /\ \A q \in DOMAIN previews \ {p} : previews'[q] = previews[q]
      BY <1>1 DEF With
<1>3. PreviewsShown'
  <2>1. ASSUME NEW q \in DOMAIN previews'
        PROVE  PreviewShown(previews'[q], revision, orders, allocations)
    <3>1. CASE q = p
          BY <1>2, <3>1
    <3>2. CASE q # p
          BY <1>2, <3>2 DEF ShownInv, PreviewsShown
    <3> QED
        BY <3>1, <3>2
  <2> QED
      BY <1>1, <2>1 DEF PreviewsShown
<1>4. JobsShown'
  <2>1. ASSUME NEW j \in DOMAIN jobs, jobs[j].status = "queued",
               jobs[j].preview \in DOMAIN previews'
        PROVE  MadeOf(jobs[j], previews'[jobs[j].preview])
    <3>1. jobs[j].preview # p
          BY <2>1 DEF Free
    <3> QED
        BY <1>2, <2>1, <3>1 DEF ShownInv, JobsShown
  <2> QED
      BY <1>1, <2>1 DEF JobsShown
<1>5. OneLine(orders')
      BY <1>1 DEF ShownInv
<1> QED
    BY <1>3, <1>4, <1>5 DEF ShownInv

\* A scheduler is not a salesperson.
LEMMA TwoRoles == ASSUME StoreAssumption PROVE Sales \cap Schedulers = {}
BY DEF StoreAssumption

LEMMA PreviewScheduleShown ==
    ASSUME StoreAssumption, StoreInv, ShownInv, NEW c \in Schedulers, NEW p, Free(p),
           NEW req, req \in Asked, PreviewSchedule(c, p, req)
    PROVE  ShownInv'
<1> DEFINE plan == PlanLocked(req)
           split == Split(orders, plan.allocations)
           preview == [actor |-> c, line |-> req.line, revision |-> revision[req.line],
                       request |-> req, allocations |-> split, conflicts |-> plan.conflicts]
<1>1. NewPreview(p, preview)
      BY DEF PreviewSchedule
<1>2. split = PlanOn(orders, allocations, req)
      BY DEF PlanLocked, PlanOn
<1> HIDE DEF plan, split
<1>3. c \notin Sales
      BY TwoRoles
<1>4. revision[req.line] \in Nat
      BY DEF Asked, StoreInv
<1>5. PreviewShown(preview, revision, orders, allocations)
      BY <1>2, <1>3, <1>4 DEF PreviewShown
<1> HIDE DEF preview
<1> QED
    BY <1>1, <1>5, NewPreviewShown

LEMMA PreviewDraftShown ==
    ASSUME StoreAssumption, StoreInv, ShownInv, NEW c \in Sales, NEW p, Free(p),
           NEW req, req \in Asked, req.draft.line = req.line, PreviewDraft(c, p, req)
    PROVE  ShownInv'
<1> DEFINE plan == DraftPlan(OrderInputs(orders, req), allocations, req, revision[req.line])
           preview == [actor |-> c, line |-> req.line, revision |-> revision[req.line],
                       request |-> req, allocations |-> plan.allocations,
                       conflicts |-> plan.conflicts]
<1>1. NewPreview(p, preview)
      BY DEF PreviewDraft
<1> HIDE DEF plan
<1>2. c \notin Schedulers
      BY TwoRoles
<1>3. revision[req.line] \in Nat
      BY DEF Asked, StoreInv
<1>4. PreviewShown(preview, revision, orders, allocations)
      BY <1>2, <1>3 DEF PreviewShown
<1> HIDE DEF preview
<1> QED
    BY <1>1, <1>4, NewPreviewShown

LEMMA CreateJobShown ==
    ASSUME ShownInv, NEW c \in Schedulers, NEW j, NEW p \in DOMAIN previews,
           CreateScheduleJob(c, j, p)
    PROVE  ShownInv'
<1> DEFINE preview == previews[p]
           job == [status |-> "queued", preview |-> p, line |-> preview.line,
                   revision |-> preview.revision, request |-> preview.request]
<1>1. /\ jobs' = With(jobs, j, job) /\ preview.actor = c
      /\ UNCHANGED <<orders, allocations, revision, previews, nextOrderID>>
      BY DEF CreateScheduleJob
<1>2. /\ DOMAIN jobs' = DOMAIN jobs \cup {j} /\ jobs'[j] = job
      /\ \A i \in DOMAIN jobs \ {j} : jobs'[i] = jobs[i]
      BY <1>1 DEF With
<1>3. JobsShown'
  <2>1. ASSUME NEW i \in DOMAIN jobs', jobs'[i].status = "queued",
               jobs'[i].preview \in DOMAIN previews
        PROVE  MadeOf(jobs'[i], previews[jobs'[i].preview])
    <3>1. CASE i = j
      <4>1. MadeOf(job, preview) /\ job.preview = p
            BY <1>1 DEF MadeOf
      <4> QED
          BY <1>2, <3>1, <4>1
    <3>2. CASE i # j
          BY <1>2, <2>1, <3>2 DEF ShownInv, JobsShown
    <3> QED
        BY <3>1, <3>2
  <2> QED
      BY <1>1, <2>1 DEF JobsShown
<1>4. PreviewsShown' /\ OneLine(orders')
      BY <1>1 DEF ShownInv, PreviewsShown
<1> QED
    BY <1>3, <1>4 DEF ShownInv

LEMMA SalesShown ==
    ASSUME StoreAssumption, RulesAssumption, StoreInv, StoreInv', ShownInv, SalesNext
    PROVE  ShownInv'
<1> PICK c \in Sales :
        \/ \E wanted \in Wants : CreateOrder(c, wanted)
        \/ \E o \in DOMAIN orders, change \in Changes : ResubmitOrder(c, o, change)
        \/ \E p \in 1 .. MaxPreviews, wanted \in Drafts :
              Free(p) /\ PreviewDraft(c, p, Request(wanted.line, Today, {}, {}, NoOption, wanted))
        \/ \E p \in DOMAIN previews, deferDraft \in BOOLEAN, deferred \in SUBSET DOMAIN orders :
              ConfirmPreviewOrder(c, p, deferDraft, deferred)
    BY DEF SalesNext
<1>1. OneLine(orders)
      BY DEF ShownInv
<1>2. CASE \E wanted \in Wants : CreateOrder(c, wanted)
  <2>1. NothingNew
        BY <1>2 DEF CreateOrder, NothingNew
  <2>2. LinesStay /\ OneLine(orders')
        BY <1>1, <1>2, CreateStays
  <2> QED
      BY <2>1, <2>2, NothingNewShown
<1>3. CASE \E o \in DOMAIN orders, change \in Changes : ResubmitOrder(c, o, change)
  <2>1. NothingNew
        BY <1>3 DEF ResubmitOrder, NothingElse, NothingNew
  <2>2. LinesStay /\ OneLine(orders')
        BY <1>1, <1>3, EditsStay
  <2> QED
      BY <2>1, <2>2, NothingNewShown
<1>4. CASE \E p \in 1 .. MaxPreviews, wanted \in Drafts :
              Free(p) /\ PreviewDraft(c, p, Request(wanted.line, Today, {}, {}, NoOption, wanted))
  <2>1. PICK p \in 1 .. MaxPreviews, wanted \in Drafts :
              Free(p) /\ PreviewDraft(c, p, Request(wanted.line, Today, {}, {}, NoOption, wanted))
        BY <1>4
  <2> DEFINE req == Request(wanted.line, Today, {}, {}, NoOption, wanted)
  <2>2. Wanted(wanted) /\ req.line = wanted.line /\ req.draft = wanted
        BY <2>1 DEF PreviewDraft, Request
  <2>3. req \in Asked
        BY <2>2, DraftRequestType
  <2> HIDE DEF req
  <2> QED
      BY <2>1, <2>2, <2>3, PreviewDraftShown DEF req
<1>5. CASE \E p \in DOMAIN previews, deferDraft \in BOOLEAN, deferred \in SUBSET DOMAIN orders :
              ConfirmPreviewOrder(c, p, deferDraft, deferred)
  <2>1. PICK p \in DOMAIN previews, deferDraft \in BOOLEAN, deferred \in SUBSET DOMAIN orders :
              ConfirmPreviewOrder(c, p, deferDraft, deferred)
        BY <1>5
  <2>2. /\ previews[p].actor = c
        /\ previews' = Without(previews, p) /\ jobs' = jobs
        BY <2>1 DEF ConfirmPreviewOrder
  <2>3. NothingNew
        BY <2>2 DEF Without, NothingNew
  <2>4. previews[p].request.draft.line = previews[p].line
        BY <2>2 DEF ShownInv, PreviewsShown, PreviewShown
  <2>5. LinesStay /\ OneLine(orders')
        BY <1>1, <2>1, <2>4, ConfirmStays
  <2> QED
      BY <2>3, <2>5, NothingNewShown
<1> QED
    BY <1>2, <1>3, <1>4, <1>5

LEMMA SchedulerShown ==
    ASSUME StoreAssumption, RulesAssumption, StoreInv, StoreInv', ShownInv, SchedulerNext
    PROVE  ShownInv'
<1> PICK c \in Schedulers :
        \/ \E S \in Bulks : RejectOrders(c, S)
        \/ \E p \in 1 .. MaxPreviews, start \in StartDays, chosen \in ChosenOrders, option \in Options,
             resolution \in {{}} \cup {{o} : o \in DOMAIN orders} :
              Free(p) /\ PreviewSchedule(c, p, Request(c.line, start, chosen, resolution, option, NoDraft))
        \/ \E j \in 1 .. MaxJobs, p \in DOMAIN previews : CreateScheduleJob(c, j, p)
        \/ \E o \in DOMAIN orders : \E day : \E produced \in Nat \ {0} :
              \/ StartProduction(c, o)
              \/ CompleteProduction(c, o, day)
              \/ PartialProduction(c, o, day, produced)
  <2>1. PICK c \in Schedulers :
            \/ \E S \in Bulks : RejectOrders(c, S)
            \/ \E p \in 1 .. MaxPreviews, start \in StartDays, chosen \in ChosenOrders, option \in Options,
                 resolution \in {{}} \cup {{o} : o \in DOMAIN orders} :
                  Free(p) /\ PreviewSchedule(c, p, Request(c.line, start, chosen, resolution, option, NoDraft))
            \/ \E j \in 1 .. MaxJobs, p \in DOMAIN previews : CreateScheduleJob(c, j, p)
            \/ \E o \in DOMAIN orders : StartProduction(c, o)
            \/ \E o \in DOMAIN orders : \E day :
                  \/ CompleteProduction(c, o, day)
                  \/ \E produced \in 1 .. orders[o].quantity : PartialProduction(c, o, day, produced)
        BY DEF SchedulerNext
  <2>2. ASSUME NEW o \in DOMAIN orders
        PROVE  1 .. orders[o].quantity \subseteq Nat \ {0} /\ 1 \in Nat \ {0}
    <3>1. orders[o].quantity \in 1 .. MaxQuantity
          BY DEF StoreInv, OrdersType, OrderRow
    <3> QED
        BY <3>1, RulesAssumption DEF RulesAssumption
  <2> QED
      BY <2>1, <2>2
<1>1. OneLine(orders)
      BY DEF ShownInv
<1>2. CASE \E S \in Bulks : RejectOrders(c, S)
  <2>1. NothingNew
        BY <1>2 DEF RejectOrders, NothingElse, NothingNew
  <2>2. LinesStay /\ OneLine(orders')
        BY <1>1, <1>2, BulksStay
  <2> QED
      BY <2>1, <2>2, NothingNewShown
<1>3. CASE \E p \in 1 .. MaxPreviews, start \in StartDays, chosen \in ChosenOrders, option \in Options,
             resolution \in {{}} \cup {{o} : o \in DOMAIN orders} :
              Free(p) /\ PreviewSchedule(c, p, Request(c.line, start, chosen, resolution, option, NoDraft))
  <2>1. PICK p \in 1 .. MaxPreviews, start \in StartDays, chosen \in ChosenOrders, option \in Options,
             resolution \in {{}} \cup {{o} : o \in DOMAIN orders} :
              Free(p) /\ PreviewSchedule(c, p, Request(c.line, start, chosen, resolution, option, NoDraft))
        BY <1>3
  <2> DEFINE req == Request(c.line, start, chosen, resolution, option, NoDraft)
  <2>2. req \in Asked
        BY RequestTypes
  <2> HIDE DEF req
  <2> QED
      BY <2>1, <2>2, PreviewScheduleShown DEF req
<1>4. CASE \E j \in 1 .. MaxJobs, p \in DOMAIN previews : CreateScheduleJob(c, j, p)
      BY <1>4, CreateJobShown
<1>5. CASE \E o \in DOMAIN orders : \E day : \E produced \in Nat \ {0} :
              \/ StartProduction(c, o)
              \/ CompleteProduction(c, o, day)
              \/ PartialProduction(c, o, day, produced)
  <2>1. NothingNew
        BY <1>5 DEF StartProduction, CompleteProduction, PartialProduction, NothingElse, NothingNew
  <2>2. LinesStay /\ OneLine(orders')
        BY <1>1, <1>5, ProductionStays
  <2> QED
      BY <2>1, <2>2, NothingNewShown
<1> QED
    BY <1>2, <1>3, <1>4, <1>5

LEMMA JobsEnd ==
    ASSUME StoreInv, NEW j \in DOMAIN jobs, NEW status \in {"completed", "failed"},
           jobs' = [jobs EXCEPT ![j].status = status],
           \A p \in DOMAIN previews' : p \in DOMAIN previews /\ previews'[p] = previews[p]
    PROVE  NothingNew
<1>1. jobs[j] \in JobRow
      BY DEF StoreInv, RequestsType
<1>2. jobs'[j].status # "queued" /\ \A i \in DOMAIN jobs \ {j} : jobs'[i] = jobs[i]
      BY <1>1 DEF JobRow
<1> QED
    BY <1>2 DEF NothingNew

LEMMA JobsNextShown ==
    ASSUME RulesAssumption, StoreInv, StoreInv', ShownInv, JobsNext
    PROVE  ShownInv'
<1>1. PICK j \in DOMAIN jobs : ExecuteScheduleJob(j)
      BY DEF JobsNext
<1> DEFINE plan == PlanLocked(jobs[j].request)
<1>2. OneLine(orders)
      BY DEF ShownInv
<1>3. CASE MayExecute(jobs[j], plan) /\ CompleteJob(j, plan)
  <2>1. /\ jobs' = [jobs EXCEPT ![j].status = "completed"]
        /\ previews' = Without(previews, jobs[j].preview)
        BY <1>3 DEF CompleteJob
  <2>2. NothingNew
        BY <2>1, JobsEnd DEF Without
  <2>3. plan = PlanLocked(jobs[j].request)
        OBVIOUS
  <2> HIDE DEF plan
  <2>4. LinesStay /\ OneLine(orders')
        BY <1>2, <1>3, <2>3, JobStays
  <2> QED
      BY <2>2, <2>4, NothingNewShown
<1>4. CASE FailJob(j)
  <2>1. /\ jobs' = [jobs EXCEPT ![j].status = "failed"]
        /\ UNCHANGED <<orders, allocations, revision, previews>>
        BY <1>4 DEF FailJob
  <2>2. NothingNew
        BY <2>1, JobsEnd
  <2>3. JobsShown'
        BY <2>2 DEF ShownInv, JobsShown, NothingNew
  <2> QED
      BY <2>1, <2>3 DEF ShownInv, PreviewsShown
<1> QED
    BY <1>1, <1>3, <1>4 DEF ExecuteScheduleJob

LEMMA NextShown ==
    ASSUME StoreAssumption, RulesAssumption, StoreInv, ShownInv, [Next]_vars
    PROVE  ShownInv'
<1>1. StoreInv'
      BY NextKeeps
<1>2. CASE SalesNext
      BY <1>1, <1>2, SalesShown
<1>3. CASE SchedulerNext
      BY <1>1, <1>3, SchedulerShown
<1>4. CASE AnyoneNext
  <2>1. PICK c \in Sales \cup Schedulers :
            \/ \E o \in DOMAIN orders, change \in Changes : UpdateOrderDueDate(c, o, change)
            \/ \E S \in Bulks : CancelOrders(c, S)
        BY <1>4 DEF AnyoneNext
  <2>2. LinesStay /\ OneLine(orders')
        BY <2>1, EditsStay, BulksStay DEF ShownInv
  <2>3. NothingNew
        BY <2>1 DEF UpdateOrderDueDate, CancelOrders, NothingElse, NothingNew
  <2> QED
      BY <1>1, <2>2, <2>3, NothingNewShown
<1>5. CASE JobsNext
      BY <1>1, <1>5, JobsNextShown
<1>6. CASE UNCHANGED vars
      BY <1>6 DEF vars, ShownInv, PreviewsShown, JobsShown
<1> QED
    BY <1>2, <1>3, <1>4, <1>5, <1>6 DEF Next

\* A preview of the revision that its line still has shows what would be planned
\* now, and a queued job is what its preview was.
THEOREM PreviewsStayTrue == Spec => []ShownInv
<1>1. Init => ShownInv
  <2> SUFFICES ASSUME Init PROVE ShownInv
      OBVIOUS
  <2>1. DOMAIN orders = {} /\ DOMAIN previews = {} /\ DOMAIN jobs = {}
        BY DEF Init, NoMap
  <2> QED
      BY <2>1 DEF ShownInv, OneLine, PreviewsShown, JobsShown
<1>2. StoreInv /\ ShownInv /\ [Next]_vars => ShownInv'
      BY NextShown, StoreAssumption, RulesAssumption
<1> QED
    BY <1>1, <1>2, StoreInvariance, PTL DEF Spec

\* Only the execution of a job completes a queued job.
LEMMA ExecutedByJob ==
    ASSUME StoreInv, NEW j \in DOMAIN jobs, Executed(j), [Next]_vars
    PROVE  LET plan == PlanLocked(jobs[j].request) IN
           MayExecute(jobs[j], plan) /\ CompleteJob(j, plan)
<1>1. jobs' # jobs /\ jobs'[j] # jobs[j]
      BY DEF Executed
<1>2. ASSUME NEW c, NEW i, NEW p, CreateScheduleJob(c, i, p)
      PROVE  FALSE
      BY <1>1, <1>2 DEF CreateScheduleJob, With, Executed
<1>3. CASE JobsNext
  <2>1. PICK i \in DOMAIN jobs : ExecuteScheduleJob(i)
        BY <1>3 DEF JobsNext
  <2> DEFINE plan == PlanLocked(jobs[i].request)
  <2>2. CASE MayExecute(jobs[i], plan) /\ CompleteJob(i, plan)
    <3>1. i = j
          BY <1>1, <2>2 DEF CompleteJob
    <3> QED
        BY <2>2, <3>1
  <2>3. CASE FailJob(i)
    <3>1. jobs' = [jobs EXCEPT ![i].status = "failed"]
          BY <2>3 DEF FailJob
    <3>2. i = j
          BY <1>1, <3>1
    <3>3. jobs[j] \in JobRow
          BY DEF StoreInv, RequestsType
    <3> QED
        BY <3>1, <3>2, <3>3 DEF Executed, JobRow
  <2> QED
      BY <2>1, <2>2, <2>3 DEF ExecuteScheduleJob
<1>4. CASE SalesNext
      BY <1>1, <1>4 DEF SalesNext, CreateOrder, ResubmitOrder, PreviewDraft, NewPreview,
                        ConfirmPreviewOrder, NothingElse
<1>5. CASE SchedulerNext
  <2>1. \/ \E c, S : RejectOrders(c, S)
        \/ \E c, p, req : PreviewSchedule(c, p, req)
        \/ \E c, i, p : CreateScheduleJob(c, i, p)
        \/ \E c, o : StartProduction(c, o)
        \/ \E c, o, day : CompleteProduction(c, o, day)
        \/ \E c, o, day, produced : PartialProduction(c, o, day, produced)
        BY <1>5 DEF SchedulerNext
  <2>2. ASSUME NEW c, NEW S, RejectOrders(c, S) PROVE FALSE
        BY <1>1, <2>2 DEF RejectOrders, NothingElse
  <2>3. ASSUME NEW c, NEW p, NEW req, PreviewSchedule(c, p, req) PROVE FALSE
        BY <1>1, <2>3 DEF PreviewSchedule, NewPreview
  <2>4. ASSUME NEW c, NEW o, NEW day, NEW produced,
               \/ StartProduction(c, o)
               \/ CompleteProduction(c, o, day)
               \/ PartialProduction(c, o, day, produced)
        PROVE  FALSE
        BY <1>1, <2>4 DEF StartProduction, CompleteProduction, PartialProduction, NothingElse
  <2> QED
      BY <1>2, <2>1, <2>2, <2>3, <2>4
<1>6. CASE AnyoneNext
      BY <1>1, <1>6 DEF AnyoneNext, UpdateOrderDueDate, CancelOrders, NothingElse
<1>7. CASE UNCHANGED vars
      BY <1>1, <1>7 DEF vars
<1> QED
    BY <1>3, <1>4, <1>5, <1>6, <1>7 DEF Next

LEMMA ShownIsPlanned ==
    ASSUME RulesAssumption, StoreInv, ShownInv, [Next]_vars,
           NEW j \in DOMAIN jobs, Executed(j), jobs[j].preview \in DOMAIN previews,
           NEW shown, shown = previews[jobs[j].preview].allocations
    PROVE  /\ allocations' = AllocationsPlanned(allocations, shown, jobs[j].line)
           /\ \A i \in DOMAIN shown : orders'[shown[i].order].quantity = shown[i].quantity
<1> DEFINE plan == PlanLocked(jobs[j].request)
           split == Split(orders, plan.allocations)
           preview == previews[jobs[j].preview]
<1>1. plan = PlanLocked(jobs[j].request) /\ split = Split(orders, plan.allocations)
      OBVIOUS
<1>2. MayExecute(jobs[j], plan) /\ CompleteJob(j, plan)
      BY ExecutedByJob
<1>3. /\ allocations' = AllocationsPlanned(allocations, split, jobs[j].line)
      /\ revision[jobs[j].line] = jobs[j].revision
      BY <1>2 DEF CompleteJob, MayExecute
<1>4. split = PlanOn(orders, allocations, jobs[j].request)
      BY DEF PlanLocked, PlanOn
<1> HIDE DEF plan, split
<1>5. MadeOf(jobs[j], preview)
      BY DEF Executed, ShownInv, JobsShown
<1>6. PreviewShown(preview, revision, orders, allocations)
      BY DEF ShownInv, PreviewsShown
<1>7. preview.allocations = PlanOn(orders, allocations, preview.request)
      BY <1>3, <1>5, <1>6 DEF MadeOf, PreviewShown
<1>8. shown = split
      BY <1>4, <1>5, <1>7 DEF MadeOf
<1>9. ASSUME NEW i \in DOMAIN split
      PROVE  orders'[split[i].order].quantity = split[i].quantity
  <2>1. ScheduledBy(split[i], jobs[j].request, jobs[j].line)
        BY <1>1, <1>2, PieceScheduled
  <2> QED
      BY <2>1 DEF ScheduledBy
<1> QED
    BY <1>3, <1>8, <1>9

\* ExecutedAsShown for any instance: whatever happens between a preview and the
\* execution of its job, a job that is executed books the days, orders and
\* quantities that the scheduler saw, though it plans them again.
THEOREM JobsExecuteWhatWasShown == Spec => ExecutedAsShown
<1> DEFINE Shown == \A j \in DOMAIN jobs :
              (Executed(j) /\ jobs[j].preview \in DOMAIN previews) =>
                 LET shown == previews[jobs[j].preview].allocations
                 IN  /\ allocations' = AllocationsPlanned(allocations, shown, jobs[j].line)
                     /\ \A i \in DOMAIN shown :
                           orders'[shown[i].order].quantity = shown[i].quantity
<1>1. StoreInv /\ ShownInv /\ [Next]_vars => [Shown]_vars
      BY ShownIsPlanned, RulesAssumption
<1> QED
    BY <1>1, StoreInvariance, PreviewsStayTrue, PTL DEF Spec, ExecutedAsShown
=============================================================================
