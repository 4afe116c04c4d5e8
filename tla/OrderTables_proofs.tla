-------------------------- MODULE OrderTables_proofs --------------------------
(***************************************************************************)
(* The tables of the PostgreSQL store fit together, nobody who waits is on *)
(* the calendar, jobs keep quantities and overbook no day that was not     *)
(* shown, and drafts are confirmed once, for any lines, orders, requests   *)
(* and bounds.                                                             *)
(***************************************************************************)
EXTENDS OrderTables, OrderRules_proofs

(***************************************************************************)
(* Drafts                                                                  *)
(***************************************************************************)

Ids == 1 .. MaxPreviews

\* Ids of previews are given out in order, and a draft that is still saved, or
\* that will be, has not been confirmed.
DraftInv ==
    /\ nextPreviewID \in Nat \ {0}
    /\ \A p \in DOMAIN previews : p \in Ids /\ p < nextPreviewID
    /\ confirmed \in [Ids -> Nat]
    /\ \A p \in Ids : confirmed[p] <= 1
    /\ \A p \in Ids : p \in DOMAIN previews \/ p >= nextPreviewID => confirmed[p] = 0

drafts == <<previews, nextPreviewID, confirmed>>

LEMMA InitDraftInv == Init => DraftInv
BY TablesAssumption DEF Init, DraftInv, Ids, NoMap

LEMMA DraftsKept == ASSUME DraftInv, UNCHANGED drafts PROVE DraftInv'
BY DEF DraftInv, drafts, Ids

\* Most requests leave the previews alone, reading or writing.
LEMMA OthersKeepDrafts ==
    ASSUME NEW r \in Requests,
           \/ \E c \in Claims : OrderNamed(r, c) \/ PreviewAsked(r, c) \/ DraftAnswered(r, c)
           \/ WentOn(r) \/ WriteOrder(r) \/ CancelOrder(r) \/ StartProduction(r)
           \/ CompleteProduction(r) \/ PartialProduction(r)
    PROVE  UNCHANGED drafts
<1> USE DEF drafts
<1>1. ASSUME NEW call, Begin(r, call) \/ GoOn(r, call)
      PROVE  UNCHANGED drafts
      BY <1>1 DEF Begin, GoOn, tables
<1>2. Refuse(r) => UNCHANGED drafts
      BY <1>1 DEF Refuse
<1>3. ASSUME NEW c \in Claims, OrderNamed(r, c)
      PROVE  UNCHANGED drafts
      BY <1>1, <1>3 DEF OrderNamed, ReadToUpdate, ReadToResubmit, ReadToReject, ReadToCancel,
                        ReadToStart, ReadToConfirm
<1>4. ASSUME NEW c \in Claims, PreviewAsked(r, c)
      PROVE  UNCHANGED drafts
      BY <1>1, <1>4 DEF PreviewAsked, ReadLine
<1>5. ASSUME NEW c \in Claims, DraftAnswered(r, c)
      PROVE  UNCHANGED drafts
      BY <1>1, <1>5 DEF DraftAnswered, ReadToConfirmDraft
<1>6. CASE WentOn(r)
      BY <1>1, <1>2, <1>6 DEF WentOn, CountAllocations, LoadAllocation, ReadInputs
<1>7. CASE WriteOrder(r) \/ CancelOrder(r) \/ StartProduction(r) \/ CompleteProduction(r)
      BY <1>7 DEF WriteOrder, CancelOrder, StartProduction, CompleteProduction
<1>8. CASE PartialProduction(r)
      BY <1>2, <1>8 DEF PartialProduction
<1> QED
    BY <1>3, <1>4, <1>5, <1>6, <1>7, <1>8

LEMMA SavePreviewKeeps ==
    ASSUME DraftInv, NEW r, NEW read, NEW allocs, NEW conflicts,
           SavePreview(r, read, allocs, conflicts)
    PROVE  DraftInv'
<1>1. /\ nextPreviewID \in Ids /\ nextPreviewID' = nextPreviewID + 1
      /\ DOMAIN previews' = DOMAIN previews \cup {nextPreviewID}
      /\ confirmed' = confirmed
      BY TablesAssumption DEF SavePreview, With, DraftInv, Ids
<1> QED
    BY <1>1 DEF DraftInv, Ids

LEMMA ConfirmKeeps ==
    ASSUME DraftInv, NEW r \in Requests, ConfirmPreviewOrder(r)
    PROVE  DraftInv'
<1> DEFINE p == calls[r].preview
<1>1. CASE Wanted(calls[r].draft) /\ StillAsRead(calls[r])
  <2>1. /\ p \in DOMAIN previews
        /\ DOMAIN previews' = DOMAIN previews \ {p}
        /\ confirmed' = [confirmed EXCEPT ![p] = @ + 1]
        /\ nextPreviewID' = nextPreviewID
        BY <1>1 DEF ConfirmPreviewOrder, StillAsRead, Without
  <2> HIDE DEF p
  <2>2. p \in Ids /\ p < nextPreviewID /\ confirmed[p] = 0
        BY <2>1 DEF DraftInv
  <2>3. /\ confirmed' \in [Ids -> Nat] /\ confirmed'[p] = 1
        /\ \A q \in Ids \ {p} : confirmed'[q] = confirmed[q]
        BY <2>1, <2>2 DEF DraftInv
  <2> QED
      BY <2>1, <2>2, <2>3 DEF DraftInv, Ids
<1>2. CASE ~(Wanted(calls[r].draft) /\ StillAsRead(calls[r]))
  <2>1. UNCHANGED drafts
        BY <1>2 DEF ConfirmPreviewOrder, Refuse, GoOn, tables, drafts
  <2> QED
      BY <2>1, DraftsKept
<1> QED
    BY <1>1, <1>2

LEMMA NextKeepsDrafts == DraftInv /\ [Next]_vars => DraftInv'
<1> SUFFICES ASSUME DraftInv, [Next]_vars PROVE DraftInv'
    OBVIOUS
<1>1. ASSUME NEW c \in Claims, NEW wanted \in Wants, CreateOrder(c, wanted)
      PROVE  DraftInv'
      BY <1>1, DraftsKept DEF CreateOrder, drafts
<1>2. ASSUME NEW r \in Requests, PlanPreview(r)
      PROVE  DraftInv'
      BY <1>2, SavePreviewKeeps DEF PlanPreview
<1>3. ASSUME NEW r \in Requests, PlanDraft(r)
      PROVE  DraftInv'
      BY <1>3, SavePreviewKeeps DEF PlanDraft
<1>4. ASSUME NEW p \in DOMAIN previews, ExpirePreview(p)
      PROVE  DraftInv'
      BY <1>4 DEF ExpirePreview, Without, DraftInv, Ids
<1>5. ASSUME NEW p \in DOMAIN previews, ApplyPreview(p)
      PROVE  DraftInv'
      BY <1>5, DraftsKept DEF ApplyPreview, drafts
<1>6. CASE UNCHANGED vars
      BY <1>6, DraftsKept DEF vars, drafts
<1>7. ASSUME NEW r \in Requests,
             \/ \E c \in Claims : OrderNamed(r, c) \/ PreviewAsked(r, c) \/ DraftAnswered(r, c)
             \/ WentOn(r) \/ Wrote(r)
      PROVE  DraftInv'
      BY <1>2, <1>3, <1>7, OthersKeepDrafts, DraftsKept, ConfirmKeeps DEF Wrote
<1> QED
    BY <1>1, <1>4, <1>5, <1>6, <1>7 DEF Next

\* DraftConfirmedOnce for any instance: a salesperson who confirms a draft twice, from
\* two replicas at once, or again after a lost answer, has one order.
THEOREM DraftsConfirmedOnce == Spec => []DraftConfirmedOnce
<1>1. DraftInv => DraftConfirmedOnce
      BY DEF DraftInv, DraftConfirmedOnce, Ids
<1> QED
    BY <1>1, InitDraftInv, NextKeepsDrafts, PTL DEF Spec

(***************************************************************************)
(* The invariant of the tables                                             *)
(***************************************************************************)
OrderRow ==
    [line : Lines, quantity : MinQuantity .. MaxQuantity, high : BOOLEAN, due : Nat,
     status : Statuses, createdBy : {c.subject : c \in Claims}, createdAt : Nat,
     source : Nat]

AllocationRow ==
    [order : Nat, line : Lines, day : Int, quantity : 1 .. MaxQuantity, high : BOOLEAN,
     locked : BOOLEAN, status : {"scheduled", "inProgress", "completed"}]

\* Ids are below the next one, and an order is on one line with its parts.
OrdersFit(rows, next) ==
    /\ rows \in [DOMAIN rows -> OrderRow] /\ IsFiniteSet(DOMAIN rows)
    /\ next \in Nat \ {0}
    /\ \A o \in DOMAIN rows :
          /\ o \in Nat \ {0} /\ o < 10 * next
          /\ Original(o) \in DOMAIN rows /\ rows[Original(o)].line = rows[o].line

Waits(order) == order.status \in {"pending", "rejected"}

CalendarFits(rows, all) ==
    /\ all \subseteq AllocationRow /\ IsFiniteSet(all)
    /\ \A a \in all :
          /\ a.order \in DOMAIN rows
          /\ ~Waits(rows[a.order]) /\ a.line = rows[a.order].line

\* Nothing that is to move is locked, or of high priority.
MayBePlanned(rows, all, req) ==
    \A o \in req.resolution : CanMove(rows, all, req.line, o)

IsDraft(req) == req.draft \in Drafts /\ req.draft.line = req.line

Named(call, rows) == call.id \in DOMAIN rows

\* An order that is written back waits, and is on the line it was on.
Writes(call, rows) ==
    /\ call.order.quantity \in MinQuantity .. MaxQuantity /\ call.order.due \in Nat
    /\ Waits(call.order) /\ call.order.line = rows[call.id].line

Confirms(call, rows) ==
    /\ call = [op |-> call.op, id |-> call.id, order |-> call.order, day |-> call.day,
               produced |-> call.produced]
    /\ call.order \in OrderRow /\ call.order.line = rows[call.id].line

\* A line is asked for at a revision it has had.
Asks(call, now) ==
    /\ IsRequest(call.request)
    /\ call.revision \in Nat /\ call.revision <= now[call.request.line]
    /\ call.by.role = "sales" => IsDraft(call.request)

\* What is planned with is what the orders are, if the revision is the line's still.
HasRead(call, rows, all, now) ==
    call.revision = now[call.request.line] =>
        /\ call.inputs = OrderInputs(rows, call.request)
        /\ MayBePlanned(rows, all, call.request)

Answers(call, rows) ==
    /\ call.by \in Claims /\ call.draft \in Drafts
    /\ call.deferred \subseteq DOMAIN rows
    /\ \A o \in call.deferred : rows[o].line = call.draft.line

CallFits(call, rows, all, now) ==
    \/ call = [op |-> "idle"]
    \/ /\ call.op \in {"cancel", "count", "start"} /\ Named(call, rows)
       /\ call = [op |-> call.op, id |-> call.id]
    \/ call.op = "write" /\ Named(call, rows) /\ Writes(call, rows)
    \/ call.op \in {"load", "confirm"} /\ Named(call, rows) /\ Confirms(call, rows)
    \/ call.op = "inputs" /\ Asks(call, now)
    \/ call.op = "plan" /\ Asks(call, now) /\ HasRead(call, rows, all, now)
    \/ call.op = "draft" /\ Answers(call, rows)

\* A schedule fits the tables: without conflicts it plans every wafer, and without
\* manual force it overbooks no day.
Schedules(preview, rows, all) ==
    LET req   == preview.request
        split == preview.allocations
    IN  /\ PiecesFit(rows, req, split)
        /\ MayBePlanned(rows, all, req)
        /\ NobodyLate(preview.conflicts) => WholePlanned(rows, req, split)
        /\ ~req.manualForce => RoomLeft(all, req, split)

\* It does as long as the revision of its line stays.
PreviewFits(preview, rows, all, now) ==
    /\ IsRequest(preview.request)
    /\ preview.revision \in Nat /\ preview.revision <= now[preview.request.line]
    /\ preview.role = "sales" => IsDraft(preview.request)
    /\ preview.role = "scheduler" /\ preview.revision = now[preview.request.line] =>
          Schedules(preview, rows, all)

TablesInv ==
    /\ OrdersFit(orders, nextOrderID)
    /\ CalendarFits(orders, allocations)
    /\ revision \in [Lines -> Nat]
    /\ DOMAIN calls = Requests
    /\ \A r \in Requests : CallFits(calls[r], orders, allocations, revision)
    /\ \A p \in DOMAIN previews : PreviewFits(previews[p], orders, allocations, revision)

\* From one state of the tables to another: an order stays, on its line, and a line
\* whose revision stays has the orders and the allocations it had.
Later(old, oldAll, then, rows, all, now) ==
    /\ \A o \in DOMAIN old : o \in DOMAIN rows /\ rows[o].line = old[o].line
    /\ \A l \in Lines : then[l] <= now[l]
    /\ \A o \in DOMAIN rows :
          then[rows[o].line] = now[rows[o].line] => o \in DOMAIN old /\ rows[o] = old[o]
    /\ \A a \in oldAll \cup all :
          then[a.line] = now[a.line] => (a \in oldAll <=> a \in all)

LEMMA RowType ==
    ASSUME NEW rows, NEW next, OrdersFit(rows, next), NEW o \in DOMAIN rows
    PROVE  /\ rows[o] \in OrderRow /\ o \in Nat \ {0} /\ o < 10 * next
           /\ rows[o].line \in Lines /\ rows[o].quantity \in MinQuantity .. MaxQuantity
           /\ rows[o].status \in Statuses
BY DEF OrdersFit, OrderRow

\* The orders that a request selects are those of its line.
LEMMA SelectedStay ==
    ASSUME NEW n, NEW m, NEW old, NEW oldAll, NEW then, NEW rows, NEW all, NEW now,
           OrdersFit(old, n), OrdersFit(rows, m), Later(old, oldAll, then, rows, all, now),
           NEW req, then[req.line] = now[req.line]
    PROVE  /\ Selected(rows, req) = Selected(old, req)
           /\ \A o \in Selected(old, req) : o \in DOMAIN old /\ rows[o] = old[o]
<1>1. ASSUME NEW o \in DOMAIN rows, rows[o].line = req.line
      PROVE  o \in DOMAIN old /\ rows[o] = old[o]
      BY <1>1 DEF Later
<1>2. ASSUME NEW o \in DOMAIN old, old[o].line = req.line
      PROVE  o \in DOMAIN rows /\ rows[o] = old[o]
  <2>1. o \in DOMAIN rows /\ rows[o].line = req.line
        BY <1>2 DEF Later
  <2> QED
      BY <1>1, <2>1
<1> QED
    BY <1>1, <1>2 DEF Selected

\* Ids for parts that were free stay free as long as the revision stays: an order
\* that takes one is on the same line.
LEMMA PiecesStayFit ==
    ASSUME NEW n, NEW m, NEW old, NEW oldAll, NEW then, NEW rows, NEW all, NEW now,
           OrdersFit(old, n), OrdersFit(rows, m), Later(old, oldAll, then, rows, all, now),
           NEW req, then[req.line] = now[req.line],
           NEW split, PiecesFit(old, req, split)
    PROVE  PiecesFit(rows, req, split)
<1>1. /\ Selected(rows, req) = Selected(old, req)
      /\ \A o \in Selected(old, req) : o \in DOMAIN old /\ rows[o] = old[o]
      BY SelectedStay
<1>2. WellSplit(old, split) /\ IsFiniteSet(DOMAIN split)
      BY DEF PiecesFit
<1>3. ASSUME NEW i \in DOMAIN split
      PROVE  /\ Origin(split[i]) \in Selected(rows, req)
             /\ split[i].day \in Int
             /\ split[i].quantity \in 1 .. rows[Origin(split[i])].quantity
             /\ split[i].locked = rows[Origin(split[i])].high
      BY <1>1 DEF PiecesFit
<1>4. ASSUME NEW i \in DOMAIN split, split[i].source # 0
      PROVE  split[i].order \notin DOMAIN rows
  <2> DEFINE part == split[i].order
             o == split[i].source
  <2>1. SUFFICES ASSUME part \in DOMAIN rows
                 PROVE  FALSE
        OBVIOUS
  <2>2. /\ part \notin DOMAIN old /\ part \in o + 1 .. Original(o) + MaxParts
        /\ o \in Selected(old, req)
        BY <1>2, <1>4 DEF WellSplit, Origin, PiecesFit
  <2>3. /\ o \in DOMAIN old /\ o \in DOMAIN rows /\ rows[o].line = req.line
        BY <1>1, <2>2 DEF Selected
  <2>4. o \in Nat /\ o < 10 * n /\ n \in Nat
        BY <2>3 DEF OrdersFit
  <2> HIDE DEF part, o
  <2>5. Original(part) = Original(o)
        BY <2>2, <2>4, PartBelow
  <2>6. rows[part].line = req.line
        BY <2>1, <2>3, <2>5 DEF OrdersFit
  <2> QED
      BY <2>1, <2>2, <2>6 DEF Later
<1>5. WellSplit(rows, split)
  <2>1. \A i \in DOMAIN split : Origin(split[i]) \in DOMAIN rows
        BY <1>3 DEF Selected
  <2> QED
      BY <1>2, <1>4, <2>1 DEF WellSplit
<1> QED
    BY <1>2, <1>3, <1>5 DEF PiecesFit

\* What may move on a line may move as long as the revision stays.
LEMMA MoversStay ==
    ASSUME NEW old, NEW oldAll, NEW then, NEW rows, NEW all, NEW now,
           Later(old, oldAll, then, rows, all, now),
           CalendarFits(old, oldAll), CalendarFits(rows, all),
           NEW req, then[req.line] = now[req.line], MayBePlanned(old, oldAll, req)
    PROVE  MayBePlanned(rows, all, req)
<1> SUFFICES ASSUME NEW o \in req.resolution
             PROVE  CanMove(rows, all, req.line, o)
    BY DEF MayBePlanned
<1>1. CanMove(old, oldAll, req.line, o)
      BY DEF MayBePlanned
<1>2. o \in DOMAIN old /\ old[o].line = req.line
      BY <1>1 DEF CanMove
<1>3. o \in DOMAIN rows /\ rows[o] = old[o]
      BY <1>2 DEF Later
<1>4. \A a \in oldAll \cup all : a.order = o => a.line = req.line
      BY <1>2, <1>3 DEF CalendarFits
<1>5. Of(all, o) = Of(oldAll, o)
      BY <1>4 DEF Of, Later
<1> QED
    BY <1>1, <1>2, <1>3, <1>5 DEF CanMove

\* A line whose revision stays has the room that it had.
LEMMA RoomStays ==
    ASSUME RulesAssumption, NEW old, NEW oldAll, NEW then, NEW rows, NEW all, NEW now,
           Later(old, oldAll, then, rows, all, now),
           CalendarFits(old, oldAll), CalendarFits(rows, all),
           NEW req, then[req.line] = now[req.line],
           NEW split, RoomLeft(oldAll, req, split)
    PROVE  RoomLeft(all, req, split)
<1> DEFINE Kept(c) == {a \in c : a.order \notin req.resolution}
<1>1. ASSUME NEW d
      PROVE  Load(Kept(all), req.line, d) = Load(Kept(oldAll), req.line, d)
  <2>1. {a \in Kept(all) : a.line = req.line /\ a.day = d}
           = {a \in Kept(oldAll) : a.line = req.line /\ a.day = d}
        BY DEF Later
  <2>2. IsFiniteSet(Kept(all))
        BY FS_Subset DEF CalendarFits
  <2> HIDE DEF Kept
  <2> QED
      BY <2>1, <2>2, SameLoad
<1> QED
    BY <1>1 DEF RoomLeft

\* A revision that is the line's now was the line's before.
LEMMA RevisionWas ==
    ASSUME NEW old, NEW oldAll, NEW then \in [Lines -> Nat],
           NEW rows, NEW all, NEW now \in [Lines -> Nat],
           Later(old, oldAll, then, rows, all, now),
           NEW l \in Lines, NEW read \in Nat, read <= then[l]
    PROVE  read <= now[l] /\ (read = now[l] => then[l] = now[l])
<1>1. then[l] \in Nat /\ now[l] \in Nat /\ then[l] <= now[l]
      BY DEF Later
<1> QED
    BY <1>1

\* What a call has read fits as well after the steps of others.
LEMMA CallStaysFit ==
    ASSUME NEW n, NEW m, NEW old, NEW oldAll, NEW then \in [Lines -> Nat],
           NEW rows, NEW all, NEW now \in [Lines -> Nat],
           OrdersFit(old, n), OrdersFit(rows, m), Later(old, oldAll, then, rows, all, now),
           CalendarFits(old, oldAll), CalendarFits(rows, all),
           NEW call, CallFits(call, old, oldAll, then)
    PROVE  CallFits(call, rows, all, now)
<1>1. Named(call, old) => Named(call, rows) /\ rows[call.id].line = old[call.id].line
      BY DEF Named, Later
<1>2. Asks(call, then) => Asks(call, now)
  <2> SUFFICES ASSUME Asks(call, then) PROVE Asks(call, now)
      OBVIOUS
  <2>1. call.request.line \in Lines /\ call.revision \in Nat
        BY DEF Asks, IsRequest, Lines
  <2>2. call.revision <= then[call.request.line]
        BY DEF Asks
  <2>3. call.revision <= now[call.request.line]
        BY <2>1, <2>2, RevisionWas
  <2> QED
      BY <2>3 DEF Asks
<1>3. ASSUME Asks(call, then), HasRead(call, old, oldAll, then)
      PROVE  HasRead(call, rows, all, now)
  <2> DEFINE req == call.request
  <2> SUFFICES ASSUME call.revision = now[req.line]
               PROVE  call.inputs = OrderInputs(rows, req) /\ MayBePlanned(rows, all, req)
      BY DEF HasRead
  <2>1. req.line \in Lines /\ call.revision \in Nat /\ call.revision <= then[req.line]
        BY <1>3 DEF Asks, IsRequest, Lines
  <2>2. then[req.line] = now[req.line]
        BY <2>1, RevisionWas
  <2>3. call.inputs = OrderInputs(old, req) /\ MayBePlanned(old, oldAll, req)
        BY <1>3, <2>2 DEF HasRead
  <2>4. /\ Selected(rows, req) = Selected(old, req)
        /\ \A o \in Selected(old, req) : rows[o] = old[o]
        BY <2>2, SelectedStay
  <2>5. OrderInputs(rows, req) = OrderInputs(old, req)
        BY <2>4 DEF OrderInputs
  <2> QED
      BY <2>2, <2>3, <2>5, MoversStay
<1>4. Answers(call, old) => Answers(call, rows)
      BY DEF Answers, Later
<1> QED
    BY <1>1, <1>2, <1>3, <1>4 DEF CallFits, Writes, Confirms

LEMMA PreviewStaysFit ==
    ASSUME RulesAssumption, NEW n, NEW m, NEW old, NEW oldAll, NEW then \in [Lines -> Nat],
           NEW rows, NEW all, NEW now \in [Lines -> Nat],
           OrdersFit(old, n), OrdersFit(rows, m), Later(old, oldAll, then, rows, all, now),
           CalendarFits(old, oldAll), CalendarFits(rows, all),
           NEW preview, PreviewFits(preview, old, oldAll, then)
    PROVE  PreviewFits(preview, rows, all, now)
<1> DEFINE req == preview.request
<1>1. req.line \in Lines /\ preview.revision \in Nat /\ preview.revision <= then[req.line]
      BY DEF PreviewFits, IsRequest, Lines
<1>2. /\ preview.revision <= now[req.line]
      /\ preview.revision = now[req.line] => then[req.line] = now[req.line]
      BY <1>1, RevisionWas
<1> DEFINE split == preview.allocations
<1>3. ASSUME preview.role = "scheduler", preview.revision = now[req.line]
      PROVE  Schedules(preview, rows, all)
  <2>1. then[req.line] = now[req.line]
        BY <1>2, <1>3
  <2>2. /\ PiecesFit(old, req, split) /\ MayBePlanned(old, oldAll, req)
        /\ NobodyLate(preview.conflicts) => WholePlanned(old, req, split)
        /\ ~req.manualForce => RoomLeft(oldAll, req, split)
        BY <1>3, <2>1 DEF PreviewFits, Schedules
  <2>3. /\ Selected(rows, req) = Selected(old, req)
        /\ \A o \in Selected(old, req) : rows[o] = old[o]
        BY <2>1, SelectedStay
  <2>4. PiecesFit(rows, req, split)
        BY <2>1, <2>2, PiecesStayFit
  <2>5. MayBePlanned(rows, all, req)
        BY <2>1, <2>2, MoversStay
  <2>6. WholePlanned(old, req, split) => WholePlanned(rows, req, split)
        BY <2>3 DEF WholePlanned
  <2>7. RoomLeft(oldAll, req, split) => RoomLeft(all, req, split)
        BY <2>1, RoomStays
  <2> QED
      BY <2>2, <2>4, <2>5, <2>6, <2>7 DEF Schedules
<1> QED
    BY <1>2, <1>3 DEF PreviewFits

(***************************************************************************)
(* What the steps have in common                                           *)
(***************************************************************************)
\* A transaction ends the call that makes it, and the others have read what still
\* fits.
LEMMA TablesMove ==
    ASSUME RulesAssumption, TablesInv,
           OrdersFit(orders', nextOrderID'), CalendarFits(orders', allocations'),
           revision' \in [Lines -> Nat],
           Later(orders, allocations, revision, orders', allocations', revision'),
           DOMAIN calls' = Requests, \A r \in Requests : calls'[r] \in {calls[r], Idle},
           \A p \in DOMAIN previews' : p \in DOMAIN previews /\ previews'[p] = previews[p]
    PROVE  TablesInv'
<1>1. /\ OrdersFit(orders, nextOrderID) /\ CalendarFits(orders, allocations)
      /\ revision \in [Lines -> Nat]
      /\ \A r \in Requests : CallFits(calls[r], orders, allocations, revision)
      /\ \A p \in DOMAIN previews : PreviewFits(previews[p], orders, allocations, revision)
      BY DEF TablesInv
<1>2. ASSUME NEW r \in Requests
      PROVE  CallFits(calls'[r], orders', allocations', revision')
  <2>1. CASE calls'[r] = Idle
        BY <2>1 DEF CallFits, Idle
  <2>2. CASE calls'[r] = calls[r]
        BY <1>1, <2>2, CallStaysFit
  <2> QED
      BY <2>1, <2>2
<1>3. ASSUME NEW p \in DOMAIN previews'
      PROVE  PreviewFits(previews'[p], orders', allocations', revision')
      BY <1>1, PreviewStaysFit
<1> QED
    BY <1>2, <1>3 DEF TablesInv

LEMMA LineMoves ==
    ASSUME TablesInv, NEW l \in Lines, Bump(l),
           \A o \in DOMAIN orders : o \in DOMAIN orders' /\ orders'[o].line = orders[o].line,
           \A o \in DOMAIN orders' :
              /\ orders'[o].line \in Lines
              /\ orders'[o].line # l => o \in DOMAIN orders /\ orders'[o] = orders[o],
           \A a \in allocations \cup allocations' :
              a.line # l => (a \in allocations <=> a \in allocations')
    PROVE  revision' \in [Lines -> Nat]
       /\ Later(orders, allocations, revision, orders', allocations', revision')
<1>1. /\ revision \in [Lines -> Nat] /\ revision' \in [Lines -> Nat]
      /\ revision'[l] = revision[l] + 1
      /\ \A k \in Lines \ {l} : revision'[k] = revision[k]
      BY DEF TablesInv, Bump
<1>2. revision'[l] # revision[l] /\ \A k \in Lines : revision[k] <= revision'[k]
      BY <1>1
<1> QED
    BY <1>1, <1>2 DEF Later

LEMMA OrdersMove ==
    ASSUME TablesInv, orders' \in [DOMAIN orders' -> OrderRow], IsFiniteSet(DOMAIN orders'),
           nextOrderID' \in Nat, nextOrderID' >= nextOrderID,
           \A o \in DOMAIN orders : o \in DOMAIN orders' /\ orders'[o].line = orders[o].line,
           \A o \in DOMAIN orders' \ DOMAIN orders :
              /\ o \in Nat \ {0} /\ o < 10 * nextOrderID'
              /\ Original(o) \in DOMAIN orders' /\ orders'[Original(o)].line = orders'[o].line
    PROVE  OrdersFit(orders', nextOrderID')
<1>1. OrdersFit(orders, nextOrderID)
      BY DEF TablesInv
<1>2. nextOrderID \in Nat \ {0} /\ nextOrderID' \in Nat \ {0}
      BY <1>1 DEF OrdersFit
<1>3. ASSUME NEW o \in DOMAIN orders
      PROVE  /\ o \in Nat \ {0} /\ o < 10 * nextOrderID'
             /\ Original(o) \in DOMAIN orders' /\ orders'[Original(o)].line = orders'[o].line
  <2>1. /\ o \in Nat \ {0} /\ o < 10 * nextOrderID
        /\ Original(o) \in DOMAIN orders /\ orders[Original(o)].line = orders[o].line
        BY <1>1 DEF OrdersFit
  <2>2. o < 10 * nextOrderID'
        BY <1>2, <2>1
  <2> QED
      BY <2>1, <2>2
<1> QED
    BY <1>2, <1>3 DEF OrdersFit

LEMMA Returns ==
    ASSUME TablesInv, NEW r \in Requests, Return(r)
    PROVE  DOMAIN calls' = Requests /\ \A q \in Requests : calls'[q] \in {calls[q], Idle}
BY DEF TablesInv, Return

\* One order is changed, and perhaps its allocations.
LEMMA RowChanges ==
    ASSUME RulesAssumption, TablesInv, NEW r \in Requests, NEW o \in DOMAIN orders,
           NEW row \in OrderRow, row.line = orders[o].line,
           orders' = [orders EXCEPT ![o] = row],
           allocations' \subseteq AllocationRow, IsFiniteSet(allocations'),
           \A a \in allocations' :
              IF a.order = o THEN a.line = row.line /\ ~Waits(row) ELSE a \in allocations,
           \A a \in allocations : a.order # o => a \in allocations',
           Bump(orders[o].line), Return(r), UNCHANGED <<previews, nextOrderID>>
    PROVE  TablesInv'
<1>1. /\ OrdersFit(orders, nextOrderID) /\ CalendarFits(orders, allocations)
      /\ orders \in [DOMAIN orders -> OrderRow] /\ IsFiniteSet(DOMAIN orders)
      /\ nextOrderID \in Nat
      BY DEF TablesInv, OrdersFit
<1>2. /\ DOMAIN orders' = DOMAIN orders /\ orders' \in [DOMAIN orders' -> OrderRow]
      /\ orders'[o] = row /\ \A p \in DOMAIN orders \ {o} : orders'[p] = orders[p]
      BY <1>1
<1>3. /\ \A p \in DOMAIN orders : p \in DOMAIN orders' /\ orders'[p].line = orders[p].line
      /\ \A p \in DOMAIN orders' :
            /\ orders'[p].line \in Lines
            /\ orders'[p].line # orders[o].line => p \in DOMAIN orders /\ orders'[p] = orders[p]
      BY <1>1, <1>2, RowType
<1>4. OrdersFit(orders', nextOrderID')
      BY <1>1, <1>2, <1>3, OrdersMove
<1>5. CalendarFits(orders', allocations')
      BY <1>1, <1>2 DEF CalendarFits
<1>8. \A a \in allocations \cup allocations' :
         a.line # orders[o].line => (a \in allocations <=> a \in allocations')
      BY <1>1 DEF CalendarFits
<1>6. revision' \in [Lines -> Nat]
      /\ Later(orders, allocations, revision, orders', allocations', revision')
      BY <1>1, <1>3, <1>8, RowType, LineMoves
<1>7. DOMAIN calls' = Requests /\ \A q \in Requests : calls'[q] \in {calls[q], Idle}
      BY Returns
<1> QED
    BY <1>4, <1>5, <1>6, <1>7, TablesMove

\* A call that reads or goes on reading remembers what fits.
LEMMA CallReads ==
    ASSUME TablesInv, NEW r \in Requests, NEW call, CallFits(call, orders, allocations, revision),
           GoOn(r, call)
    PROVE  TablesInv'
<1>1. /\ DOMAIN calls' = Requests
      /\ \A q \in Requests : calls'[q] = IF q = r THEN call ELSE calls[q]
      /\ UNCHANGED <<orders, allocations, revision, previews, nextOrderID>>
      BY DEF TablesInv, GoOn, tables
<1> QED
    BY <1>1 DEF TablesInv

LEMMA CallRefused ==
    ASSUME TablesInv, NEW r \in Requests, Refuse(r)
    PROVE  TablesInv'
<1>1. CallFits(Idle, orders, allocations, revision)
      BY DEF CallFits, Idle
<1> QED
    BY <1>1, CallReads DEF Refuse

\* The order that a call names is there.
LEMMA NamedExists ==
    ASSUME TablesInv, NEW r \in Requests,
           calls[r].op \in {"write", "cancel", "count", "start", "load", "confirm"}
    PROVE  calls[r].id \in DOMAIN orders
<1> DEFINE call == calls[r]
<1>1. CallFits(call, orders, allocations, revision)
      BY DEF TablesInv
<1>2. call.op \in {"write", "cancel", "count", "start", "load", "confirm"}
      OBVIOUS
<1> HIDE DEF call
<1>3. call.id \in DOMAIN orders
      BY <1>1, <1>2 DEF CallFits, Named
<1> QED
    BY <1>3 DEF call

(***************************************************************************)
(* Orders                                                                  *)
(***************************************************************************)
\* Orders of S are rejected.
Rejecting(rows, S) ==
    [o \in DOMAIN rows |->
        IF o \in S THEN [rows[o] EXCEPT !.status = "rejected"] ELSE rows[o]]

LEMMA NewRowType ==
    ASSUME TablesAssumption, NEW wanted \in Wants \cup Drafts, Wanted(wanted),
           NEW c \in Claims, NEW now \in Nat
    PROVE  /\ NewOrder(wanted, c.subject, now) \in OrderRow
           /\ NewOrder(wanted, c.subject, now).line = wanted.line
<1>1. /\ wanted.quantity \in MinQuantity .. MaxQuantity /\ wanted.line \in Lines
      /\ wanted.high \in BOOLEAN /\ wanted.due \in Nat
      BY DEF Wanted, TablesAssumption, Lines
<1> QED
    BY <1>1 DEF NewOrder, OrderRow, Statuses

LEMMA RowStatus ==
    ASSUME NEW order \in OrderRow, NEW status \in Statuses,
           NEW row, row = [order EXCEPT !.status = status]
    PROVE  row \in OrderRow /\ row.line = order.line /\ row.status = status
BY DEF OrderRow

\* A new order joins, and some that wait on its line are rejected.
LEMMA RowJoins ==
    ASSUME RulesAssumption, TablesInv, NEW row \in OrderRow, NEW S \in SUBSET DOMAIN orders,
           \A o \in S : orders[o].status = "pending" /\ orders[o].line = row.line,
           orders' = With(Rejecting(orders, S), 10 * nextOrderID, row),
           nextOrderID' = nextOrderID + 1, Bump(row.line), allocations' = allocations,
           DOMAIN calls' = Requests, \A r \in Requests : calls'[r] \in {calls[r], Idle},
           \A p \in DOMAIN previews' : p \in DOMAIN previews /\ previews'[p] = previews[p]
    PROVE  TablesInv'
<1> DEFINE id == 10 * nextOrderID
<1>1. /\ OrdersFit(orders, nextOrderID) /\ CalendarFits(orders, allocations)
      /\ orders \in [DOMAIN orders -> OrderRow] /\ IsFiniteSet(DOMAIN orders)
      /\ nextOrderID \in Nat \ {0}
      BY DEF TablesInv, OrdersFit
<1>2. row.line \in Lines
      BY DEF OrderRow
<1>3. /\ id \in Nat \ {0} /\ id \notin DOMAIN orders /\ id < 10 * nextOrderID'
      /\ nextOrderID' \in Nat /\ nextOrderID' >= nextOrderID
      BY <1>1 DEF OrdersFit
<1>4. Original(id) = id
      BY <1>1, OwnOriginal
<1> HIDE DEF id
<1>5. /\ DOMAIN orders' = DOMAIN orders \cup {id}
      /\ orders'[id] = row
      /\ \A o \in DOMAIN orders \ S : orders'[o] = orders[o]
      /\ \A o \in S : orders'[o] = [orders[o] EXCEPT !.status = "rejected"]
      /\ orders' = [o \in DOMAIN orders' |-> orders'[o]]
      BY <1>3 DEF With, Rejecting, id
<1>6. ASSUME NEW o \in S
      PROVE  orders'[o] \in OrderRow /\ orders'[o].line = orders[o].line
  <2>1. orders[o] \in OrderRow /\ "rejected" \in Statuses
        BY <1>1 DEF Statuses
  <2>2. orders'[o] = [orders[o] EXCEPT !.status = "rejected"]
        BY <1>5
  <2> QED
      BY <2>1, <2>2, RowStatus
<1>7. \A o \in DOMAIN orders' : orders'[o] \in OrderRow
      BY <1>1, <1>5, <1>6
<1>8. orders' \in [DOMAIN orders' -> OrderRow] /\ IsFiniteSet(DOMAIN orders')
  <2>1. IsFiniteSet(DOMAIN orders')
        BY <1>1, <1>5, FS_AddElement
  <2> QED
      BY <1>5, <1>7, <2>1
<1>9. \A o \in DOMAIN orders : o \in DOMAIN orders' /\ orders'[o].line = orders[o].line
      BY <1>5, <1>6
<1>10. ASSUME NEW o \in DOMAIN orders'
       PROVE  /\ orders'[o].line \in Lines
              /\ orders'[o].line # row.line => o \in DOMAIN orders /\ orders'[o] = orders[o]
  <2>1. orders'[o].line \in Lines
        BY <1>7 DEF OrderRow
  <2>2. CASE o = id
        BY <1>5, <2>1, <2>2
  <2>3. CASE o \in S
        BY <1>6, <2>1, <2>3
  <2>4. CASE o \in DOMAIN orders \ S
        BY <1>5, <2>1, <2>4
  <2> QED
      BY <1>5, <2>2, <2>3, <2>4
<1>11. OrdersFit(orders', nextOrderID')
      BY <1>3, <1>4, <1>5, <1>8, <1>9, OrdersMove
<1>12. CalendarFits(orders', allocations')
  <2>1. \A a \in allocations : a.order \in DOMAIN orders \ S
        BY <1>1 DEF CalendarFits, Waits
  <2>2. \A a \in allocations :
           a.order \in DOMAIN orders' /\ orders'[a.order] = orders[a.order]
        BY <1>5, <2>1
  <2> QED
      BY <1>1, <2>2 DEF CalendarFits
<1>13. revision' \in [Lines -> Nat]
       /\ Later(orders, allocations, revision, orders', allocations', revision')
  <2>1. \A a \in allocations \cup allocations' :
           a.line # row.line => (a \in allocations <=> a \in allocations')
        OBVIOUS
  <2> QED
      BY <1>2, <1>9, <1>10, <2>1, LineMoves
<1> QED
    BY <1>11, <1>12, <1>13, TablesMove

LEMMA CreateOrderKeeps ==
    ASSUME TablesAssumption, RulesAssumption, TablesInv,
           NEW c \in Claims, NEW wanted \in Wants, CreateOrder(c, wanted)
    PROVE  TablesInv'
<1> DEFINE row == NewOrder(wanted, c.subject, revision[wanted.line])
<1>1. /\ Wanted(wanted) /\ orders' = With(orders, 10 * nextOrderID, row)
      /\ nextOrderID' = nextOrderID + 1 /\ Bump(wanted.line)
      /\ UNCHANGED <<allocations, previews, calls>>
      BY DEF CreateOrder
<1>2. row \in OrderRow /\ row.line = wanted.line
  <2>1. revision[wanted.line] \in Nat
        BY <1>1 DEF Wanted, TablesInv, Lines
  <2> QED
      BY <1>1, <2>1, NewRowType
<1> HIDE DEF row
<1>3. orders = Rejecting(orders, {})
      BY DEF TablesInv, OrdersFit, Rejecting
<1>4. DOMAIN calls' = Requests /\ \A r \in Requests : calls'[r] \in {calls[r], Idle}
      BY <1>1 DEF TablesInv
<1>5. /\ {} \in SUBSET DOMAIN orders
      /\ \A o \in {} : orders[o].status = "pending" /\ orders[o].line = row.line
      OBVIOUS
<1>6. orders' = With(Rejecting(orders, {}), 10 * nextOrderID, row)
      BY <1>1, <1>3
<1> QED
    BY <1>1, <1>2, <1>4, <1>5, <1>6, RowJoins

LEMMA ConfirmPreviewKeeps ==
    ASSUME TablesAssumption, RulesAssumption, TablesInv,
           NEW r \in Requests, ConfirmPreviewOrder(r)
    PROVE  TablesInv'
<1> DEFINE call == calls[r]
           draft == call.draft
           order == NewOrder(draft, call.by.subject, revision[draft.line])
           status == IF call.deferDraft THEN "rejected" ELSE "pending"
           row == [order EXCEPT !.status = status]
           S == call.deferred
<1>1. CASE Wanted(draft) /\ StillAsRead(call)
  <2>1. /\ call.op = "draft"
        /\ orders' = With(Rejecting(orders, S), 10 * nextOrderID,
                   [order EXCEPT !.status = IF call.deferDraft THEN "rejected" ELSE @])
        /\ nextOrderID' = nextOrderID + 1 /\ Bump(draft.line)
        /\ previews' = Without(previews, call.preview)
        /\ Return(r) /\ allocations' = allocations
        BY <1>1 DEF ConfirmPreviewOrder, Rejecting
  <2>2. /\ call.by \in Claims /\ draft \in Drafts /\ S \subseteq DOMAIN orders
        /\ \A o \in S : orders[o].line = draft.line
    <3>1. CallFits(call, orders, allocations, revision)
          BY DEF TablesInv
    <3> QED
        BY <2>1, <3>1 DEF CallFits, Answers
  <2>3. \A o \in S : orders[o].status = "pending"
        BY <1>1 DEF StillAsRead
  <2>4. \A p \in DOMAIN previews' : p \in DOMAIN previews /\ previews'[p] = previews[p]
        BY <2>1 DEF Without
  <2>5. DOMAIN calls' = Requests /\ \A q \in Requests : calls'[q] \in {calls[q], Idle}
        BY <2>1, Returns
  <2>6. row = [order EXCEPT !.status = IF call.deferDraft THEN "rejected" ELSE @]
        BY DEF NewOrder
  <2>7. row \in OrderRow /\ row.line = draft.line
    <3>1. order \in OrderRow /\ order.line = draft.line
      <4> DEFINE now == revision[draft.line]
                 c == call.by
      <4>1. now \in Nat /\ c \in Claims /\ draft \in Wants \cup Drafts
            BY <1>1, <2>2 DEF Wanted, TablesInv, Lines
      <4>2. order = NewOrder(draft, c.subject, now) /\ Wanted(draft)
            BY <1>1
      <4> HIDE DEF draft, now, c, order
      <4> QED
          BY <4>1, <4>2, NewRowType
    <3>2. status \in Statuses
          BY DEF Statuses
    <3> HIDE DEF order, status
    <3> QED
        BY <3>1, <3>2, RowStatus
  <2> HIDE DEF row, S, order
  <2>8. orders' = With(Rejecting(orders, S), 10 * nextOrderID, row)
        BY <2>1, <2>6
  <2>9. \A o \in S : orders[o].status = "pending" /\ orders[o].line = row.line
        BY <2>2, <2>3, <2>7
  <2> QED
      BY <2>1, <2>2, <2>4, <2>5, <2>7, <2>8, <2>9, RowJoins
<1>2. CASE ~(Wanted(draft) /\ StillAsRead(call))
  <2>1. Refuse(r)
        BY <1>2 DEF ConfirmPreviewOrder
  <2> QED
      BY <2>1, CallRefused
<1> QED
    BY <1>1, <1>2

\* updateOrderAndRevision writes a waiting order, and clears its allocations.
LEMMA WriteOrderKeeps ==
    ASSUME TablesAssumption, RulesAssumption, TablesInv, NEW r \in Requests, WriteOrder(r)
    PROVE  TablesInv'
<1> DEFINE o == calls[r].id
           read == calls[r].order
           row == [orders[o] EXCEPT !.quantity = read.quantity, !.status = read.status,
                                    !.due = read.due]
<1>1. /\ calls[r].op = "write"
      /\ orders' = [orders EXCEPT ![o].quantity = read.quantity, ![o].status = read.status,
                                  ![o].due = read.due]
      /\ DropAllocations(o) /\ Bump(read.line) /\ Return(r)
      /\ UNCHANGED <<previews, nextOrderID>>
      BY DEF WriteOrder
<1>2. /\ o \in DOMAIN orders /\ read.line = orders[o].line
      /\ read.quantity \in MinQuantity .. MaxQuantity /\ read.due \in Nat /\ Waits(read)
  <2>1. CallFits(calls[r], orders, allocations, revision)
        BY DEF TablesInv
  <2> QED
      BY <1>1, <2>1 DEF CallFits, Named, Writes
<1>3. orders[o] \in OrderRow /\ orders \in [DOMAIN orders -> OrderRow]
      BY <1>2 DEF TablesInv, OrdersFit
<1>4. orders' = [orders EXCEPT ![o] = row]
      BY <1>1, <1>2, <1>3
<1>5. row \in OrderRow /\ row.line = orders[o].line
  <2> DEFINE order == orders[o]
             quantity == read.quantity
             status == read.status
             due == read.due
  <2>1. /\ order \in OrderRow /\ quantity \in MinQuantity .. MaxQuantity
        /\ status \in Statuses /\ due \in Nat
        BY <1>2, <1>3 DEF Waits, Statuses
  <2>2. row = [order EXCEPT !.quantity = quantity, !.status = status, !.due = due]
        OBVIOUS
  <2> HIDE DEF row, quantity, status, due, order
  <2>3. row \in OrderRow /\ row.line = order.line
        BY <2>1, <2>2 DEF OrderRow
  <2> QED
      BY <2>3 DEF order
<1>6. /\ allocations' \subseteq AllocationRow /\ IsFiniteSet(allocations')
      /\ \A a \in allocations' : a.order # o /\ a \in allocations
      /\ \A a \in allocations : a.order # o => a \in allocations'
      BY <1>1, FS_Subset DEF DropAllocations, Of, TablesInv, CalendarFits
<1>7. /\ o \in DOMAIN orders /\ Bump(orders[o].line) /\ Return(r)
      /\ UNCHANGED <<previews, nextOrderID>>
      BY <1>1, <1>2
<1> HIDE DEF row, o
<1> QED
    BY <1>4, <1>5, <1>6, <1>7, RowChanges

LEMMA CancelOrderKeeps ==
    ASSUME RulesAssumption, TablesInv, NEW r \in Requests, CancelOrder(r)
    PROVE  TablesInv'
<1> DEFINE o == calls[r].id
           row == [orders[o] EXCEPT !.status = "cancelled"]
<1>1. /\ calls[r].op = "cancel"
      /\ orders' = [orders EXCEPT ![o].status = "cancelled"]
      /\ DropAllocations(o) /\ Bump(orders[o].line) /\ Return(r)
      /\ UNCHANGED <<previews, nextOrderID>>
      BY DEF CancelOrder
<1>2. o \in DOMAIN orders
      BY <1>1, NamedExists
<1>3. orders[o] \in OrderRow /\ orders \in [DOMAIN orders -> OrderRow]
      BY <1>2 DEF TablesInv, OrdersFit
<1>4. orders' = [orders EXCEPT ![o] = row]
      BY <1>1, <1>2, <1>3
<1>5. row \in OrderRow /\ row.line = orders[o].line
      BY <1>3, RowStatus DEF Statuses
<1>6. /\ allocations' \subseteq AllocationRow /\ IsFiniteSet(allocations')
      /\ \A a \in allocations' : a.order # o /\ a \in allocations
      /\ \A a \in allocations : a.order # o => a \in allocations'
      BY <1>1, FS_Subset DEF DropAllocations, Of, TablesInv, CalendarFits
<1> HIDE DEF row, o
<1> QED
    BY <1>1, <1>2, <1>4, <1>5, <1>6, RowChanges

(***************************************************************************)
(* Production                                                              *)
(***************************************************************************)
LEMMA AllocationStatus ==
    ASSUME NEW a \in AllocationRow, NEW status \in {"scheduled", "inProgress", "completed"},
           NEW row, row = [a EXCEPT !.locked = TRUE, !.status = status]
    PROVE  row \in AllocationRow /\ row.order = a.order /\ row.line = a.line
BY DEF AllocationRow

\* Some allocations of an order are marked, the others stay or go.
LEMMA AllocationsMarked ==
    ASSUME TablesInv, NEW o, NEW M \in SUBSET Of(allocations, o),
           NEW K \in SUBSET allocations, \A a \in allocations : a.order # o => a \in K,
           NEW status \in {"scheduled", "inProgress", "completed"},
           allocations' = K \cup {[a EXCEPT !.locked = TRUE, !.status = status] : a \in M}
    PROVE  /\ allocations' \subseteq AllocationRow /\ IsFiniteSet(allocations')
           /\ \A a \in allocations' :
                 IF a.order = o THEN a.line = orders[o].line ELSE a \in allocations
           /\ \A a \in allocations : a.order # o => a \in allocations'
<1> DEFINE Mark(a) == [a EXCEPT !.locked = TRUE, !.status = status]
           T == {Mark(a) : a \in M}
<1>1. allocations \subseteq AllocationRow /\ IsFiniteSet(allocations)
      BY DEF TablesInv, CalendarFits
<1>2. /\ \A a \in M : a \in allocations /\ a.order = o
      /\ \A a \in allocations : a.line = orders[a.order].line
      BY DEF Of, TablesInv, CalendarFits
<1>3. IsFiniteSet(M) /\ IsFiniteSet(K)
      BY <1>1, <1>2, FS_Subset
<1>4. ASSUME NEW a \in M
      PROVE  Mark(a) \in AllocationRow /\ Mark(a).order = o /\ Mark(a).line = orders[o].line
  <2> DEFINE row == Mark(a)
  <2>1. a \in AllocationRow /\ a.order = o /\ a.line = orders[o].line
        /\ row = [a EXCEPT !.locked = TRUE, !.status = status]
        BY <1>1, <1>2
  <2> HIDE DEF row
  <2>2. row \in AllocationRow /\ row.order = o /\ row.line = orders[o].line
        BY <2>1, AllocationStatus
  <2> QED
      BY <2>2 DEF row
<1>5. allocations' = K \cup T
      OBVIOUS
<1> HIDE DEF Mark
<1>6. IsFiniteSet(T)
  <2> DEFINE f == [a \in M |-> Mark(a)]
  <2>1. f \in Surjection(M, T)
        BY DEF Surjection
  <2> HIDE DEF f, T
  <2> QED
      BY <1>3, <2>1, FS_Surjection
<1>7. T \subseteq AllocationRow /\ \A a \in T : a.order = o /\ a.line = orders[o].line
      BY <1>4
<1> HIDE DEF T
<1>8. IsFiniteSet(K \cup T)
      BY <1>3, <1>6, FS_Union
<1> QED
    BY <1>1, <1>2, <1>5, <1>7, <1>8

LEMMA StartProductionKeeps ==
    ASSUME RulesAssumption, TablesInv, NEW r \in Requests, StartProduction(r)
    PROVE  TablesInv'
<1> DEFINE o == calls[r].id
           row == [orders[o] EXCEPT !.status = "inProgress"]
           K == allocations \ OpenOf(allocations, o)
           M == OpenOf(allocations, o)
<1>1. /\ calls[r].op = "start"
      /\ orders' = [orders EXCEPT ![o].status = "inProgress"]
      /\ allocations' = K \cup {[a EXCEPT !.locked = TRUE, !.status = "inProgress"] : a \in M}
      /\ Bump(orders[o].line) /\ Return(r)
      /\ UNCHANGED <<previews, nextOrderID>>
      BY DEF StartProduction, Started
<1>2. o \in DOMAIN orders
      BY <1>1, NamedExists
<1>3. orders[o] \in OrderRow /\ orders \in [DOMAIN orders -> OrderRow]
      BY <1>2 DEF TablesInv, OrdersFit
<1>4. orders' = [orders EXCEPT ![o] = row]
      BY <1>1, <1>2, <1>3
<1>5. row \in OrderRow /\ row.line = orders[o].line /\ row.status = "inProgress"
      BY <1>3, RowStatus DEF Statuses
<1>6. /\ M \in SUBSET Of(allocations, o) /\ K \in SUBSET allocations
      /\ \A a \in allocations : a.order # o => a \in K
      BY DEF Of, OpenOf
<1> HIDE DEF row, o, K, M
<1>7. /\ allocations' \subseteq AllocationRow /\ IsFiniteSet(allocations')
      /\ \A a \in allocations' :
            IF a.order = o THEN a.line = orders[o].line ELSE a \in allocations
      /\ \A a \in allocations : a.order # o => a \in allocations'
      BY <1>1, <1>6, AllocationsMarked
<1>8. ~Waits(row)
      BY <1>5 DEF Waits
<1> QED
    BY <1>1, <1>2, <1>4, <1>5, <1>7, <1>8, RowChanges

LEMMA CompleteProductionKeeps ==
    ASSUME RulesAssumption, TablesInv, NEW r \in Requests, CompleteProduction(r)
    PROVE  TablesInv'
<1> DEFINE o == calls[r].id
           row == [orders[o] EXCEPT !.status = "completed"]
           M == {a \in allocations : a.order = o /\ a.day = calls[r].day}
           K == allocations \ M
<1>1. /\ calls[r].op = "confirm"
      /\ orders' = [orders EXCEPT ![o].status = "completed"]
      /\ allocations' = {IF a.order = o /\ a.day = calls[r].day
                         THEN [a EXCEPT !.locked = TRUE, !.status = "completed"] ELSE a :
                            a \in allocations}
      /\ Bump(orders[o].line) /\ Return(r)
      /\ UNCHANGED <<previews, nextOrderID>>
      BY DEF CompleteProduction
<1>2. allocations' = K \cup {[a EXCEPT !.locked = TRUE, !.status = "completed"] : a \in M}
      BY <1>1
<1>3. o \in DOMAIN orders
      BY <1>1, NamedExists
<1>4. orders[o] \in OrderRow /\ orders \in [DOMAIN orders -> OrderRow]
      BY <1>3 DEF TablesInv, OrdersFit
<1>5. orders' = [orders EXCEPT ![o] = row]
      BY <1>1, <1>3, <1>4
<1>6. row \in OrderRow /\ row.line = orders[o].line /\ row.status = "completed"
      BY <1>4, RowStatus DEF Statuses
<1>7. /\ M \in SUBSET Of(allocations, o) /\ K \in SUBSET allocations
      /\ \A a \in allocations : a.order # o => a \in K
      BY DEF Of
<1> HIDE DEF row, o, K, M
<1>8. /\ allocations' \subseteq AllocationRow /\ IsFiniteSet(allocations')
      /\ \A a \in allocations' :
            IF a.order = o THEN a.line = orders[o].line ELSE a \in allocations
      /\ \A a \in allocations : a.order # o => a \in allocations'
      BY <1>2, <1>7, AllocationsMarked
<1>9. ~Waits(row)
      BY <1>6 DEF Waits
<1> QED
    BY <1>1, <1>3, <1>5, <1>6, <1>8, <1>9, RowChanges

\* What is left of an order joins its line, and has no allocations.
LEMMA PartialProductionKeeps ==
    ASSUME RulesAssumption, TablesInv, NEW r \in Requests, PartialProduction(r)
    PROVE  TablesInv'
<1> DEFINE call == calls[r]
           o == call.id
           order == call.order
           now == revision[order.line]
           part == NextPart(o, DOMAIN orders)
           rest == Remainder(order, o, call.produced, now)
           cut == [orders[o] EXCEPT !.quantity = call.produced, !.status = "completed"]
           K == allocations \ Of(allocations, o)
           M == {b \in Of(allocations, o) : b.day = call.day}
           D == DOMAIN orders
<1>1. call.op = "confirm"
      BY DEF PartialProduction
<1>2. CASE ~(Storable(call.produced) /\ Storable(rest.quantity))
  <2>1. Refuse(r)
        BY <1>2 DEF PartialProduction
  <2> QED
      BY <2>1, CallRefused
<1>3. CASE Storable(call.produced) /\ Storable(rest.quantity)
  <2>1. /\ part # NoPart
        /\ orders' = With([orders EXCEPT ![o].quantity = call.produced,
                                         ![o].status = "completed"], part, rest)
        /\ allocations' = K \cup {[a EXCEPT !.locked = TRUE, !.status = "completed"] : a \in M}
        /\ Bump(orders[o].line) /\ Return(r) /\ UNCHANGED <<previews, nextOrderID>>
        BY <1>3 DEF PartialProduction
  <2>2. o \in D /\ order \in OrderRow /\ order.line = orders[o].line
    <3>1. CallFits(call, orders, allocations, revision)
          BY DEF TablesInv
    <3> QED
        BY <1>1, <3>1 DEF CallFits, Named, Confirms
  <2>3. /\ OrdersFit(orders, nextOrderID) /\ CalendarFits(orders, allocations)
        /\ orders \in [D -> OrderRow] /\ IsFiniteSet(D) /\ nextOrderID \in Nat \ {0}
        /\ o \in Nat \ {0} /\ o < 10 * nextOrderID /\ orders[o] \in OrderRow
        /\ Original(o) \in D /\ orders[Original(o)].line = orders[o].line
        BY <2>2 DEF TablesInv, OrdersFit
  <2>4. /\ part \notin D /\ part \in Nat \ {0} /\ part < 10 * nextOrderID
        /\ Original(part) = Original(o)
    <3>1. part \in o + 1 .. Original(o) + MaxParts /\ part \notin D
          BY <2>1, <2>3, NextPartType
    <3> HIDE DEF part
    <3> QED
        BY <2>3, <3>1, PartBelow
  <2>5. /\ cut \in OrderRow /\ cut.line = orders[o].line /\ cut.status = "completed"
    <3> DEFINE old == orders[o]
               produced == call.produced
    <3>1. old \in OrderRow /\ produced \in MinQuantity .. MaxQuantity
          BY <1>3, <2>3 DEF Storable
    <3>2. cut = [old EXCEPT !.quantity = produced, !.status = "completed"]
          OBVIOUS
    <3> HIDE DEF cut, old, produced
    <3>3. cut \in OrderRow /\ cut.line = old.line /\ cut.status = "completed"
          BY <3>1, <3>2 DEF OrderRow, Statuses
    <3> QED
        BY <3>3 DEF old
  <2>6. rest \in OrderRow /\ rest.line = orders[o].line
    <3> DEFINE left == order.quantity - call.produced
    <3>1. now \in Nat
          BY <2>2 DEF TablesInv, OrderRow
    <3>2. rest = [order EXCEPT !.quantity = left, !.status = "pending", !.source = o,
                               !.createdAt = now]
          BY DEF Remainder
    <3>3. rest.quantity \in MinQuantity .. MaxQuantity
          BY <1>3 DEF Storable
    <3> HIDE DEF left, order, now, rest, o
    <3>4. rest.quantity = left
          BY <2>2, <3>2 DEF OrderRow
    <3>5. rest \in OrderRow /\ rest.line = order.line
          BY <2>2, <2>3, <3>1, <3>2, <3>3, <3>4 DEF OrderRow, Statuses
    <3> QED
        BY <2>2, <3>5
  <2> HIDE DEF part, rest
  <2>7. /\ DOMAIN orders' = D \cup {part}
        /\ orders'[part] = rest /\ orders'[o] = cut
        /\ \A p \in D \ {o} : orders'[p] = orders[p]
        /\ orders' = [p \in DOMAIN orders' |-> orders'[p]]
    <3> DEFINE table == [orders EXCEPT ![o].quantity = call.produced,
                                       ![o].status = "completed"]
    <3>1. DOMAIN table = D /\ table[o] = cut /\ \A p \in D \ {o} : table[p] = orders[p]
      <4>1. table = [orders EXCEPT ![o] = [[orders[o] EXCEPT !.quantity = call.produced]
                                              EXCEPT !.status = "completed"]]
            BY <2>2, <2>3
      <4> HIDE DEF table
      <4> QED
          BY <2>2, <2>3, <4>1
    <3>2. orders' = With(table, part, rest)
          BY <2>1
    <3> HIDE DEF table, cut
    <3> QED
        BY <2>2, <2>4, <3>1, <3>2 DEF With
  <2> HIDE DEF cut
  <2>8. /\ M \in SUBSET Of(allocations, o) /\ K \in SUBSET allocations
        /\ \A a \in allocations : a.order # o => a \in K
        BY DEF Of
  <2> HIDE DEF K, M, o
  <2>9. /\ allocations' \subseteq AllocationRow /\ IsFiniteSet(allocations')
        /\ \A a \in allocations' :
              IF a.order = o THEN a.line = orders[o].line ELSE a \in allocations
        /\ \A a \in allocations : a.order # o => a \in allocations'
        BY <2>1, <2>8, AllocationsMarked
  <2>10. CalendarFits(orders', allocations')
    <3>1. ASSUME NEW a \in allocations'
          PROVE  /\ a.order \in DOMAIN orders' /\ ~Waits(orders'[a.order])
                 /\ a.line = orders'[a.order].line
      <4>1. CASE a.order = o
            BY <2>2, <2>5, <2>7, <2>9, <4>1 DEF Waits
      <4>2. CASE a.order # o
        <5>1. /\ a.order \in D \ {o} /\ ~Waits(orders[a.order])
              /\ a.line = orders[a.order].line
              BY <2>3, <2>9, <4>2 DEF CalendarFits
        <5> QED
            BY <2>7, <5>1
      <4> QED
          BY <4>1, <4>2
    <3> QED
        BY <2>9, <3>1 DEF CalendarFits
  <2>11. orders' \in [DOMAIN orders' -> OrderRow] /\ IsFiniteSet(DOMAIN orders')
    <3>1. \A p \in DOMAIN orders' : orders'[p] \in OrderRow
          BY <2>3, <2>5, <2>6, <2>7
    <3>2. IsFiniteSet(DOMAIN orders')
          BY <2>3, <2>7, FS_AddElement
    <3> QED
        BY <2>7, <3>1, <3>2
  <2>12. \A p \in D : p \in DOMAIN orders' /\ orders'[p].line = orders[p].line
        BY <2>5, <2>7
  <2>13. \A p \in DOMAIN orders' :
            /\ orders'[p].line \in Lines
            /\ orders'[p].line # orders[o].line => p \in DOMAIN orders /\ orders'[p] = orders[p]
    <3>1. \A p \in DOMAIN orders' : orders'[p].line \in Lines
          BY <2>11 DEF OrderRow
    <3> QED
        BY <2>5, <2>6, <2>7, <3>1
  <2>14. OrdersFit(orders', nextOrderID')
    <3>1. Original(part) \in DOMAIN orders' /\ orders'[Original(part)].line = orders'[part].line
          BY <2>3, <2>4, <2>6, <2>7, <2>12
    <3>2. \A p \in DOMAIN orders' \ DOMAIN orders :
             /\ p \in Nat \ {0} /\ p < 10 * nextOrderID
             /\ Original(p) \in DOMAIN orders' /\ orders'[Original(p)].line = orders'[p].line
          BY <2>4, <2>7, <3>1
    <3>3. nextOrderID' = nextOrderID
          BY <2>1
    <3>4. nextOrderID' \in Nat /\ nextOrderID' >= nextOrderID
          BY <2>3, <3>3
    <3> QED
        BY <2>11, <2>12, <3>2, <3>3, <3>4, OrdersMove
  <2>15. revision' \in [Lines -> Nat]
       /\ Later(orders, allocations, revision, orders', allocations', revision')
    <3>1. orders[o].line \in Lines
          BY <2>3 DEF OrderRow
    <3>2. \A a \in allocations \cup allocations' :
             a.line # orders[o].line => (a \in allocations <=> a \in allocations')
      <4>1. \A a \in allocations : a.order = o => a.line = orders[o].line
            BY <2>3 DEF CalendarFits
      <4> QED
          BY <2>9, <4>1
    <3> QED
        BY <2>1, <2>12, <2>13, <3>1, <3>2, LineMoves
  <2>16. DOMAIN calls' = Requests /\ \A q \in Requests : calls'[q] \in {calls[q], Idle}
        BY <2>1, Returns
  <2> QED
      BY <2>1, <2>10, <2>14, <2>15, <2>16, TablesMove
<1> QED
    BY <1>2, <1>3

(***************************************************************************)
(* The worker's transaction                                                *)
(***************************************************************************)
\* What a piece makes of its order, and of the calendar.
Applies(piece, req, row) ==
    /\ row \in OrderRow /\ row.line = req.line /\ ~Waits(row)
    /\ piece.order \in Nat \ {0} /\ piece.order < 10 * nextOrderID
    /\ Original(piece.order) \in DOMAIN orders
    /\ orders[Original(piece.order)].line = req.line
    /\ Placed(piece, req.line) \in AllocationRow

LEMMA PieceApplies ==
    ASSUME RulesAssumption, TablesInv, NEW req, IsRequest(req), NEW split,
           PiecesFit(orders, req, split), MayBePlanned(orders, allocations, req),
           NEW now \in Nat, NEW resized,
           NEW planned, planned = OrdersPlanned(orders, split, resized, now),
           NEW i \in DOMAIN split,
           split[i].source # 0 \/ split[i].order \in resized =>
              Storable(planned[split[i].order].quantity)
    PROVE  Applies(split[i], req, planned[split[i].order])
<1> DEFINE piece == split[i]
           o == Origin(piece)
           order == orders[o]
           row == planned[piece.order]
<1>1. OrdersFit(orders, nextOrderID) /\ nextOrderID \in Nat
      BY DEF TablesInv, OrdersFit
<1>2. WellSplit(orders, split) /\ 0 \notin DOMAIN orders
      BY <1>1 DEF PiecesFit, OrdersFit
<1>3. /\ o \in Selected(orders, req) /\ piece.day \in Int
      /\ piece.quantity \in 1 .. order.quantity /\ piece.locked = order.high
      BY DEF PiecesFit
<1>4. /\ o \in DOMAIN orders /\ order.line = req.line
      /\ order.status \in {"pending", "scheduled"}
      BY <1>3 DEF Selected, MayBePlanned, CanMove
<1>5. /\ order \in OrderRow /\ o \in Nat \ {0} /\ o < 10 * nextOrderID
      /\ Original(o) \in DOMAIN orders /\ orders[Original(o)].line = req.line
      BY <1>1, <1>4, RowType DEF OrdersFit
<1>6. AsPlanned(orders, piece, resized, now, row)
      BY <1>2, RowsAfterPlan
<1>7. piece.source # 0 \/ piece.order \in resized => Storable(row.quantity)
      OBVIOUS
<1>8. /\ piece.order \in Nat \ {0} /\ piece.order < 10 * nextOrderID
      /\ Original(piece.order) = Original(o)
  <2>1. CASE piece.source = 0
        BY <1>5, <2>1 DEF Origin
  <2>2. CASE piece.source # 0
    <3>1. o = piece.source /\ piece.order \in o + 1 .. Original(o) + MaxParts
          BY <1>2, <2>2 DEF WellSplit, Origin
    <3> HIDE DEF o, piece
    <3> QED
        BY <1>1, <1>5, <3>1, PartBelow
  <2> QED
      BY <2>1, <2>2
<1>9. row \in OrderRow /\ row.line = req.line /\ ~Waits(row)
  <2>1. CASE piece.source = 0
    <3>1. o = piece.order
          BY <2>1 DEF Origin
    <3> DEFINE quantity == IF piece.order \in resized THEN piece.quantity ELSE order.quantity
    <3>2. row = [order EXCEPT !.quantity = quantity, !.status = "scheduled"]
      <4> HIDE DEF row
      <4>1. row = [order EXCEPT
                      !.quantity = IF piece.order \in resized THEN piece.quantity ELSE @,
                      !.status = IF @ = "pending" THEN "scheduled" ELSE @]
            BY <1>6, <2>1, <3>1 DEF AsPlanned
      <4> HIDE DEF order, piece
      <4> QED
          BY <1>4, <1>5, <4>1 DEF OrderRow
    <3>3. piece.order \notin resized => quantity \in MinQuantity .. MaxQuantity
          BY <1>5 DEF OrderRow
    <3> HIDE DEF row, order, quantity, piece
    <3>4. row.quantity = quantity
          BY <1>5, <3>2 DEF OrderRow
    <3>5. quantity \in MinQuantity .. MaxQuantity
          BY <1>7, <3>3, <3>4 DEF Storable
    <3> QED
        BY <1>4, <1>5, <3>2, <3>5 DEF OrderRow, Statuses, Waits
  <2>2. CASE piece.source # 0
    <3>1. o = piece.source
          BY <2>2 DEF Origin
    <3> DEFINE quantity == piece.quantity
               source == piece.source
    <3>2. row = [order EXCEPT !.quantity = quantity, !.status = "scheduled",
                              !.source = source, !.createdAt = now]
      <4> HIDE DEF row
      <4> QED
          BY <1>6, <2>2, <3>1 DEF AsPlanned
    <3>3. source \in Nat /\ Storable(row.quantity)
          BY <1>5, <1>7, <2>2, <3>1
    <3> HIDE DEF row, order, quantity, source, piece
    <3>4. row.quantity = quantity
          BY <1>5, <3>2 DEF OrderRow
    <3>5. quantity \in MinQuantity .. MaxQuantity
          BY <3>3, <3>4 DEF Storable
    <3> QED
        BY <1>4, <1>5, <3>2, <3>3, <3>5 DEF OrderRow, Statuses, Waits
  <2> QED
      BY <2>1, <2>2
<1>10. Placed(piece, req.line) \in AllocationRow
  <2>1. /\ order.quantity \in MinQuantity .. MaxQuantity /\ order.high \in BOOLEAN
        /\ req.line \in Lines
        BY <1>5, <1>4 DEF OrderRow
  <2>2. piece.quantity \in 1 .. MaxQuantity /\ piece.locked \in BOOLEAN
        BY <1>3, <2>1 DEF RulesAssumption
  <2> HIDE DEF piece, order
  <2> QED
      BY <1>3, <1>8, <2>1, <2>2 DEF Placed, AllocationRow
<1> HIDE DEF row, piece, o, order
<1>11. Applies(piece, req, row)
      BY <1>5, <1>8, <1>9, <1>10 DEF Applies
<1> QED
    BY <1>11 DEF row, piece

\* A current schedule schedules orders of its line, and puts them on the calendar.
LEMMA ApplyPreviewKeeps ==
    ASSUME RulesAssumption, TablesInv, NEW p \in DOMAIN previews, ApplyPreview(p)
    PROVE  TablesInv'
<1> DEFINE preview == previews[p]
           req == preview.request
           split == preview.allocations
           line == req.line
           now == revision[line]
           S == PlannedOrders(split)
           rows == {Placed(split[i], line) : i \in DOMAIN split}
           D == DOMAIN orders
<1>1. /\ preview.role = "scheduler" /\ preview.revision = revision[line]
      /\ orders' = OrdersPlanned(orders, split, Cut(split), now)
      /\ \A o \in Cut(split) \cup Parts(split) : Storable(orders'[o].quantity)
      /\ allocations' = AllocationsPlanned(allocations, split, line)
      /\ Bump(line)
      /\ UNCHANGED <<previews, nextOrderID, calls>>
      BY DEF ApplyPreview, Current
<1>2. IsRequest(req) /\ PiecesFit(orders, req, split) /\ MayBePlanned(orders, allocations, req)
  <2>1. PreviewFits(preview, orders, allocations, revision)
        BY DEF TablesInv
  <2> QED
      BY <1>1, <2>1 DEF PreviewFits, Schedules
<1>3. /\ OrdersFit(orders, nextOrderID) /\ CalendarFits(orders, allocations)
      /\ orders \in [D -> OrderRow] /\ IsFiniteSet(D) /\ nextOrderID \in Nat \ {0}
      /\ 0 \notin D
      BY DEF TablesInv, OrdersFit
<1>4. WellSplit(orders, split) /\ IsFiniteSet(DOMAIN split)
      BY <1>2 DEF PiecesFit
<1>5. line \in Lines /\ now \in Nat
      BY <1>2 DEF IsRequest, Lines, TablesInv
<1> HIDE DEF preview, req, split, now
<1>6. ASSUME NEW i \in DOMAIN split
      PROVE  Applies(split[i], req, orders'[split[i].order])
  <2>1. split[i].source # 0 \/ split[i].order \in Cut(split) =>
           split[i].order \in Cut(split) \cup Parts(split)
        BY DEF Parts
  <2> DEFINE planned == orders'
             resized == Cut(split)
  <2>2. /\ planned = OrdersPlanned(orders, split, resized, now)
        /\ split[i].source # 0 \/ split[i].order \in resized =>
              Storable(planned[split[i].order].quantity)
        BY <1>1, <2>1
  <2> HIDE DEF planned, resized
  <2>3. Applies(split[i], req, planned[split[i].order])
        BY <1>2, <1>5, <2>2, PieceApplies
  <2> QED
      BY <2>3 DEF planned
<1>7. /\ DOMAIN orders' = D \cup Parts(split)
      /\ orders' = [o \in DOMAIN orders' |-> orders'[o]]
      BY <1>1 DEF OrdersPlanned
<1>8. Parts(split) = S \ D
      BY <1>3, <1>4, PieceFound DEF Parts, PlannedOrders
<1>9. \A o \in D \ S : orders'[o] = orders[o]
      BY <1>1 DEF OrdersPlanned
<1>10. \A o : o \notin S => Of(allocations', o) = Of(allocations, o)
      BY <1>1, <1>4, AllocationsAfterPlan
<1>11. allocations' \subseteq allocations \cup rows
      BY <1>1, <1>4, AllocationsAfterPlan
<1>12. \A o \in S : \E i \in DOMAIN split : o = split[i].order
      BY DEF PlannedOrders
<1>13. IsFiniteSet(S) /\ IsFiniteSet(rows)
  <2>1. IsFiniteSet(S)
    <3> DEFINE f == [i \in DOMAIN split |-> split[i].order]
    <3>1. f \in Surjection(DOMAIN split, S)
          BY DEF Surjection, PlannedOrders
    <3> HIDE DEF f, S
    <3> QED
        BY <1>4, <3>1, FS_Surjection
  <2>2. IsFiniteSet(rows)
    <3> DEFINE f == [i \in DOMAIN split |-> Placed(split[i], line)]
    <3>1. f \in Surjection(DOMAIN split, rows)
          BY DEF Surjection
    <3> HIDE DEF f, rows
    <3> QED
        BY <1>4, <3>1, FS_Surjection
  <2> QED
      BY <2>1, <2>2
<1> HIDE DEF S
<1>14. ASSUME NEW o \in S
       PROVE  /\ orders'[o] \in OrderRow /\ orders'[o].line = line /\ ~Waits(orders'[o])
              /\ o \in Nat \ {0} /\ o < 10 * nextOrderID
              /\ Original(o) \in D /\ orders[Original(o)].line = line
      BY <1>6, <1>12 DEF Applies
<1>15. \A o \in D : o \in DOMAIN orders' /\ orders'[o].line = orders[o].line
  <2>1. ASSUME NEW o \in D \cap S
        PROVE  orders[o].line = line
    <3>1. PICK i \in DOMAIN split : o = split[i].order
          BY <1>12
    <3>2. split[i].source = 0
          BY <1>3, <1>4, <3>1, PieceFound
    <3> QED
        BY <1>2, <3>1, <3>2 DEF PiecesFit, Selected, Origin
  <2> QED
      BY <1>7, <1>9, <1>14, <2>1
<1>16. orders' \in [DOMAIN orders' -> OrderRow] /\ IsFiniteSet(DOMAIN orders')
  <2>1. \A o \in DOMAIN orders' : orders'[o] \in OrderRow
        BY <1>3, <1>7, <1>8, <1>9, <1>14
  <2>2. IsFiniteSet(Parts(split))
        BY <1>8, <1>13, FS_Subset
  <2>3. IsFiniteSet(D \cup Parts(split))
        BY <1>3, <2>2, FS_Union
  <2> QED
      BY <1>7, <2>1, <2>3
<1>17. \A o \in DOMAIN orders' :
          /\ orders'[o].line \in Lines
          /\ orders'[o].line # line => o \in D /\ orders'[o] = orders[o]
  <2>1. \A o \in DOMAIN orders' : orders'[o].line \in Lines
        BY <1>16 DEF OrderRow
  <2> QED
      BY <1>7, <1>8, <1>9, <1>14, <2>1
<1>18. OrdersFit(orders', nextOrderID')
  <2>1. \A o \in DOMAIN orders' \ DOMAIN orders :
           /\ o \in Nat \ {0} /\ o < 10 * nextOrderID
           /\ Original(o) \in DOMAIN orders' /\ orders'[Original(o)].line = orders'[o].line
        BY <1>7, <1>8, <1>14, <1>15
  <2>2. nextOrderID' = nextOrderID
        BY <1>1
  <2>3. nextOrderID' \in Nat /\ nextOrderID' >= nextOrderID
        BY <1>3, <2>2
  <2> QED
      BY <1>15, <1>16, <2>1, <2>2, <2>3, OrdersMove
<1>23. ASSUME NEW a \in allocations \cup allocations', a.order \in S
       PROVE  a.line = line
  <2>1. CASE a \in rows
        BY <2>1 DEF Placed
  <2>2. CASE a \in allocations
    <3>1. a.order \in D /\ a.line = orders[a.order].line
          BY <1>3, <2>2 DEF CalendarFits
    <3> QED
        BY <1>14, <1>15, <1>23, <3>1
  <2> QED
      BY <1>11, <2>1, <2>2
<1>19. CalendarFits(orders', allocations')
  <2>1. IsFiniteSet(allocations')
    <3>1. IsFiniteSet(allocations \cup rows)
          BY <1>3, <1>13, FS_Union DEF CalendarFits
    <3> QED
        BY <1>11, <3>1, FS_Subset
  <2>2. ASSUME NEW a \in allocations'
        PROVE  /\ a \in AllocationRow /\ a.order \in DOMAIN orders'
               /\ ~Waits(orders'[a.order]) /\ a.line = orders'[a.order].line
    <3>1. a \in AllocationRow
      <4>1. CASE a \in allocations
            BY <1>3, <4>1 DEF CalendarFits
      <4>2. CASE a \in rows
            BY <1>6, <4>2 DEF Applies
      <4> QED
          BY <1>11, <4>1, <4>2
    <3>2. a \in Of(allocations', a.order)
          BY DEF Of
    <3>3. CASE a.order \in S
      <4>1. /\ a.order \in DOMAIN orders' /\ ~Waits(orders'[a.order])
            /\ orders'[a.order].line = line
            BY <1>7, <1>8, <1>14, <3>3
      <4> QED
          BY <1>23, <3>1, <3>3, <4>1
    <3>4. CASE a.order \notin S
      <4>1. a \in allocations
            BY <1>10, <3>2, <3>4 DEF Of
      <4>2. a.order \in D /\ ~Waits(orders[a.order]) /\ a.line = orders[a.order].line
            BY <1>3, <4>1 DEF CalendarFits
      <4> QED
          BY <1>7, <1>9, <3>1, <3>4, <4>2
    <3> QED
        BY <3>3, <3>4
  <2> QED
      BY <2>1, <2>2 DEF CalendarFits
<1>20. revision' \in [Lines -> Nat]
       /\ Later(orders, allocations, revision, orders', allocations', revision')
  <2>1. \A a \in allocations \cup allocations' :
           a.line # line => (a \in allocations <=> a \in allocations')
        BY <1>10, <1>23 DEF Of
  <2> QED
      BY <1>1, <1>5, <1>15, <1>17, <2>1, LineMoves
<1>21. DOMAIN calls' = Requests /\ \A q \in Requests : calls'[q] \in {calls[q], Idle}
      BY <1>1 DEF TablesInv
<1>22. \A q \in DOMAIN previews' : q \in DOMAIN previews /\ previews'[q] = previews[q]
      BY <1>1
<1> QED
    BY <1>18, <1>19, <1>20, <1>21, <1>22, TablesMove

(***************************************************************************)
(* What calls read                                                         *)
(***************************************************************************)
LEMMA BeginKeeps ==
    ASSUME TablesInv, NEW r \in Requests, NEW call, CallFits(call, orders, allocations, revision),
           Begin(r, call)
    PROVE  TablesInv'
BY CallReads DEF Begin, GoOn

LEMMA AmendedType ==
    ASSUME TablesAssumption, NEW order \in OrderRow, NEW change \in Changes, Acceptable(change)
    PROVE  /\ Amended(order, change) \in OrderRow
           /\ Amended(order, change).status = order.status
           /\ Amended(order, change).line = order.line
<1>1. /\ change.quantity \in Nat /\ change.due \in Nat
      /\ change.quantity # 0 => change.quantity \in MinQuantity .. MaxQuantity
      BY DEF TablesAssumption, Acceptable
<1> QED
    BY <1>1 DEF Amended, OrderRow

\* A write begins with an order that waits.
LEMMA WriteBegins ==
    ASSUME TablesInv, NEW r \in Requests, NEW o \in DOMAIN orders,
           NEW row \in OrderRow, row.line = orders[o].line, Waits(row),
           NEW call, call = [op |-> "write", id |-> o, order |-> row], Begin(r, call)
    PROVE  TablesInv'
<1>1. row.quantity \in MinQuantity .. MaxQuantity /\ row.due \in Nat
      BY DEF OrderRow
<1>2. call.op = "write" /\ call.id = o /\ call.order = row
      OBVIOUS
<1>3. CallFits(call, orders, allocations, revision)
      BY <1>1, <1>2 DEF CallFits, Named, Writes
<1> QED
    BY <1>3, BeginKeeps

LEMMA NamedBegins ==
    ASSUME TablesInv, NEW r \in Requests, NEW o \in DOMAIN orders,
           NEW op \in {"cancel", "count"}, Begin(r, [op |-> op, id |-> o])
    PROVE  TablesInv'
<1>1. CallFits([op |-> op, id |-> o], orders, allocations, revision)
      BY DEF CallFits, Named
<1> QED
    BY <1>1, BeginKeeps

LEMMA OrderNamedKeeps ==
    ASSUME TablesAssumption, TablesInv, NEW r \in Requests, NEW c \in Claims, OrderNamed(r, c)
    PROVE  TablesInv'
<1> PICK o \in DOMAIN orders :
        \/ \E change \in Changes :
              ReadToUpdate(r, c, o, change) \/ ReadToResubmit(r, c, o, change)
        \/ ReadToReject(r, c, o)
        \/ ReadToCancel(r, c, o)
        \/ ReadToStart(r, c, o)
        \/ \E a \in Of(allocations, o), produced \in Amounts :
              ReadToConfirm(r, c, o, a.day, produced)
    BY DEF OrderNamed
<1>1. orders[o] \in OrderRow
      BY DEF TablesInv, OrdersFit
<1>2. ASSUME NEW change \in Changes, ReadToUpdate(r, c, o, change)
      PROVE  TablesInv'
  <2> DEFINE row == Amended(orders[o], change)
             call == [op |-> "write", id |-> o, order |-> row]
  <2>1. /\ orders[o].status \in {"pending", "rejected"} /\ Acceptable(change)
        /\ Begin(r, call)
        BY <1>2 DEF ReadToUpdate, CanUpdate
  <2>2. row \in OrderRow /\ row.status = orders[o].status /\ row.line = orders[o].line
        BY <1>1, <2>1, AmendedType
  <2>3. Waits(row)
        BY <2>1, <2>2 DEF Waits
  <2>4. call = [op |-> "write", id |-> o, order |-> row]
        OBVIOUS
  <2> HIDE DEF row, call
  <2> QED
      BY <2>1, <2>2, <2>3, <2>4, WriteBegins
<1>3. ASSUME NEW change \in Changes, ReadToResubmit(r, c, o, change)
      PROVE  TablesInv'
  <2> DEFINE order == Amended(orders[o], change)
             row == [order EXCEPT !.status = "pending"]
             call == [op |-> "write", id |-> o, order |-> row]
  <2>1. Acceptable(change) /\ Begin(r, call)
        BY <1>3 DEF ReadToResubmit
  <2>2. order \in OrderRow /\ order.line = orders[o].line
        BY <1>1, <2>1, AmendedType
  <2>3. call = [op |-> "write", id |-> o, order |-> row]
        OBVIOUS
  <2> HIDE DEF order, call
  <2>4. row \in OrderRow /\ row.line = order.line /\ row.status = "pending"
        BY <2>2, RowStatus DEF Statuses
  <2>5. Waits(row)
        BY <2>4 DEF Waits
  <2> HIDE DEF row
  <2> QED
      BY <2>1, <2>2, <2>3, <2>4, <2>5, WriteBegins
<1>4. CASE ReadToReject(r, c, o)
  <2> DEFINE row == [orders[o] EXCEPT !.status = "rejected"]
             call == [op |-> "write", id |-> o, order |-> row]
  <2>1. Begin(r, call)
        BY <1>4 DEF ReadToReject
  <2>2. row \in OrderRow /\ row.line = orders[o].line /\ row.status = "rejected"
        BY <1>1, RowStatus DEF Statuses
  <2>3. Waits(row)
        BY <2>2 DEF Waits
  <2>4. call = [op |-> "write", id |-> o, order |-> row]
        OBVIOUS
  <2> HIDE DEF row, call
  <2> QED
      BY <2>1, <2>2, <2>3, <2>4, WriteBegins
<1>5. CASE ReadToCancel(r, c, o) \/ ReadToStart(r, c, o)
      BY <1>5, NamedBegins DEF ReadToCancel, ReadToStart
<1>6. ASSUME NEW day, NEW produced, ReadToConfirm(r, c, o, day, produced)
      PROVE  TablesInv'
  <2> DEFINE call == [op |-> "load", id |-> o, order |-> orders[o], day |-> day,
                      produced |-> produced]
  <2>1. Begin(r, call)
        BY <1>6 DEF ReadToConfirm
  <2>2. /\ call.op = "load" /\ call.id = o /\ call.order = orders[o]
        /\ call = [op |-> call.op, id |-> call.id, order |-> call.order, day |-> call.day,
                   produced |-> call.produced]
        OBVIOUS
  <2> HIDE DEF call
  <2>3. CallFits(call, orders, allocations, revision)
        BY <1>1, <2>2 DEF CallFits, Named, Confirms
  <2> QED
      BY <2>1, <2>3, BeginKeeps
<1> QED
    BY <1>2, <1>3, <1>4, <1>5, <1>6

\* A request for a preview begins with the revision of the line.
LEMMA ReadLineKeeps ==
    ASSUME TablesInv, NEW r \in Requests, NEW c \in Claims, NEW req,
           req.start \in Int, req.manualForce \in BOOLEAN, req.allowLate \in BOOLEAN,
           c.role = "sales" => IsDraft(req), ReadLine(r, c, req)
    PROVE  TablesInv'
<1> DEFINE call == [op |-> "inputs", by |-> c, request |-> req, revision |-> revision[req.line]]
<1>1. Begin(r, call) /\ req.line \in Lines
      BY DEF ReadLine
<1>2. /\ call.op = "inputs" /\ call.by = c /\ call.request = req
      /\ call.revision = revision[req.line]
      OBVIOUS
<1> HIDE DEF call
<1>3. revision[req.line] \in Nat /\ IsRequest(req)
      BY <1>1 DEF TablesInv, IsRequest, Lines
<1>4. CallFits(call, orders, allocations, revision)
      BY <1>2, <1>3 DEF CallFits, Asks
<1> QED
    BY <1>1, <1>4, BeginKeeps

LEMMA PreviewAskedKeeps ==
    ASSUME TablesAssumption, RulesAssumption, TablesInv,
           NEW r \in Requests, NEW c \in Claims, PreviewAsked(r, c)
    PROVE  TablesInv'
<1>1. ASSUME c.role = "scheduler", NEW option \in Options, NEW resolution,
             ReadLine(r, c, Request(c.line, {}, resolution, option, NoDraft))
      PROVE  TablesInv'
  <2> DEFINE req == Request(c.line, {}, resolution, option, NoDraft)
  <2>1. req.start \in Int /\ req.manualForce \in BOOLEAN /\ req.allowLate \in BOOLEAN
        BY DEF Request, TablesAssumption, RulesAssumption
  <2>2. ReadLine(r, c, req)
        BY <1>1
  <2> HIDE DEF req
  <2> QED
      BY <1>1, <2>1, <2>2, ReadLineKeeps
<1>2. ASSUME NEW wanted \in Drafts,
             ReadLine(r, c, Request(wanted.line, {}, {}, NoOption, wanted))
      PROVE  TablesInv'
  <2> DEFINE req == Request(wanted.line, {}, {}, NoOption, wanted)
  <2>1. /\ req.start \in Int /\ req.manualForce \in BOOLEAN /\ req.allowLate \in BOOLEAN
        /\ req.draft = wanted /\ req.line = wanted.line
        BY DEF Request, NoOption, RulesAssumption
  <2>2. ReadLine(r, c, req)
        BY <1>2
  <2> HIDE DEF req
  <2>3. IsDraft(req)
        BY <2>1 DEF IsDraft
  <2> QED
      BY <2>1, <2>2, <2>3, ReadLineKeeps
<1> QED
    BY <1>1, <1>2 DEF PreviewAsked

LEMMA DraftAnsweredKeeps ==
    ASSUME TablesInv, NEW r \in Requests, NEW c \in Claims, DraftAnswered(r, c)
    PROVE  TablesInv'
<1> PICK p \in DOMAIN previews, deferDraft \in BOOLEAN, deferred \in SUBSET DOMAIN orders :
        ReadToConfirmDraft(r, c, p, deferDraft, deferred)
    BY DEF DraftAnswered
<1> DEFINE req == previews[p].request
           call == [op |-> "draft", by |-> c, preview |-> p, draft |-> req.draft,
                    deferDraft |-> deferDraft, deferred |-> deferred]
<1>1. /\ previews[p].role = "sales" /\ Begin(r, call)
      /\ \A o \in deferred : CanDefer(orders[o], c, req.line)
      BY DEF ReadToConfirmDraft
<1>2. IsDraft(req)
  <2>1. PreviewFits(previews[p], orders, allocations, revision)
        BY DEF TablesInv
  <2> QED
      BY <1>1, <2>1 DEF PreviewFits
<1>3. /\ call.op = "draft" /\ call.by = c /\ call.draft = req.draft
      /\ call.deferred = deferred
      OBVIOUS
<1> HIDE DEF call, req
<1>4. CallFits(call, orders, allocations, revision)
      BY <1>1, <1>2, <1>3 DEF CallFits, Answers, IsDraft, CanDefer
<1> QED
    BY <1>1, <1>4, BeginKeeps

LEMMA CountKeeps ==
    ASSUME TablesInv, NEW r \in Requests, CountAllocations(r)
    PROVE  TablesInv'
<1> DEFINE call == calls[r]
           next == [call EXCEPT !.op = "start"]
<1>1. call.op = "count" /\ (Refuse(r) \/ GoOn(r, next))
      BY DEF CountAllocations
<1>2. call = [op |-> call.op, id |-> call.id] /\ Named(call, orders)
  <2>1. CallFits(call, orders, allocations, revision)
        BY DEF TablesInv
  <2> HIDE DEF call
  <2> QED
      BY <1>1, <2>1 DEF CallFits
<1>3. next = [op |-> "start", id |-> call.id]
  <2> HIDE DEF call
  <2> QED
      BY <1>2
<1>4. CallFits(next, orders, allocations, revision)
  <2> HIDE DEF call
  <2>1. next.op = "start" /\ next.id = call.id
        BY <1>3
  <2> HIDE DEF next
  <2> QED
      BY <1>2, <1>3, <2>1 DEF CallFits, Named
<1> HIDE DEF next
<1> QED
    BY <1>1, <1>4, CallReads, CallRefused

LEMMA LoadKeeps ==
    ASSUME TablesInv, NEW r \in Requests, LoadAllocation(r)
    PROVE  TablesInv'
<1> DEFINE call == calls[r]
           next == [call EXCEPT !.op = "confirm"]
<1>1. call.op = "load" /\ (Refuse(r) \/ GoOn(r, next))
      BY DEF LoadAllocation
<1>2. Named(call, orders) /\ Confirms(call, orders)
  <2>1. CallFits(call, orders, allocations, revision)
        BY DEF TablesInv
  <2> HIDE DEF call
  <2> QED
      BY <1>1, <2>1 DEF CallFits
<1>3. next = [op |-> "confirm", id |-> call.id, order |-> call.order, day |-> call.day,
              produced |-> call.produced]
  <2> HIDE DEF call
  <2> QED
      BY <1>2 DEF Confirms
<1>4. CallFits(next, orders, allocations, revision)
  <2> HIDE DEF call
  <2>1. /\ next.op = "confirm" /\ next.id = call.id /\ next.order = call.order
        /\ next = [op |-> next.op, id |-> next.id, order |-> next.order, day |-> next.day,
                   produced |-> next.produced]
        BY <1>3
  <2> HIDE DEF next
  <2> QED
      BY <1>2, <2>1 DEF CallFits, Named, Confirms
<1> HIDE DEF next
<1> QED
    BY <1>1, <1>4, CallReads, CallRefused

\* The orders are read after the revision: if it is the line's still, they are what
\* is planned with, and an order that is to move is scheduled.
LEMMA InputsKeep ==
    ASSUME TablesInv, NEW r \in Requests, ReadInputs(r)
    PROVE  TablesInv'
<1> DEFINE call == calls[r]
           req == call.request
           inputs == OrderInputs(orders, req)
           next == [op |-> "plan", by |-> call.by, request |-> req,
                    revision |-> call.revision, inputs |-> inputs]
<1>1. /\ call.op = "inputs"
      /\ \/ Refuse(r)
         \/ /\ \A o \in req.resolution : CanMove(orders, allocations, req.line, o)
            /\ GoOn(r, next)
      BY DEF ReadInputs
<1>2. Asks(call, revision)
  <2>1. CallFits(call, orders, allocations, revision)
        BY DEF TablesInv
  <2> HIDE DEF call
  <2> QED
      BY <1>1, <2>1 DEF CallFits
<1>3. CASE Refuse(r)
      BY <1>3, CallRefused
<1>4. CASE /\ \A o \in req.resolution : CanMove(orders, allocations, req.line, o)
           /\ GoOn(r, next)
  <2>1. MayBePlanned(orders, allocations, req)
        BY <1>4 DEF MayBePlanned
  <2>2. /\ next.op = "plan" /\ next.by = call.by /\ next.request = call.request
        /\ next.revision = call.revision /\ next.inputs = OrderInputs(orders, req)
        OBVIOUS
  <2> HIDE DEF next, call
  <2>3. CallFits(next, orders, allocations, revision)
        BY <1>2, <2>1, <2>2 DEF CallFits, Asks, HasRead
  <2> QED
      BY <1>4, <2>3, CallReads
<1> QED
    BY <1>1, <1>3, <1>4

(***************************************************************************)
(* Previews                                                                *)
(***************************************************************************)
LEMMA SavedPreviewKeeps ==
    ASSUME TablesInv, NEW r \in Requests, NEW read, NEW allocs, NEW conflicts,
           SavePreview(r, read, allocs, conflicts),
           Asks(calls[r], revision), read = calls[r].revision,
           calls[r].by.role = "scheduler" /\ read = revision[calls[r].request.line] =>
              Schedules([request |-> calls[r].request, allocations |-> allocs,
                         conflicts |-> conflicts], orders, allocations)
    PROVE  TablesInv'
<1> DEFINE call == calls[r]
           p == nextPreviewID
           preview == [actor |-> call.by.subject, role |-> call.by.role,
                       request |-> call.request, revision |-> read,
                       allocations |-> allocs, conflicts |-> conflicts]
<1>1. /\ previews' = With(previews, p, preview)
      /\ Return(r)
      /\ UNCHANGED <<orders, allocations, revision, nextOrderID>>
      BY DEF SavePreview
<1>2. /\ preview.role = call.by.role /\ preview.request = call.request
      /\ preview.revision = read /\ preview.allocations = allocs
      /\ preview.conflicts = conflicts
      OBVIOUS
<1> HIDE DEF preview
<1>3. PreviewFits(preview, orders, allocations, revision)
  <2> HIDE DEF call
  <2>1. /\ Asks(call, revision) /\ read = call.revision
        /\ call.by.role = "scheduler" /\ read = revision[call.request.line] =>
              Schedules(preview, orders, allocations)
        BY <1>2 DEF call, Schedules
  <2> QED
      BY <1>2, <2>1 DEF PreviewFits, Asks
<1>4. /\ DOMAIN previews' = DOMAIN previews \cup {p}
      /\ \A q \in DOMAIN previews' : previews'[q] = IF q = p THEN preview ELSE previews[q]
      BY <1>1 DEF With
<1>5. \A q \in DOMAIN previews' : PreviewFits(previews'[q], orders, allocations, revision)
      BY <1>3, <1>4 DEF TablesInv
<1>6. DOMAIN calls' = Requests /\ \A q \in Requests : CallFits(calls'[q], orders, allocations, revision)
  <2>1. CallFits(Idle, orders, allocations, revision)
        BY DEF CallFits, Idle
  <2>2. DOMAIN calls' = Requests /\ \A q \in Requests : calls'[q] \in {calls[q], Idle}
        BY <1>1, Returns
  <2> QED
      BY <2>1, <2>2 DEF TablesInv
<1> QED
    BY <1>1, <1>5, <1>6 DEF TablesInv

\* The tables have the types that a plan reads.
LEMMA TablesOrders ==
    ASSUME RulesAssumption, TablesInv PROVE IsOrderTable(orders)
<1>1. \A o \in DOMAIN orders : orders[o] \in OrderRow
      BY DEF TablesInv, OrdersFit
<1>2. DOMAIN orders \subseteq Nat \ {0} /\ IsFiniteSet(DOMAIN orders)
      BY DEF TablesInv, OrdersFit
<1>3. \A o \in DOMAIN orders : orders[o].quantity \in Nat \ {0}
      BY <1>1 DEF OrderRow, RulesAssumption
<1> QED
    BY <1>1, <1>2, <1>3 DEF OrderRow, IsOrderTable

LEMMA TablesCalendar ==
    ASSUME RulesAssumption, TablesInv PROVE IsCalendar(allocations)
BY DEF TablesInv, CalendarFits, AllocationRow, RulesAssumption, IsCalendar

LEMMA NoConflicts ==
    ASSUME NEW conflicts, conflicts = <<>> PROVE NobodyLate(conflicts)
BY DEF NobodyLate

LEMMA PlanPreviewKeeps ==
    ASSUME RulesAssumption, TablesInv, NEW r \in Requests, PlanPreview(r)
    PROVE  TablesInv'
<1> DEFINE call == calls[r]
           req == call.request
           plan == Plan(PlanRequest(call.inputs, allocations, req))
           split == Split(orders, plan.allocations)
<1>1. /\ call.op = "plan" /\ PartsSuffice(split)
      /\ SavePreview(r, call.revision, split, plan.conflicts)
      BY DEF PlanPreview
<1>2. Asks(call, revision) /\ HasRead(call, orders, allocations, revision)
  <2>1. CallFits(call, orders, allocations, revision)
        BY DEF TablesInv
  <2> HIDE DEF call
  <2> QED
      BY <1>1, <2>1 DEF CallFits
<1>3. ASSUME call.revision = revision[req.line]
      PROVE  Schedules([request |-> req, allocations |-> split,
                        conflicts |-> plan.conflicts], orders, allocations)
  <2>1. call.inputs = OrderInputs(orders, req) /\ MayBePlanned(orders, allocations, req)
        BY <1>2, <1>3 DEF HasRead
  <2>2. plan = Plan(PlanRequest(OrderInputs(orders, req), allocations, req))
        BY <2>1
  <2>3. IsRequest(req)
        BY <1>2 DEF Asks
  <2>4. IsOrderTable(orders) /\ IsCalendar(allocations)
        BY TablesOrders, TablesCalendar
  <2> HIDE DEF plan, req
  <2>6. split = Split(orders, plan.allocations)
        OBVIOUS
  <2> HIDE DEF split
  <2>7. /\ PiecesFit(orders, req, split)
        /\ NobodyLate(plan.conflicts) => WholePlanned(orders, req, split)
        /\ ~req.manualForce => RoomLeft(allocations, req, split)
        BY <1>1, <2>2, <2>3, <2>4, <2>6, SplitOfPlan
  <2> QED
      BY <2>1, <2>7 DEF Schedules
<1> HIDE DEF split, plan
<1> QED
    BY <1>1, <1>2, <1>3, SavedPreviewKeeps

LEMMA PlanDraftKeeps ==
    ASSUME TablesInv, NEW r \in Requests, PlanDraft(r)
    PROVE  TablesInv'
<1> DEFINE call == calls[r]
           plan == DraftPlan(call.inputs, allocations, call.request, revision[call.request.line])
<1>1. /\ call.op = "plan" /\ call.by.role = "sales"
      /\ SavePreview(r, call.revision, plan.allocations, plan.conflicts)
      BY DEF PlanDraft
<1>2. Asks(call, revision)
  <2>1. CallFits(call, orders, allocations, revision)
        BY DEF TablesInv
  <2> HIDE DEF call
  <2> QED
      BY <1>1, <2>1 DEF CallFits
<1> HIDE DEF plan
<1> QED
    BY <1>1, <1>2, SavedPreviewKeeps

LEMMA ExpirePreviewKeeps ==
    ASSUME TablesInv, NEW p, ExpirePreview(p)
    PROVE  TablesInv'
<1>1. /\ DOMAIN previews' \subseteq DOMAIN previews
      /\ \A q \in DOMAIN previews' : previews'[q] = previews[q]
      /\ UNCHANGED <<orders, allocations, revision, nextOrderID, calls>>
      BY DEF ExpirePreview, Without
<1> QED
    BY <1>1 DEF TablesInv

(***************************************************************************)
(* The invariant holds in every state                                      *)
(***************************************************************************)
LEMMA InitTablesInv == Init => TablesInv
<1> SUFFICES ASSUME Init PROVE TablesInv
    OBVIOUS
<1>1. /\ orders = NoMap /\ allocations = {} /\ previews = NoMap
      /\ revision = [l \in Lines |-> 0] /\ nextOrderID = 1
      /\ calls = [r \in Requests |-> Idle]
      BY DEF Init
<1>2. DOMAIN NoMap = {} /\ \A X : NoMap \in [{} -> X]
      BY DEF NoMap
<1>3. IsFiniteSet({})
      BY FS_EmptySet
<1>4. OrdersFit(orders, nextOrderID)
      BY <1>1, <1>2, <1>3 DEF OrdersFit
<1>5. CalendarFits(orders, allocations)
      BY <1>1, <1>3 DEF CalendarFits
<1>6. \A r \in Requests : CallFits(calls[r], orders, allocations, revision)
      BY <1>1 DEF CallFits, Idle
<1> QED
    BY <1>1, <1>2, <1>4, <1>5, <1>6 DEF TablesInv

LEMMA NextKeepsTables ==
    ASSUME TablesAssumption, RulesAssumption, TablesInv, [Next]_vars
    PROVE  TablesInv'
<1>1. ASSUME NEW c \in Claims, NEW wanted \in Wants, CreateOrder(c, wanted)
      PROVE  TablesInv'
      BY <1>1, CreateOrderKeeps
<1>2. ASSUME NEW r \in Requests, NEW c \in Claims,
             OrderNamed(r, c) \/ PreviewAsked(r, c) \/ DraftAnswered(r, c)
      PROVE  TablesInv'
      BY <1>2, OrderNamedKeeps, PreviewAskedKeeps, DraftAnsweredKeeps
<1>3. ASSUME NEW r \in Requests, WentOn(r)
      PROVE  TablesInv'
      BY <1>3, CountKeeps, LoadKeeps, InputsKeep DEF WentOn
<1>4. ASSUME NEW r \in Requests, Wrote(r)
      PROVE  TablesInv'
  <2>1. CASE WriteOrder(r) \/ CancelOrder(r)
        BY <2>1, WriteOrderKeeps, CancelOrderKeeps
  <2>2. CASE StartProduction(r) \/ CompleteProduction(r) \/ PartialProduction(r)
        BY <2>2, StartProductionKeeps, CompleteProductionKeeps, PartialProductionKeeps
  <2>3. CASE PlanPreview(r) \/ PlanDraft(r) \/ ConfirmPreviewOrder(r)
        BY <2>3, PlanPreviewKeeps, PlanDraftKeeps, ConfirmPreviewKeeps
  <2> QED
      BY <1>4, <2>1, <2>2, <2>3 DEF Wrote
<1>5. ASSUME NEW p \in DOMAIN previews, ExpirePreview(p) \/ ApplyPreview(p)
      PROVE  TablesInv'
      BY <1>5, ExpirePreviewKeeps, ApplyPreviewKeeps
<1>6. CASE UNCHANGED vars
      BY <1>6 DEF vars, TablesInv
<1> QED
    BY <1>1, <1>2, <1>3, <1>4, <1>5, <1>6 DEF Next

\* TablesInv holds in every state of the tables, for any lines, claims, orders,
\* requests and bounds: what a call has read of a line, and what a preview plans on
\* it, is what the tables hold as long as the revision of the line stays.
THEOREM TablesInvariance == Spec => []TablesInv
<1>1. TablesInv /\ [Next]_vars => TablesInv'
      BY NextKeepsTables, TablesAssumption, RulesAssumption
<1> QED
    BY <1>1, InitTablesInv, PTL DEF Spec

\* TypeOK for any instance: nothing that is planned, split or confirmed in part,
\* from whatever was read before, leaves a quantity that the CHECK would refuse, and
\* no allocation is without its order.
THEOREM TablesAreTyped == Spec => []TypeOK
<1>1. ASSUME TablesInv PROVE TypeOK
  <2>1. \A o \in DOMAIN orders :
           orders[o].status \in Statuses /\ orders[o].quantity \in MinQuantity .. MaxQuantity
        BY <1>1, RowType DEF TablesInv
  <2>2. \A a \in allocations : a.order \in DOMAIN orders /\ a.quantity \in 1 .. MaxQuantity
        BY <1>1 DEF TablesInv, CalendarFits, AllocationRow
  <2>3. ASSUME NEW r \in Requests, calls[r] # Idle
        PROVE  calls[r].op \in {"write", "cancel", "count", "start", "load", "confirm",
                                "inputs", "plan", "draft"}
    <3>1. CallFits(calls[r], orders, allocations, revision)
          BY <1>1 DEF TablesInv
    <3> QED
        BY <2>3, <3>1 DEF CallFits, Idle
  <2> QED
      BY <2>1, <2>2, <2>3 DEF TypeOK
<1> QED
    BY <1>1, TablesInvariance, PTL

\* NothingWaitingIsOnTheCalendar for any instance: whatever was read before a job or
\* another request changed the order, an order that waits has no allocations.
THEOREM NobodyWaitsOnTheCalendar == Spec => []NothingWaitingIsOnTheCalendar
<1>1. TablesInv => NothingWaitingIsOnTheCalendar
      BY DEF TablesInv, CalendarFits, Waits, NothingWaitingIsOnTheCalendar
<1> QED
    BY <1>1, TablesInvariance, PTL

(***************************************************************************)
(* Wafers of orders that are split                                         *)
(***************************************************************************)
\* A piece that replaces its order has the quantity that the order has then.
LEMMA PieceQuantity ==
    ASSUME NEW rows, rows \in [DOMAIN rows -> OrderRow], 0 \notin DOMAIN rows,
           RulesAssumption, NEW req, NEW split, PiecesFit(rows, req, split),
           WholePlanned(rows, req, split),
           NEW now, NEW planned, planned = OrdersPlanned(rows, split, Cut(split), now),
           NEW i \in DOMAIN split
    PROVE  planned[split[i].order].quantity = split[i].quantity
<1> DEFINE piece == split[i]
           row == planned[piece.order]
           o == Origin(piece)
           order == rows[o]
<1>1. WellSplit(rows, split)
      BY DEF PiecesFit
<1>2. AsPlanned(rows, piece, Cut(split), now, row)
      BY <1>1, RowsAfterPlan
<1>3. o \in DOMAIN rows /\ o \in Selected(rows, req)
      BY <1>1 DEF WellSplit, PiecesFit
<1>4. order \in OrderRow
      BY <1>3
<1> HIDE DEF row, order
<1>5. CASE piece.source # 0
  <2>1. row = [order EXCEPT !.quantity = piece.quantity, !.status = "scheduled",
                            !.source = piece.source, !.createdAt = now]
        BY <1>2, <1>5 DEF AsPlanned, Origin, order
  <2> HIDE DEF piece
  <2>2. row.quantity = piece.quantity
        BY <1>4, <2>1 DEF OrderRow
  <2> QED
      BY <2>2 DEF row, piece
<1>6. CASE piece.source = 0 /\ piece.order \in Cut(split)
  <2>1. row = [order EXCEPT !.quantity = piece.quantity,
                            !.status = IF @ = "pending" THEN "scheduled" ELSE @]
        BY <1>2, <1>6 DEF AsPlanned, Origin, order
  <2> HIDE DEF piece
  <2>2. row.quantity = piece.quantity
        BY <1>4, <2>1 DEF OrderRow
  <2> QED
      BY <2>2 DEF row, piece
<1>7. CASE piece.source = 0 /\ piece.order \notin Cut(split)
  <2>1. row = [order EXCEPT !.quantity = @,
                            !.status = IF @ = "pending" THEN "scheduled" ELSE @]
        BY <1>2, <1>7 DEF AsPlanned, Origin, order
  <2>2. row.quantity = order.quantity
    <3> HIDE DEF piece
    <3> QED
        BY <1>4, <2>1 DEF OrderRow
  <2>3. {k \in DOMAIN split : Origin(split[k]) = o} = {i}
    <3> SUFFICES ASSUME NEW k \in DOMAIN split, Origin(split[k]) = o
                 PROVE  k = i
        OBVIOUS
    <3>1. o = piece.order
          BY <1>7 DEF Origin
    <3>2. split[k].source = 0
      <4> SUFFICES ASSUME split[k].source # 0 PROVE FALSE
          OBVIOUS
      <4>1. split[k].source = o
            BY DEF Origin
      <4>2. o \in Cut(split)
            BY <4>1 DEF Cut
      <4> QED
          BY <1>7, <3>1, <4>2
    <3>3. split[k].order = piece.order
          BY <3>1, <3>2 DEF Origin
    <3> QED
        BY <1>1, <3>3 DEF WellSplit
  <2>4. Wafers(split, {i}) = order.quantity
        BY <1>3, <2>3 DEF WholePlanned, order
  <2>5. Wafers(split, {i}) = split[i].quantity
    <3>1. split[i].quantity \in Nat
      <4>1. order.quantity \in Nat /\ split[i].quantity \in 1 .. order.quantity
            BY <1>4 DEF OrderRow, RulesAssumption, PiecesFit, order
      <4> QED
          BY <4>1
    <3> QED
        BY <3>1, OneWafers
  <2> QED
      BY <2>2, <2>4, <2>5 DEF row
<1> QED
    BY <1>5, <1>6, <1>7

\* A job for a schedule without conflicts keeps the wafers of each order and its parts.
LEMMA JobKeepsFamily ==
    ASSUME RulesAssumption, TablesInv, NEW p \in DOMAIN previews, ApplyPreview(p),
           previews[p].conflicts = <<>>, NEW o
    PROVE  Family(orders', o) = Family(orders, o)
<1> DEFINE req == previews[p].request
           split == previews[p].allocations
           now == revision[req.line]
           planned == orders'
<1>1. /\ orders \in [DOMAIN orders -> OrderRow] /\ 0 \notin DOMAIN orders
      /\ IsOrderTable(orders)
      BY TablesOrders DEF TablesInv, OrdersFit
<1>2. PiecesFit(orders, req, split) /\ WholePlanned(orders, req, split)
      BY NoConflicts DEF TablesInv, PreviewFits, Schedules, ApplyPreview, Current
<1>3. planned = OrdersPlanned(orders, split, Cut(split), now)
      BY DEF ApplyPreview
<1>4. \A all : Family(all, o) = SumFunctionOnSet(Quantities(all), OfFamily(all, Original(o)))
      BY DEF Family, Quantities, OfFamily
<1> HIDE DEF req, split, now, planned
<1>5. \A i \in DOMAIN split : planned[split[i].order].quantity = split[i].quantity
      BY <1>1, <1>2, <1>3, PieceQuantity
<1> DEFINE resized == Cut(split)
<1>6. planned = OrdersPlanned(orders, split, resized, now)
      BY <1>3
<1> HIDE DEF resized
<1>7. SumFunctionOnSet(Quantities(planned), OfFamily(planned, Original(o)))
         = SumFunctionOnSet(Quantities(orders), OfFamily(orders, Original(o)))
      BY <1>1, <1>2, <1>5, <1>6, FamilyKept
<1> QED
    BY <1>4, <1>7 DEF planned

(***************************************************************************)
(* Loads of the lines                                                      *)
(***************************************************************************)
\* No day of any line has more to make than before.
NoMoreLoad == \A l, d : Load(allocations', l, d) <= Load(allocations, l, d)

LEMMA FewerAllocations ==
    ASSUME RulesAssumption, TablesInv, allocations' \subseteq allocations
    PROVE  NoMoreLoad
<1> SUFFICES ASSUME NEW l, NEW d
             PROVE  Load(allocations', l, d) <= Load(allocations, l, d)
    BY DEF NoMoreLoad
<1> DEFINE other == allocations'
<1>1. OnLineDay(other, l, d) \subseteq OnLineDay(allocations, l, d)
      BY DEF OnLineDay
<1> HIDE DEF other
<1>2. Load(other, l, d) <= Load(allocations, l, d)
      BY <1>1, TablesCalendar, LoadOfFewer
<1> QED
    BY <1>2 DEF other

\* Allocations that are marked stay where they are.
LEMMA MarkedAllocations ==
    ASSUME RulesAssumption, TablesInv, NEW M \in SUBSET allocations,
           NEW K \in SUBSET allocations, K \cap M = {},
           NEW status \in {"scheduled", "inProgress", "completed"},
           allocations' = K \cup {[a EXCEPT !.locked = TRUE, !.status = status] : a \in M}
    PROVE  NoMoreLoad
<1> DEFINE Mark(a) == [a EXCEPT !.locked = TRUE, !.status = status]
           h == [a \in allocations |-> IF a \in M THEN Mark(a) ELSE a]
           other == allocations'
<1>1. IsCalendar(allocations) /\ allocations \subseteq AllocationRow
      BY TablesCalendar DEF TablesInv, CalendarFits
<1>2. ASSUME NEW a \in M
      PROVE  Mark(a).line = a.line /\ Mark(a).day = a.day /\ Mark(a).quantity = a.quantity
      BY <1>1 DEF AllocationRow
<1>4. \A a \in allocations : h[a] = IF a \in M THEN Mark(a) ELSE a
      OBVIOUS
<1> HIDE DEF h, Mark
<1>5. KeepsPlace(h, allocations)
      BY <1>2, <1>4 DEF KeepsPlace
<1>6. \A b \in other : \E a \in allocations : b = h[a]
      BY <1>4 DEF Mark
<1> HIDE DEF other
<1>7. \A l, d : Load(other, l, d) <= Load(allocations, l, d)
      BY <1>1, <1>5, <1>6, LoadOfSomeChanged
<1> QED
    BY <1>7 DEF NoMoreLoad, other

\* A job for a schedule without force and conflicts books no day above what the line
\* makes: the other days have what they had, or less.
LEMMA JobBooks ==
    ASSUME RulesAssumption, TablesInv, NEW p \in DOMAIN previews, ApplyPreview(p),
           ~previews[p].request.manualForce, previews[p].conflicts = <<>>, NEW l, NEW d
    PROVE  \/ Load(allocations', l, d) <= Load(allocations, l, d)
           \/ Load(allocations', l, d) <= Capacity[l]
<1> DEFINE req == previews[p].request
           split == previews[p].allocations
           planned == allocations'
<1>1. /\ PiecesFit(orders, req, split) /\ WholePlanned(orders, req, split)
      /\ RoomLeft(allocations, req, split) /\ IsRequest(req)
      /\ MayBePlanned(orders, allocations, req)
      BY NoConflicts DEF TablesInv, PreviewFits, Schedules, ApplyPreview, Current
<1>2. planned = AllocationsPlanned(allocations, split, req.line)
      BY DEF ApplyPreview
<1>3. IsOrderTable(orders) /\ IsCalendar(allocations)
      BY TablesCalendar, TablesOrders DEF TablesInv
<1> HIDE DEF req, split, planned
<1>4. \/ Load(planned, l, d) <= Load(allocations, l, d)
      \/ Load(planned, l, d) <= Capacity[l]
      BY <1>1, <1>2, <1>3, PlanBooks DEF MayBePlanned
<1> QED
    BY <1>4 DEF planned

\* No step of a request books more on a day.
LEMMA RequestBooksNothing ==
    ASSUME RulesAssumption, TablesInv, NEW r \in Requests,
           \/ \E c \in Claims : OrderNamed(r, c) \/ PreviewAsked(r, c) \/ DraftAnswered(r, c)
           \/ WentOn(r) \/ Wrote(r)
    PROVE  NoMoreLoad
<1>1. ASSUME NEW call, Begin(r, call) \/ GoOn(r, call)
      PROVE  allocations' = allocations
      BY <1>1 DEF Begin, GoOn, tables
<1>2. Refuse(r) => allocations' = allocations
      BY <1>1 DEF Refuse
<1>3. ASSUME NEW c \in Claims, OrderNamed(r, c)
      PROVE  allocations' = allocations
      BY <1>1, <1>3 DEF OrderNamed, ReadToUpdate, ReadToResubmit, ReadToReject, ReadToCancel,
                        ReadToStart, ReadToConfirm
<1>4. ASSUME NEW c \in Claims, PreviewAsked(r, c)
      PROVE  allocations' = allocations
      BY <1>1, <1>4 DEF PreviewAsked, ReadLine
<1>5. ASSUME NEW c \in Claims, DraftAnswered(r, c)
      PROVE  allocations' = allocations
      BY <1>1, <1>5 DEF DraftAnswered, ReadToConfirmDraft
<1>6. CASE WentOn(r)
  <2>1. allocations' = allocations
        BY <1>1, <1>2, <1>6 DEF WentOn, CountAllocations, LoadAllocation, ReadInputs
  <2> QED
      BY <2>1, FewerAllocations
<1>7. CASE WriteOrder(r) \/ CancelOrder(r)
  <2>1. allocations' \subseteq allocations
        BY <1>7 DEF WriteOrder, CancelOrder, DropAllocations
  <2> QED
      BY <2>1, FewerAllocations
<1>8. CASE StartProduction(r)
  <2> DEFINE M == OpenOf(allocations, calls[r].id)
             K == allocations \ M
             status == "inProgress"
  <2>1. /\ M \in SUBSET allocations /\ K \in SUBSET allocations /\ K \cap M = {}
        /\ status \in {"scheduled", "inProgress", "completed"}
        /\ allocations' = K \cup {[a EXCEPT !.locked = TRUE, !.status = status] : a \in M}
        BY <1>8 DEF StartProduction, Started, OpenOf, Of
  <2> HIDE DEF M, K, status
  <2> QED
      BY <2>1, MarkedAllocations
<1>9. CASE CompleteProduction(r)
  <2> DEFINE M == {a \in allocations : a.order = calls[r].id /\ a.day = calls[r].day}
             K == allocations \ M
             status == "completed"
  <2>1. allocations' = {IF a.order = calls[r].id /\ a.day = calls[r].day
                        THEN [a EXCEPT !.locked = TRUE, !.status = "completed"] ELSE a :
                           a \in allocations}
        BY <1>9 DEF CompleteProduction
  <2>2. /\ M \in SUBSET allocations /\ K \in SUBSET allocations /\ K \cap M = {}
        /\ status \in {"scheduled", "inProgress", "completed"}
        /\ allocations' = K \cup {[a EXCEPT !.locked = TRUE, !.status = status] : a \in M}
        BY <2>1
  <2> HIDE DEF M, K, status
  <2> QED
      BY <2>2, MarkedAllocations
<1>10. CASE PartialProduction(r)
  <2> DEFINE o == calls[r].id
             M == {b \in Of(allocations, o) : b.day = calls[r].day}
             K == allocations \ Of(allocations, o)
             status == "completed"
  <2>1. \/ Refuse(r)
        \/ allocations' = K \cup {[a EXCEPT !.locked = TRUE, !.status = status] : a \in M}
        BY <1>10 DEF PartialProduction
  <2>2. /\ M \in SUBSET allocations /\ K \in SUBSET allocations /\ K \cap M = {}
        /\ status \in {"scheduled", "inProgress", "completed"}
        BY DEF Of
  <2> HIDE DEF M, K, status
  <2> QED
      BY <1>2, <2>1, <2>2, MarkedAllocations, FewerAllocations
<1>11. CASE PlanPreview(r) \/ PlanDraft(r)
  <2>1. allocations' = allocations
        BY <1>11 DEF PlanPreview, PlanDraft, SavePreview
  <2> QED
      BY <2>1, FewerAllocations
<1>12. CASE ConfirmPreviewOrder(r)
  <2>1. allocations' = allocations
        BY <1>2, <1>12 DEF ConfirmPreviewOrder
  <2> QED
      BY <2>1, FewerAllocations
<1>13. CASE \E c \in Claims : OrderNamed(r, c) \/ PreviewAsked(r, c) \/ DraftAnswered(r, c)
  <2>1. allocations' = allocations
        BY <1>3, <1>4, <1>5, <1>13
  <2> QED
      BY <2>1, FewerAllocations
<1> QED
    BY <1>6, <1>7, <1>8, <1>9, <1>10, <1>11, <1>12, <1>13 DEF Wrote

\* Only a job does.
LEMMA OnlyJobsBook ==
    ASSUME RulesAssumption, TablesInv, [Next]_vars
    PROVE  NoMoreLoad \/ \E p \in DOMAIN previews : ApplyPreview(p)
<1>1. ASSUME NEW c \in Claims, NEW wanted \in Wants, CreateOrder(c, wanted)
      PROVE  NoMoreLoad
      BY <1>1, FewerAllocations DEF CreateOrder
<1>2. ASSUME NEW p, ExpirePreview(p)
      PROVE  NoMoreLoad
      BY <1>2, FewerAllocations DEF ExpirePreview
<1>3. CASE UNCHANGED vars
      BY <1>3, FewerAllocations DEF vars
<1> QED
    BY <1>1, <1>2, <1>3, RequestBooksNothing DEF Next

\* JobKeepsQuantities for any instance: a schedule without conflicts plans every wafer
\* of the orders it was read from, and the revision it is applied at says that they
\* are what they were.
THEOREM JobsKeepQuantities == Spec => JobKeepsQuantities
<1> DEFINE Kept == \A p \in DOMAIN previews :
                      (ApplyPreview(p) /\ previews[p].conflicts = <<>>) =>
                         \A o \in DOMAIN orders : Family(orders', o) = Family(orders, o)
<1>1. TablesInv /\ [Next]_vars => [Kept]_vars
      BY JobKeepsFamily, RulesAssumption
<1> QED
    BY <1>1, TablesInvariance, PTL DEF Spec, JobKeepsQuantities

\* OverbookedOpenly for any instance: whatever was read, split, confirmed or moved in
\* between, a day gets more than its line makes by a job alone, and one whose schedule
\* was by force or showed conflicts.
THEOREM OnlyOpenlyOverbooked == Spec => OverbookedOpenly
<1> DEFINE Booked == \A a \in allocations' :
              \/ Load(allocations', a.line, a.day) <= Load(allocations, a.line, a.day)
              \/ Load(allocations', a.line, a.day) <= Capacity[a.line]
              \/ \E p \in DOMAIN previews :
                    /\ ApplyPreview(p)
                    /\ previews[p].request.manualForce \/ previews[p].conflicts # <<>>
<1>1. ASSUME TablesInv, [Next]_vars
      PROVE  Booked
  <2>1. CASE NoMoreLoad
        BY <2>1 DEF NoMoreLoad
  <2>2. ASSUME NEW p \in DOMAIN previews, ApplyPreview(p)
        PROVE  Booked
    <3>1. CASE previews[p].request.manualForce \/ previews[p].conflicts # <<>>
          BY <2>2, <3>1
    <3>2. CASE ~previews[p].request.manualForce /\ previews[p].conflicts = <<>>
          BY <1>1, <2>2, <3>2, JobBooks, RulesAssumption
    <3> QED
        BY <3>1, <3>2
  <2> QED
      BY <1>1, <2>1, <2>2, OnlyJobsBook, RulesAssumption
<1>2. TablesInv /\ [Next]_vars => [Booked]_vars
      BY <1>1
<1> QED
    BY <1>2, TablesInvariance, PTL DEF Spec, OverbookedOpenly
=============================================================================
