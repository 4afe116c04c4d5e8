----------------------- MODULE SchedulePreview_proofs -----------------------
(***************************************************************************)
(* What a preview shows of a draft, for every request.                     *)
(***************************************************************************)
EXTENDS SchedulePreview, Scheduler_proofs

(***************************************************************************)
(* The inductive invariant                                                 *)
(***************************************************************************)
Pending == DOMAIN asked.orders \ {Draft}

\* A result accounts for each of these orders: it is whole, or it is late.
Accounts(result, O) ==
    \A o \in O :
        \/ Whole(result, o) /\ ~IsLate(result, o)
        \/ ~Whole(result, o) /\ IsLate(result, o)

KeepsDueDates(result) ==
    ~asked.allowLate =>
        \A i \in DOMAIN result.allocations :
            result.allocations[i].day
               <= asked.orders[result.allocations[i].order].due

\* Each pass plans the request that is its own, from the first step to the last.
Passes ==
    /\ asked \in Requests
    /\ pass \in {"baseline", "plan", "shown"}
    /\ pass = "baseline" => HasDraft /\ request = WithoutDraft(asked)
    /\ pass # "baseline" => request = asked
    /\ pass = "shown" => pc = "done"

\* The baseline is a plan of the request without the draft.
BaselinePlanned ==
    pass # "baseline" /\ HasDraft =>
        /\ PlansFor(baseline.allocations, Pending)
        /\ Accounts(baseline, Pending)
        /\ KeepsDueDates(baseline)

\* What is shown is the plan with the draft.
PlanShown ==
    pass = "shown" /\ HasDraft =>
        shown = [allocations |-> allocations, conflicts |-> ConflictsShown,
                 finishDate |-> DraftFinish]

PreviewInv == Passes /\ IInv /\ BaselinePlanned /\ PlanShown

(***************************************************************************)
(* A plan that is done                                                     *)
(***************************************************************************)
\* It has every order of its request, with all its wafers or a late conflict.
LEMMA DonePlan ==
    ASSUME IInv, pc = "done"
    PROVE  /\ PlansFor(allocations, DOMAIN request.orders)
           /\ \A o \in DOMAIN request.orders :
                 \/ Placed(o) = request.orders[o].quantity /\ ~Late(o)
                 \/ Placed(o) # request.orders[o].quantity /\ Late(o)
           /\ ~request.allowLate =>
                 \A i \in DOMAIN allocations :
                    allocations[i].day <= request.orders[allocations[i].order].due
<1> USE DEF IInv
<1>1. todo = {} /\ ~Planning
      BY DEF DaysRise, Planning
<1>2. allocations \in Seq(Piece)
      BY DEF TypeOK
<1>3. \A i \in DOMAIN allocations : allocations[i].order \in DOMAIN request.orders
      BY DEF RankOrder, TakenInRank
<1>4. \A o \in DOMAIN request.orders, d \in Nat : TakesAllRoom(allocations, o, d)
      BY <1>1 DEF Greedy
<1>5. PlansFor(allocations, DOMAIN request.orders)
      BY <1>2, <1>3, <1>4 DEF PlansFor, OnePiecePerDay, Greedy
<1>6. ASSUME NEW o \in DOMAIN request.orders
      PROVE  \/ Placed(o) = request.orders[o].quantity /\ ~Late(o)
             \/ Placed(o) # request.orders[o].quantity /\ Late(o)
  <2>1. Placed(o) \in Nat
        BY PieceQuantities
  <2>2. request.orders[o].quantity \in Nat
        BY RequestFields DEF TypeOK, IsRequest, OrderInput
  <2> QED
      BY <1>1, <2>1, <2>2 DEF QuantitySums
<1>7. ASSUME ~request.allowLate, NEW i \in DOMAIN allocations
      PROVE  allocations[i].day <= request.orders[allocations[i].order].due
  <2>1. allocations[i].day \in Nat
        BY PieceFields
  <2>2. request.orders[allocations[i].order].due \in Nat
        BY <1>3, RequestFields DEF TypeOK, IsRequest, OrderInput
  <2> QED
      BY <1>7, <2>1, <2>2 DEF DueDates
<1> QED
    BY <1>5, <1>6, <1>7

\* The same, said of the result.
LEMMA DoneResult ==
    ASSUME IInv, pc = "done", NEW O \in SUBSET DOMAIN request.orders,
           \A o \in O : asked.orders[o] = request.orders[o]
    PROVE  Accounts(PlanResult, O)
<1>1. ASSUME NEW o \in O
      PROVE  /\ Whole(PlanResult, o) <=> Placed(o) = request.orders[o].quantity
             /\ IsLate(PlanResult, o) <=> Late(o)
      BY DEF Whole, PiecesIn, PlanResult, Placed, IsLate, Late
<1> QED
    BY <1>1, DonePlan DEF Accounts

(***************************************************************************)
(* The steps                                                               *)
(***************************************************************************)
\* A preview begins with the plan of its first pass.
LEMMA InitPreview ==
    ASSUME PreviewInit
    PROVE  PreviewInv
<1>1. request \in Requests
      BY DraftAssumption DEF PreviewInit
<1>2. Init
      BY <1>1 DEF PreviewInit, Init
<1>3. IInv
      BY <1>2, InitIInv
<1> QED
    BY <1>3 DEF PreviewInit, PreviewInv, Passes, BaselinePlanned, PlanShown

\* The second pass begins like a plan.
LEMMA PassBegins ==
    ASSUME NEW r \in Requests, PlanBeginsAgain(r)
    PROVE  IInv'
<1>1. Init'
      BY DEF PlanBeginsAgain, Init, PlanBegins, EmptyMap
<1>2. Init' => IInv'
      BY InitIInv, PTL
<1> QED
    BY <1>1, <1>2

\* The plan without the draft is a plan of the pending orders of the request
\* with the draft, as far as they are concerned.
LEMMA BaselineKept ==
    ASSUME Passes, IInv, PlanWithDraft
    PROVE  /\ PlansFor(baseline.allocations, Pending)'
           /\ Accounts(baseline, Pending)'
           /\ KeepsDueDates(baseline)'
<1>1. /\ pc = "done" /\ HasDraft /\ request = WithoutDraft(asked)
      /\ asked' = asked /\ request' = asked /\ baseline' = PlanResult
      BY DEF PlanWithDraft, Passes, PlanBeginsAgain
<1>2. baseline'.allocations = allocations
      BY <1>1 DEF PlanResult
<1>3. /\ DOMAIN request.orders = Pending /\ Pending' = Pending
      /\ \A o \in Pending : request.orders[o] = asked.orders[o]
      /\ request.line = asked.line /\ request.capacity = asked.capacity
      /\ request.start = asked.start /\ request.currentDate = asked.currentDate
      /\ request.manualForce = asked.manualForce /\ request.allowLate = asked.allowLate
      /\ request.existing = asked.existing
      BY <1>1, RequestsAssumption DEF Passes, WithoutDraft, Pending, IsRequest
<1>4. /\ PlansFor(allocations, Pending)
      /\ \A i \in DOMAIN allocations : allocations[i].order \in Pending
      BY <1>1, <1>3, DonePlan DEF PlansFor
<1>5. ASSUME NEW o \in Pending, NEW d \in Nat
      PROVE  TakesAllRoom(baseline.allocations, o, d)'
  <2>1. {i \in DOMAIN baseline'.allocations :
           /\ Before(baseline.allocations[i].order, o)'
           /\ baseline'.allocations[i].day = d}
          = {i \in DOMAIN allocations :
               Before(allocations[i].order, o) /\ allocations[i].day = d}
    <3>1. ASSUME NEW i \in DOMAIN allocations
          PROVE  Before(baseline.allocations[i].order, o)' <=> Before(allocations[i].order, o)
      <4>1. allocations[i].order \in Pending
            BY <1>4
      <4>2. request'.orders[allocations[i].order] = request.orders[allocations[i].order]
            BY <1>1, <1>3, <4>1
      <4>3. request'.orders[o] = request.orders[o]
            BY <1>1, <1>3
      <4> QED
          BY <1>2, <4>2, <4>3 DEF Before
    <3> QED
        BY <1>2, <3>1
  <2>2. AheadOn(baseline.allocations, o, d)' = AheadOn(allocations, o, d)
        BY <1>2, <2>1 DEF AheadOn
  <2>3. /\ OrderOn(baseline.allocations, o, d)' = OrderOn(allocations, o, d)
        /\ OrderBefore(baseline.allocations, o, d)' = OrderBefore(allocations, o, d)
        BY <1>2 DEF OrderOn, OrderBefore
  <2>4. Room(baseline.allocations, o, d)' = Room(allocations, o, d)
        BY <1>1, <1>3, <2>2 DEF Room, Backlog, OldOn
  <2>5. UsableDay(o, d)' = UsableDay(o, d)
        BY <1>1, <1>3 DEF UsableDay, Start
  <2>6. TakesAllRoom(allocations, o, d)
        BY <1>4 DEF PlansFor
  <2> QED
      BY <1>1, <1>3, <2>3, <2>4, <2>5, <2>6 DEF TakesAllRoom
<1>6. PlansFor(baseline.allocations, Pending)'
  <2>1. \A i \in DOMAIN allocations :
           /\ allocations[i].order \in DOMAIN request'.orders
           /\ allocations[i].locked = request'.orders[allocations[i].order].high
        BY <1>1, <1>3, <1>4 DEF PlansFor, Pending
  <2> QED
      BY <1>2, <1>3, <1>4, <1>5, <2>1 DEF PlansFor
<1>7. Accounts(baseline, Pending)'
  <2>1. Accounts(PlanResult, Pending)
        BY <1>1, <1>3, DoneResult
  <2> QED
      BY <1>1, <1>3, <2>1 DEF Accounts, Whole, PiecesIn, IsLate
<1>8. KeepsDueDates(baseline)'
      BY <1>1, <1>2, <1>3, <1>4, DonePlan DEF KeepsDueDates
<1> QED
    BY <1>6, <1>7, <1>8

\* As long as its request stays, so does what is known of the baseline.
LEMMA SameBaseline ==
    ASSUME UNCHANGED <<request, asked, baseline>>,
           PlansFor(baseline.allocations, Pending),
           Accounts(baseline, Pending), KeepsDueDates(baseline)
    PROVE  /\ PlansFor(baseline.allocations, Pending)'
           /\ Accounts(baseline, Pending)'
           /\ KeepsDueDates(baseline)'
<1>1. Pending' = Pending
      BY DEF Pending
<1>2. ASSUME NEW o \in Pending, NEW d \in Nat
      PROVE  TakesAllRoom(baseline.allocations, o, d)'
  <2>1. TakesAllRoom(baseline.allocations, o, d)' = TakesAllRoom(baseline.allocations, o, d)
        BY DEF TakesAllRoom, OrderOn, OrderBefore, Room, AheadOn, Before, UsableDay, Start,
               Backlog, OldOn
  <2> QED
      BY <2>1 DEF PlansFor
<1>3. PlansFor(baseline.allocations, Pending)'
      BY <1>1, <1>2 DEF PlansFor
<1>4. Accounts(baseline, Pending)'
      BY <1>1 DEF Accounts, Whole, PiecesIn, IsLate
<1>5. KeepsDueDates(baseline)'
      BY DEF KeepsDueDates
<1> QED
    BY <1>3, <1>4, <1>5

\* The steps of a plan leave what surrounds it.
LEMMA PlanStepKeeps ==
    ASSUME PreviewInv, PlanStep
    PROVE  PreviewInv'
<1>1. Next /\ pass # "shown" /\ UNCHANGED previewVars
      BY DEF PlanStep
<1>2. request' = request
      BY <1>1 DEF Next, PlanOrders, PlanOrder, PlanLate, NextOrder, NoOrderLeft,
                  SkipFullDay, PlaceQuantity, OrderPlaced, GiveUp, EstimateDay,
                  RecordLateConflict, ReadExisting
<1>3. IInv'
      BY <1>1, NextIInv DEF PreviewInv
<1>4. UNCHANGED <<asked, pass, baseline, shown>>
      BY <1>1 DEF previewVars
<1>5. Passes' /\ PlanShown'
      BY <1>1, <1>2, <1>4 DEF PreviewInv, Passes, PlanShown, HasDraft
<1>6. BaselinePlanned'
  <2>1. SUFFICES ASSUME pass # "baseline", HasDraft
                 PROVE  BaselinePlanned'
        BY <1>4 DEF BaselinePlanned, HasDraft
  <2>2. /\ PlansFor(baseline.allocations, Pending)
        /\ Accounts(baseline, Pending)
        /\ KeepsDueDates(baseline)
        BY <2>1 DEF PreviewInv, BaselinePlanned
  <2> QED
      BY <1>2, <1>4, <2>2, SameBaseline DEF BaselinePlanned
<1> QED
    BY <1>3, <1>5, <1>6 DEF PreviewInv

\* The end of the first pass.
LEMMA PlanWithDraftKeeps ==
    ASSUME PreviewInv, PlanWithDraft
    PROVE  PreviewInv'
<1>1. /\ pass' = "plan" /\ request' = asked /\ asked' = asked
      /\ PlanBeginsAgain(asked)
      BY DEF PlanWithDraft, PlanBeginsAgain
<1>2. asked \in Requests
      BY DEF PreviewInv, Passes
<1>3. IInv'
      BY <1>1, <1>2, PassBegins
<1>4. BaselinePlanned'
      BY BaselineKept DEF PreviewInv, BaselinePlanned
<1> QED
    BY <1>1, <1>2, <1>3, <1>4 DEF PreviewInv, Passes, PlanShown

\* The end of the second.
LEMMA ShowKeeps ==
    ASSUME PreviewInv, Show
    PROVE  PreviewInv'
<1>1. /\ pass = "plan" /\ pass' = "shown" /\ pc = "done"
      /\ UNCHANGED <<vars, asked, baseline>>
      BY DEF Show
<1>2. IInv'
      BY <1>1, NextIInv DEF PreviewInv
<1>3. UNCHANGED <<request, pc, allocations, conflicts, finishDate>>
      BY <1>1 DEF vars, loopVars, resultVars
<1>4. Passes'
      BY <1>1, <1>3 DEF PreviewInv, Passes
<1>5. BaselinePlanned'
  <2>1. SUFFICES ASSUME HasDraft
                 PROVE  BaselinePlanned'
        BY <1>1 DEF BaselinePlanned, HasDraft
  <2>2. /\ PlansFor(baseline.allocations, Pending)
        /\ Accounts(baseline, Pending)
        /\ KeepsDueDates(baseline)
        BY <1>1, <2>1 DEF PreviewInv, BaselinePlanned
  <2> QED
      BY <1>1, <1>3, <2>2, SameBaseline DEF BaselinePlanned
<1>6. PlanShown'
  <2>1. HasDraft' => shown' = [allocations |-> allocations, conflicts |-> ConflictsShown,
                               finishDate |-> DraftFinish]
        BY <1>1 DEF Show, HasDraft
  <2>2. ConflictsShown' = ConflictsShown /\ DraftFinish' = DraftFinish
        BY <1>1, <1>3 DEF ConflictsShown, PlanResult, IsNew, DraftFinish, DraftPieces
  <2> QED
      BY <1>3, <2>1, <2>2 DEF PlanShown
<1> QED
    BY <1>2, <1>4, <1>5, <1>6 DEF PreviewInv

\* A preview keeps the invariant in both passes.
THEOREM PreviewInvariance == PreviewSpec => []PreviewInv
<1>1. PreviewInit => PreviewInv
      BY InitPreview
<1>2. PreviewInv /\ [PreviewNext]_<<vars, previewVars>> => PreviewInv'
  <2>1. SUFFICES ASSUME PreviewInv, [PreviewNext]_<<vars, previewVars>>
                 PROVE  PreviewInv'
        OBVIOUS
  <2>2. CASE PlanStep
        BY <2>1, <2>2, PlanStepKeeps
  <2>3. CASE PlanWithDraft
        BY <2>1, <2>3, PlanWithDraftKeeps
  <2>4. CASE Show
        BY <2>1, <2>4, ShowKeeps
  <2>5. CASE UNCHANGED <<vars, previewVars>>
    <3>1. IInv'
          BY <2>1, <2>5, NextIInv DEF PreviewInv
    <3>2. UNCHANGED <<request, pc, allocations, conflicts, finishDate, asked, pass,
                      baseline, shown>>
          BY <2>5 DEF vars, loopVars, resultVars, previewVars
    <3>3. Passes'
          BY <2>1, <3>2 DEF PreviewInv, Passes, HasDraft
    <3>4. BaselinePlanned'
          BY <2>1, <3>2, SameBaseline DEF PreviewInv, BaselinePlanned, HasDraft
    <3>5. PlanShown'
          BY <2>1, <3>2 DEF PreviewInv, PlanShown, HasDraft, ConflictsShown, PlanResult,
                            IsNew, DraftFinish, DraftPieces
    <3> QED
        BY <3>1, <3>3, <3>4, <3>5 DEF PreviewInv
  <2> QED
      BY <2>1, <2>2, <2>3, <2>4, <2>5 DEF PreviewNext
<1> QED
    BY <1>1, <1>2, PTL DEF PreviewSpec

(***************************************************************************)
(* What is shown                                                           *)
(***************************************************************************)
\* A draft takes nothing from the orders that rank before it, whatever it asks for:
\* each of them has the pieces in the preview that it has without the draft.
THEOREM DraftsDisplaceNobodyAhead == PreviewSpec => []DraftDisplacesNobodyAhead
<1>1. ASSUME PreviewInv
      PROVE  DraftDisplacesNobodyAhead
  <2>1. SUFFICES ASSUME pass = "shown", HasDraft,
                        NEW o \in DOMAIN asked.orders, Before(o, Draft)
                 PROVE  {shown.allocations[i] : i \in PiecesIn(shown, o)}
                          = {baseline.allocations[i] : i \in PiecesIn(baseline, o)}
        BY DEF DraftDisplacesNobodyAhead
  <2> DEFINE O == {p \in DOMAIN asked.orders : Before(p, Draft)}
  <2>2. /\ request = asked /\ pc = "done" /\ IInv /\ shown.allocations = allocations
        /\ PlansFor(baseline.allocations, Pending)
        BY <1>1, <2>1 DEF PreviewInv, Passes, BaselinePlanned, PlanShown
  <2>3. IsRequest(request) /\ Draft \in DOMAIN request.orders
        BY <1>1, <2>1, <2>2, RequestsAssumption DEF PreviewInv, Passes, HasDraft
  <2>4. O \subseteq Pending /\ O \in SUBSET DOMAIN request.orders
    <3>1. ~Before(Draft, Draft)
          BY <2>2, <2>3, RankStrict DEF IInv
    <3> QED
        BY <2>2, <3>1 DEF Pending
  <2>5. \A p \in O, r \in DOMAIN request.orders : Before(r, p) => r \in O
        BY <2>2, <2>3, RankTransitive
  <2>6. PlansFor(baseline.allocations, O) /\ PlansFor(allocations, O)
        BY <2>2, <2>4, DonePlan DEF PlansFor
  <2>7. PiecesFor(allocations, o) = PiecesFor(baseline.allocations, o)
    <3>1. o \in O
          BY <2>1
    <3> HIDE DEF O
    <3> QED
        BY <2>3, <2>4, <2>5, <2>6, <3>1, PlansAgree
  <2> QED
      BY <2>2, <2>7 DEF PiecesFor, PiecesIn
<1> QED
    BY <1>1, PreviewInvariance, PTL

\* A pending order is shown as late if and only if the draft makes it late.
THEOREM OnlyPushedOrdersAreFlagged == PreviewSpec => []PushedOrdersAreFlagged
<1>1. ASSUME PreviewInv
      PROVE  PushedOrdersAreFlagged
  <2>1. SUFFICES ASSUME pass = "shown", HasDraft, ~asked.allowLate, NEW o \in Pending
                 PROVE  IsLate(shown, o) <=> InTime(baseline, o) /\ ~InTime(shown, o)
        BY DEF PushedOrdersAreFlagged, Pending
  <2>2. /\ request = asked /\ pc = "done" /\ IInv
        /\ shown = [allocations |-> allocations, conflicts |-> ConflictsShown,
                    finishDate |-> DraftFinish]
        /\ Accounts(baseline, Pending)
        /\ KeepsDueDates(baseline)
        BY <1>1, <2>1 DEF PreviewInv, Passes, BaselinePlanned, PlanShown
  <2>3. Accounts(PlanResult, Pending) /\ KeepsDueDates(PlanResult)
    <3>1. Pending \in SUBSET DOMAIN request.orders
          BY <2>2 DEF Pending
    <3> QED
        BY <2>2, <3>1, DoneResult, DonePlan DEF KeepsDueDates, PlanResult
  <2>4. /\ Whole(shown, o) = Whole(PlanResult, o)
        /\ PiecesIn(shown, o) = PiecesIn(PlanResult, o)
        /\ InTime(shown, o) = InTime(PlanResult, o)
        BY <2>2 DEF Whole, PiecesIn, PlanResult, InTime
  <2>5. InTime(PlanResult, o) <=> ~IsLate(PlanResult, o)
        BY <2>1, <2>3 DEF Accounts, KeepsDueDates, InTime, PiecesIn
  <2>6. InTime(baseline, o) <=> ~IsLate(baseline, o)
        BY <2>1, <2>2 DEF Accounts, KeepsDueDates, InTime, PiecesIn
  <2>7. IsLate(shown, o) <=> IsLate(PlanResult, o) /\ ~IsLate(baseline, o)
    <3>1. o # Draft
          BY DEF Pending
    <3> QED
        BY <2>2, <3>1 DEF IsLate, ConflictsShown, IsNew
  <2> QED
      BY <2>4, <2>5, <2>6, <2>7
<1> QED
    BY <1>1, PreviewInvariance, PTL

\* Some numbers of a list have a greatest.
LEMMA LastOfList ==
    ASSUME NEW n \in Nat, NEW S \in SUBSET (1 .. n), S # {}
    PROVE  \E i \in S : \A k \in S : k <= i
<1> DEFINE Bounds == {m \in Nat : \A k \in S : k <= m}
<1>1. n \in Bounds /\ Bounds \subseteq Nat
      OBVIOUS
<1>2. PICK m \in Bounds : \A b \in Bounds : m <= b
  <2> HIDE DEF Bounds
  <2> QED
      BY <1>1, LeastNumber
<1>3. SUFFICES ASSUME m \notin S
               PROVE  FALSE
      BY <1>2
<1>4. m - 1 \in Bounds
  <2>1. ASSUME NEW k \in S
        PROVE  k \in Nat /\ k >= 1 /\ k <= m - 1
    <3>1. k \in Nat /\ k >= 1 /\ k <= m /\ m \in Nat
          BY <1>2
    <3>2. k # m
          BY <1>3
    <3> QED
        BY <3>1, <3>2
  <2>2. m \in Nat /\ m >= 1
    <3>1. PICK k \in S : TRUE
          OBVIOUS
    <3>2. k \in Nat /\ k >= 1 /\ k <= m - 1
          BY <2>1
    <3>3. m \in Nat
          BY <1>2
    <3> QED
        BY <3>2, <3>3
  <2> QED
      BY <2>1, <2>2
<1> QED
    BY <1>2, <1>4

\* A draft that is not shown as late is planned as a whole, and the last of its
\* days is the finish date that is shown.
THEOREM FinishDatesAreKept == PreviewSpec => []FinishDateIsKept
<1>1. ASSUME PreviewInv
      PROVE  FinishDateIsKept
  <2>1. SUFFICES ASSUME pass = "shown", HasDraft, ~IsLate(shown, Draft)
                 PROVE  /\ Whole(shown, Draft)
                        /\ \A i \in PiecesIn(shown, Draft) :
                              shown.allocations[i].day <= shown.finishDate
                        /\ \E i \in PiecesIn(shown, Draft) :
                              shown.allocations[i].day = shown.finishDate
        BY DEF FinishDateIsKept
  <2>2. /\ request = asked /\ pc = "done" /\ IInv
        /\ shown = [allocations |-> allocations, conflicts |-> ConflictsShown,
                    finishDate |-> DraftFinish]
        /\ Draft \in DOMAIN request.orders
        BY <1>1, <2>1 DEF PreviewInv, Passes, PlanShown, HasDraft
  <2>3. PiecesIn(shown, Draft) = DraftPieces
        BY <2>2 DEF PiecesIn, DraftPieces
  <2>4. ~Late(Draft)
        BY <2>1, <2>2 DEF Late, IsLate, ConflictsShown, PlanResult
  <2>5. Placed(Draft) = request.orders[Draft].quantity
        BY <2>2, <2>4, DonePlan
  <2>6. Whole(shown, Draft)
        BY <2>2, <2>5 DEF Whole, PiecesIn, Placed
  <2>7. DraftPieces # {}
    <3>1. request.orders[Draft].quantity > 0
          BY <2>2, RequestFields DEF IInv, TypeOK, IsRequest, OrderInput
    <3>2. DraftPieces = {} => Placed(Draft) = 0
          BY WafersEmpty DEF DraftPieces, Placed
    <3> QED
        BY <2>5, <3>1, <3>2
  <2> DEFINE last == CHOOSE i \in DraftPieces : \A k \in DraftPieces : k <= i
  <2>8. last \in DraftPieces /\ \A k \in DraftPieces : k <= last
    <3>1. /\ DraftPieces \in SUBSET (1 .. Len(allocations))
          /\ Len(allocations) \in Nat
          BY <2>2 DEF DraftPieces, IInv, TypeOK
    <3>2. \E i \in DraftPieces : \A k \in DraftPieces : k <= i
          BY <2>7, <3>1, LastOfList
    <3> QED
        BY <3>2
  <2>9. DraftFinish = allocations[last].day
        BY <2>7 DEF DraftFinish
  <2> HIDE DEF last
  <2>10. ASSUME NEW i \in DraftPieces
         PROVE  allocations[i].day <= allocations[last].day
    <3>1. /\ i \in DOMAIN allocations /\ last \in DOMAIN allocations
          /\ allocations[i].order = allocations[last].order
          /\ i \in Nat /\ last \in Nat
          BY <2>2, <2>8 DEF DraftPieces, IInv, TypeOK
    <3>2. allocations[i].day \in Nat /\ allocations[last].day \in Nat
          BY <2>2, <3>1, PieceFields DEF IInv
    <3>3. i = last \/ i < last
          BY <2>8, <3>1
    <3> QED
        BY <2>2, <3>1, <3>2, <3>3 DEF IInv, DaysRise
  <2> QED
      BY <2>2, <2>3, <2>6, <2>8, <2>9, <2>10
<1> QED
    BY <1>1, PreviewInvariance, PTL
=============================================================================
