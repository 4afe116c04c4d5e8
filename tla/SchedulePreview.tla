--------------------------- MODULE SchedulePreview ---------------------------
(***************************************************************************)
(* runSchedulePlan: what a preview shows.  A sales preview of a draft order *)
(* plans twice, first the pending orders without the draft (the baseline)  *)
(* and then with it, and hides the conflicts that exist without the draft. *)
(* Any other preview is one plan.                                          *)
(***************************************************************************)
EXTENDS Scheduler

CONSTANT Draft   \* previewDraftOrderID, which sorts after every order id

WithoutDraft(r) ==
    [r EXCEPT !.orders = [o \in DOMAIN r.orders \ {Draft} |-> r.orders[o]]]

ASSUME DraftAssumption ==
    /\ Draft \in Nat
    /\ \A r \in Requests :
          /\ \A o \in DOMAIN r.orders : o <= Draft
          /\ WithoutDraft(r) \in Requests

VARIABLES
    asked,      \* the request of the preview
    pass,       \* "baseline", "plan" or "shown"
    baseline,   \* the result of the first plan
    shown       \* the result of the preview

previewVars == <<asked, pass, baseline, shown>>

\* A result lists its pieces; its conflicts are a set.
NoResult == [allocations |-> <<>>, conflicts |-> {}, finishDate |-> -1]

PlanResult ==
    [allocations |-> allocations,
     conflicts |-> {conflicts[k] : k \in DOMAIN conflicts}, finishDate |-> finishDate]

HasDraft == Draft \in DOMAIN asked.orders

PreviewInit ==
    /\ asked \in Requests
    /\ request = IF HasDraft THEN WithoutDraft(asked) ELSE asked
    /\ pass = IF HasDraft THEN "baseline" ELSE "plan"
    /\ PlanBegins
    /\ baseline = NoResult /\ shown = NoResult

PlanStep == pass # "shown" /\ Next /\ UNCHANGED previewVars

\* PlanBegins for another request, after the variables have been used.
PlanBeginsAgain(r) ==
    /\ request' = r
    /\ unread' = 1
    /\ highUsed' = EmptyMap /\ lowUsed' = EmptyMap /\ newUsed' = EmptyMap
    /\ lowByDate' = EmptyMap /\ lockedByDate' = EmptyMap
    /\ reported' = {}
    /\ pc' = "orders"
    /\ todo' = DOMAIN r.orders
    /\ order' = 0 /\ remaining' = 0 /\ day' = 0 /\ finish' = 0 /\ missing' = 0
    /\ allocations' = <<>> /\ conflicts' = <<>> /\ finishDate' = -1

\* Mutant: the ledger of the baseline is used again.
PlanWithDraft_SameLedger ==
    /\ pass = "baseline" /\ pc = "done"
    /\ pass' = "plan"
    /\ baseline' = PlanResult
    /\ request' = asked
    /\ todo' = DOMAIN asked.orders
    /\ pc' = "orders" /\ allocations' = <<>> /\ conflicts' = <<>> /\ finishDate' = -1
    /\ UNCHANGED <<asked, shown, ledgerVars, order, remaining, day, finish, missing>>

PlanWithDraft ==
    /\ pass = "baseline" /\ pc = "done"
    /\ pass' = "plan"
    /\ baseline' = PlanResult
    /\ PlanBeginsAgain(asked)
    /\ UNCHANGED <<asked, shown>>

\* Mutant: conflicts are told apart by their reason only.
IsNew_ByReason(c) == \A b \in baseline.conflicts : b.reason # c.reason

\* A conflict is the draft's if the baseline has none for the order and reason.
IsNew(c) ==
    \A b \in baseline.conflicts : b.order # c.order \/ b.reason # c.reason

ConflictsShown ==
    {c \in PlanResult.conflicts : c.order = Draft \/ IsNew(c)}

DraftPieces == {i \in DOMAIN allocations : allocations[i].order = Draft}

\* Mutant: the plan's finish date instead of the draft's.
DraftFinish_OfPlan == finishDate

\* The date of the draft's last piece in the list, or none.
DraftFinish ==
    IF DraftPieces = {} THEN -1
    ELSE LET last == CHOOSE i \in DraftPieces : \A k \in DraftPieces : k <= i
         IN  allocations[last].day

Show ==
    /\ pass = "plan" /\ pc = "done"
    /\ pass' = "shown"
    /\ shown' = IF HasDraft
                THEN [allocations |-> allocations, conflicts |-> ConflictsShown,
                      finishDate |-> DraftFinish]
                ELSE PlanResult
    /\ UNCHANGED <<vars, asked, baseline>>

PreviewNext == PlanStep \/ PlanWithDraft \/ Show

PreviewSpec == PreviewInit /\ [][PreviewNext]_<<vars, previewVars>>

(***************************************************************************)
(* Properties                                                              *)
(***************************************************************************)
PiecesIn(result, o) ==
    {i \in DOMAIN result.allocations : result.allocations[i].order = o}

Whole(result, o) ==
    Wafers(result.allocations, PiecesIn(result, o)) = asked.orders[o].quantity

IsLate(result, o) == \E c \in result.conflicts : c.order = o /\ c.reason = "late"

InTime(result, o) ==
    /\ Whole(result, o)
    /\ \A i \in PiecesIn(result, o) : result.allocations[i].day <= asked.orders[o].due

\* A draft takes no day and no wafer from an order that ranks before it: the
\* preview plans such an order exactly as the baseline does.
DraftDisplacesNobodyAhead ==
    pass = "shown" /\ HasDraft =>
        \A o \in DOMAIN asked.orders : Before(o, Draft) =>
            {shown.allocations[i] : i \in PiecesIn(shown, o)}
                = {baseline.allocations[i] : i \in PiecesIn(baseline, o)}

\* "flags pending orders that the new draft would push past their due date"
\* (README.md): unless late completion is asked for, the pending orders shown
\* as late are exactly those that are in time without the draft and not with it.
PushedOrdersAreFlagged ==
    pass = "shown" /\ HasDraft /\ ~asked.allowLate =>
        \A o \in DOMAIN asked.orders \ {Draft} :
            IsLate(shown, o) <=> InTime(baseline, o) /\ ~InTime(shown, o)

\* The finish date shown is a promise: unless the preview reports the draft as
\* late, all of it is placed by that date, and its last piece on that date.
FinishDateIsKept ==
    pass = "shown" /\ HasDraft /\ ~IsLate(shown, Draft) =>
        /\ Whole(shown, Draft)
        /\ \A i \in PiecesIn(shown, Draft) :
              shown.allocations[i].day <= shown.finishDate
        /\ \E i \in PiecesIn(shown, Draft) :
              shown.allocations[i].day = shown.finishDate
=============================================================================
