------------------------------ MODULE PlanOnce ------------------------------
(***************************************************************************)
(* The promise of scheduler.Plan to its callers: one answer to a request,  *)
(* which depends on nothing but the request.                               *)
(***************************************************************************)
EXTENDS Naturals, Sequences

CONSTANTS
    Requests,
    Plan(_)     \* the answer

VARIABLES
    request,
    answer      \* a sequence: empty, or the one answer

Init == request \in Requests /\ answer = <<>>

Answer ==
    /\ answer = <<>>
    /\ Len(answer') = 1
    /\ answer'[1] = Plan(request)
    /\ UNCHANGED request

Spec == Init /\ [][Answer]_<<request, answer>>
=============================================================================
