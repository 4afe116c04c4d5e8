-------------------------- MODULE MCSchedulePreview --------------------------
(***************************************************************************)
(* SchedulePreview on small requests: two pending orders, a draft and one  *)
(* day that is partly taken.                                               *)
(***************************************************************************)
EXTENDS SchedulePreview

\* Pending orders; the draft is as new as the newest.
PendingInputs ==
    [quantity : {1, 3}, high : BOOLEAN, due : {1, 2, 3}, createdAt : {5}]

Orders ==
    LET Drafted == [{1, 2, 9} -> PendingInputs]
    IN  Drafted \cup [{1, 2} -> PendingInputs]

Taken(locked) ==
    [order |-> 11, line |-> "A", day |-> 1, quantity |-> 1, high |-> locked,
     locked |-> locked]

MCRequests ==
    [line : {"A"}, capacity : {2}, start : {1}, currentDate : {0},
     orders : Orders, manualForce : BOOLEAN, allowLate : BOOLEAN,
     existing : {<<Taken(FALSE)>>}]
=============================================================================
