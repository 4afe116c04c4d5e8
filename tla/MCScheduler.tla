----------------------------- MODULE MCScheduler -----------------------------
(***************************************************************************)
(* Scheduler on small requests.                                            *)
(***************************************************************************)
EXTENDS Scheduler

(***************************************************************************)
(* Requests: two orders compete for a line of two wafers a day, next to at *)
(* most two existing allocations.                                          *)
(***************************************************************************)
OrderInputs ==
    [quantity : {1, 3}, high : BOOLEAN, due : {1, 2}, createdAt : {5, 6}]

\* High priority is locked from the start, low priority once in production.
ExistingAllocations ==
    {a \in [order : {11, 12}, line : {"A", "B"}, day : {1, 2},
            quantity : {1, 2}, high : BOOLEAN, locked : BOOLEAN] :
        /\ a.high => a.locked
        /\ a.line = "B" => a.order = 11 /\ a.day = 1 /\ ~a.locked
        /\ a.order = 12 => a.day = 1}

SmallRequests ==
    [line : {"A"}, capacity : {2}, start : {1}, currentDate : {-1},
     orders : [{1, 2} -> OrderInputs], manualForce : {FALSE}, allowLate : BOOLEAN,
     existing : {<<>>}]

\* One order, everything around it.
CrowdedRequests ==
    [line : {"A"}, capacity : {2}, start : {0, 1}, currentDate : {-1, 1},
     orders : [{1} -> [quantity : {1, 3}, high : BOOLEAN, due : {1, 2}, createdAt : {5}]],
     manualForce : BOOLEAN, allowLate : BOOLEAN,
     existing : [1..2 -> ExistingAllocations]]

\* Two orders and one existing allocation.
MixedRequests ==
    [line : {"A"}, capacity : {2}, start : {1}, currentDate : {0},
     orders : [{1, 2} -> [quantity : {1, 3}, high : BOOLEAN, due : {1, 2}, createdAt : {5}]],
     manualForce : BOOLEAN, allowLate : BOOLEAN,
     existing : [1..1 -> ExistingAllocations]]

MCRequests == SmallRequests \cup CrowdedRequests \cup MixedRequests
=============================================================================
