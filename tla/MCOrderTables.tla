---------------------------- MODULE MCOrderTables ----------------------------
EXTENDS OrderTables, TLC

Line == "L1"

Ann == [subject |-> "ann", role |-> "sales", line |-> ""]
Sam == [subject |-> "sam", role |-> "scheduler", line |-> Line]

MCClaims == {Ann, Sam}

Symmetric == Permutations(Requests)

MCCapacity == Line :> 4

Want(quantity, high, due) ==
    [line |-> Line, quantity |-> quantity, high |-> high, due |-> due]

MCWants == {Want(6, FALSE, 2)}
MCDrafts == {Want(4, TRUE, 2)}
MCChanges == {[quantity |-> 5, due |-> 0]}
MCOptions == {[force |-> FALSE, late |-> FALSE]}
=============================================================================
