---------------------------- MODULE MCOrderStore ----------------------------
EXTENDS OrderStore, TLC

Line == "L1"

Ann == [subject |-> "ann", role |-> "sales", line |-> ""]
Bob == [subject |-> "bob", role |-> "sales", line |-> ""]
Sam == [subject |-> "sam", role |-> "scheduler", line |-> Line]

MCCapacity == Line :> 2

MCSales == {Ann}
MCSchedulers == {Sam}

Want(quantity, high, due) ==
    [line |-> Line, quantity |-> quantity, high |-> high, due |-> due]

MCWants == {Want(3, FALSE, 3)}
MCDrafts == {Want(2, TRUE, 2)}
MCOptions == {[force |-> f, late |-> FALSE] : f \in BOOLEAN} \cup {[force |-> FALSE, late |-> TRUE]}
MCChanges == {[quantity |-> 2, due |-> 0]}
=============================================================================
