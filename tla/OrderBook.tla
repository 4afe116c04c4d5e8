------------------------------ MODULE OrderBook ------------------------------
(***************************************************************************)
(* What the order book promises a customer: the wafers of an order, with   *)
(* all the parts it is split into, are somewhere, and they only move along *)
(* the stages below.  Nothing is produced that did not go into production, *)
(* and nothing is lost or made twice when orders are planned, split,       *)
(* moved, confirmed in part or pushed back.                                *)
(***************************************************************************)
EXTENDS Integers, Functions

VARIABLE book   \* order -> stage -> wafers

Stages == {"pending", "scheduled", "inProgress", "completed", "rejected", "cancelled"}

Nothing == [s \in Stages |-> 0]

Init == book = [o \in {} |-> Nothing]

Total(page) == SumFunctionOnSet(page, Stages)

\* Wafers leave some stages and arrive at others.
Flow(page, next, from, to) ==
    /\ \A s \in from : next[s] <= page[s]
    /\ \A s \in to : next[s] >= page[s]
    /\ \A s \in Stages \ (from \cup to) : next[s] = page[s]
    /\ Total(next) = Total(page)

\* Some orders move, the others stay.
Move(from, to) ==
    /\ DOMAIN book' = DOMAIN book
    /\ \A o \in DOMAIN book : Flow(book[o], book'[o], from, to)

Schedule == Move({"pending"}, {"scheduled"})

Start == Move({"scheduled"}, {"inProgress"})

\* What is not done of an order in production waits again.
Confirm == Move({"inProgress"}, {"completed", "pending"})

Reject == Move({"pending"}, {"rejected"})

Cancel == Move({"pending", "scheduled", "rejected"}, {"cancelled"})

\* Only here does the customer's quantity change.
Amend ==
    /\ DOMAIN book' = DOMAIN book
    /\ \E o \in DOMAIN book :
          /\ book[o]["pending"] + book[o]["rejected"] > 0
          /\ \A s \in Stages \ {"pending", "rejected"} : book'[o][s] = book[o][s]
          /\ \A p \in DOMAIN book \ {o} : book'[p] = book[p]

\* A new order, pending or at once rejected, may push others back.
Place ==
    /\ \E o \in DOMAIN book' \ DOMAIN book :
          /\ DOMAIN book' = DOMAIN book \cup {o}
          /\ \E s \in {"pending", "rejected"} :
                book'[o] = [Nothing EXCEPT ![s] = book'[o][s]]
    /\ \A o \in DOMAIN book : Flow(book[o], book'[o], {"pending"}, {"rejected"})

Next == Schedule \/ Start \/ Confirm \/ Reject \/ Cancel \/ Amend \/ Place

Spec == Init /\ [][Next]_book
=============================================================================
