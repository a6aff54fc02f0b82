------------------------------ MODULE OrderBook ------------------------------
(***************************************************************************)
(* The life of an OrderStatus (broker/base.py), without the positions and  *)
(* the cash behind it: an order is submitted or trades at once; a working  *)
(* order trades and takes its group with it, or is cancelled; nothing ever *)
(* leaves "filled" or "cancelled".  FakeBroker is shown to implement it.   *)
(***************************************************************************)
EXTENDS Naturals, Sequences

CONSTANT Groups   \* the groups an order may belong to; 0 is no group

VARIABLES
    book,   \* the status of each order, by id
    group   \* the group of each order, by id

Init == book = <<>> /\ group = <<>>

Working == {i \in DOMAIN book : book[i] = "submitted"}

Submit ==
    \E g \in Groups :
        /\ book' = Append(book, IF g = 0 THEN "filled" ELSE "submitted")
        /\ group' = Append(group, g)

Trade ==
    \E i \in Working :
        /\ book' = [k \in DOMAIN book |->
                      IF k = i THEN "filled"
                      ELSE IF k \in Working /\ group[k] = group[i] THEN "cancelled"
                      ELSE book[k]]
        /\ UNCHANGED group

Withdraw ==
    \E S \in SUBSET Working :
        /\ book' = [k \in DOMAIN book |-> IF k \in S THEN "cancelled" ELSE book[k]]
        /\ UNCHANGED group

Next == Submit \/ Trade \/ Withdraw

Spec == Init /\ [][Next]_<<book, group>>
=============================================================================
