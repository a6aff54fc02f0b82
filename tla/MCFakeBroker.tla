----------------------------- MODULE MCFakeBroker -----------------------------
(* One symbol: entries of both sides and an exit pair whose triggers meet.    *)
EXTENDS FakeBroker, TLC

CONSTANT sym

Order(action, quantity, type, limit, stop) ==
    [symbol |-> sym, action |-> action, quantity |-> quantity, order_type |-> type,
     limit_price |-> limit, stop_price |-> stop, parent_id |-> NoParent]

MCRequests ==
    { Order("BUY", 2, "LMT", 10, 0), Order("SELL", 1, "MKT", 0, 0),
      Order("SELL", 2, "STP", 0, 9), Order("SELL", 2, "LMT", 12, 0),
      Order("BUY", 1, "STP", 0, 12) }
=============================================================================
