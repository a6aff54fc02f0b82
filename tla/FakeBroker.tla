------------------------------ MODULE FakeBroker ------------------------------
(***************************************************************************)
(* broker/fake.py: the in-memory broker of dry runs, tests and replay.  An *)
(* order without a parent trades at once; a child waits in                 *)
(* _pending_children until set_price crosses its trigger, trades, and      *)
(* cancels its siblings.  Calls are made one at a time; the loop of        *)
(* set_price over the children is one step per child it triggers, with     *)
(* every other call kept out until it ends.                                *)
(***************************************************************************)
EXTENDS Integers, Sequences, FiniteSets, FiniteSetsExt, Functions, Ratio

CONSTANTS
    Symbols,      \* symbols traded
    StartingNav,  \* starting_nav
    Requests,     \* orders a client may send, their parent left to the client
    Quotes,       \* prices set_price may be given
    MaxOrders     \* bound on the orders sent


VARIABLES
    requests,    \* _order_requests: the order with id i is requests[i]
    status,      \* _orders: OrderStatus.status of order i
    fillPrice,   \* OrderStatus.avg_fill_price of order i
    pending,     \* keys of _pending_children
    sweep,       \* children set_price has found triggered and not yet handled
    prices,      \* prices, with 0 for a symbol without one
    position,    \* _positions: quantity (0 when absent), avg_cost, market_price
                 \* and unrealized_pnl of each symbol
    cash,        \* _cash
    realized     \* realized_pnl

\* History: symbols a trade has carried through zero in one go.
VARIABLE crossed

broker == <<requests, status, fillPrice, pending, sweep, prices, position, cash, realized, crossed>>

NoParent == 0

\* Fields a call may leave unset are 0.
OrderRequest == [
    symbol : Symbols,
    action : {"BUY", "SELL"},
    quantity : Nat \ {0},
    order_type : {"LMT", "STP", "MKT"},
    limit_price : Nat,
    stop_price : Nat,
    parent_id : Nat]

\* Prices are cents; the instance names finitely many symbols.
ASSUME BrokerAssumption ==
    /\ IsFiniteSet(Symbols)
    /\ StartingNav \in Nat
    /\ Requests \subseteq OrderRequest
    /\ Quotes \subseteq Nat
    /\ MaxOrders \in Nat

Statuses == {"submitted", "filled", "cancelled"}
Ids == DOMAIN requests
Flat == [quantity |-> 0, avg_cost |-> Whole(0), market_price |-> 0, unrealized |-> Whole(0)]
Held == {s \in Symbols : position[s].quantity # 0}

Signed(o) == IF o.action = "BUY" THEN o.quantity ELSE -o.quantity
Magnitude(n) == IF n < 0 THEN -n ELSE n

BrokerInit ==
    /\ requests = <<>>
    /\ status = <<>>
    /\ fillPrice = <<>>
    /\ pending = {}
    /\ sweep = {}
    /\ prices = [s \in Symbols |-> 0]
    /\ position = [s \in Symbols |-> Flat]
    /\ cash = StartingNav
    /\ realized = Whole(0)
    /\ crossed = {}

-----------------------------------------------------------------------------
(* _apply_fill.                                                            *)

\* Mutant of AfterFill: every trade moves the average cost.
AfterFillAlwaysAverages(pos, signed, price) ==
    LET new == pos.quantity + signed
        average == Over(Plus(Times(pos.avg_cost, pos.quantity), Whole(price * signed)), new)
    IN  IF pos.quantity = 0
        THEN [quantity |-> signed, avg_cost |-> Whole(price), market_price |-> price,
              unrealized |-> Whole(0)]
        ELSE IF new = 0 THEN Flat
        ELSE [quantity |-> new, avg_cost |-> average, market_price |-> price,
              unrealized |-> pos.unrealized]

\* The position of a symbol after signed shares traded at price.
AfterFill(pos, signed, price) ==
    LET new == pos.quantity + signed
        average == Over(Plus(Times(pos.avg_cost, pos.quantity), Whole(price * signed)), new)
    IN  IF pos.quantity = 0
        THEN [quantity |-> signed, avg_cost |-> Whole(price), market_price |-> price,
              unrealized |-> Whole(0)]
        ELSE IF new = 0 THEN Flat
        \* The average moves only when the trade adds to the position; a trade
        \* that crosses zero keeps the old side's average.
        ELSE [quantity |-> new,
              avg_cost |-> IF (pos.quantity > 0) = (signed > 0) THEN average ELSE pos.avg_cost,
              market_price |-> price,
              unrealized |-> pos.unrealized]

\* What the trade realizes: the shares it closes against the average cost.
Realizes(pos, signed, price) ==
    IF pos.quantity # 0 /\ (pos.quantity > 0) # (signed > 0)
    THEN LET shares == Magnitude(signed)
             open == Magnitude(pos.quantity)
             closed == IF shares < open THEN shares ELSE open
             side == IF pos.quantity > 0 THEN 1 ELSE -1
         IN  Times(Plus(Whole(price), Times(pos.avg_cost, -1)), closed * side)
    ELSE Whole(0)

ApplyFill(o, price) ==
    /\ position' = [position EXCEPT ![o.symbol] = AfterFill(@, Signed(o), price)]
    /\ realized' = Plus(realized, Realizes(position[o.symbol], Signed(o), price))
    /\ cash' = cash - price * Signed(o)
    /\ crossed' = IF position[o.symbol].quantity * (position[o.symbol].quantity + Signed(o)) < 0
                  THEN crossed \cup {o.symbol} ELSE crossed

-----------------------------------------------------------------------------
(* The calls of the broker.                                                *)

\* The id place_order gives the next order.
NextId == Len(requests) + 1

\* place_order of a bracket child: it waits for its trigger.
PlaceChild(o) ==
    /\ sweep = {}
    /\ o.parent_id # NoParent
    /\ requests' = Append(requests, o)
    /\ status' = Append(status, "submitted")
    /\ fillPrice' = Append(fillPrice, 0)
    /\ pending' = pending \cup {NextId}
    /\ UNCHANGED <<sweep, prices, position, cash, realized, crossed>>

\* place_order of any other order: it fills at its limit, else at the last price.
PlaceAndFill(o) ==
    LET price == IF o.limit_price # 0 THEN o.limit_price ELSE prices[o.symbol]
    IN  /\ sweep = {}
        /\ o.parent_id = NoParent
        /\ requests' = Append(requests, o)
        /\ status' = Append(status, "filled")
        /\ fillPrice' = Append(fillPrice, price)
        /\ ApplyFill(o, price)
        /\ UNCHANGED <<pending, sweep, prices>>

PlaceOrder(o) == PlaceChild(o) \/ PlaceAndFill(o)

\* Whether a price makes a waiting child trade.
Triggered(o, price) ==
    \/ /\ o.order_type = "STP"
       /\ IF o.action = "SELL" THEN price <= o.stop_price ELSE price >= o.stop_price
    \/ /\ o.order_type = "LMT"
       /\ IF o.action = "SELL" THEN price >= o.limit_price ELSE price <= o.limit_price

\* set_price up to its loop: mark the position, find the triggered children.
SetPrice(s, price) ==
    /\ sweep = {}
    /\ prices' = [prices EXCEPT ![s] = price]
    /\ position' =
         IF position[s].quantity = 0 THEN position
         ELSE [position EXCEPT ![s] =
                 [quantity |-> @.quantity, avg_cost |-> @.avg_cost, market_price |-> price,
                  unrealized |-> Times(Plus(Whole(price), Times(@.avg_cost, -1)), @.quantity)]]
    /\ sweep' = {i \in pending : requests[i].symbol = s /\ Triggered(requests[i], price)}
    /\ UNCHANGED <<requests, status, fillPrice, pending, cash, realized, crossed>>

\* Mutant of Siblings: the children of a bracket are not linked.
NoSiblings(i) == {k \in pending : k # i /\ k = requests[k].parent_id}

Siblings(i) == {k \in pending \ {i} : requests[k].parent_id = requests[i].parent_id}

\* The loop of set_price, one child per step in the order they were placed:
\* _fill_pending_child trades it and cancels its siblings.
FillChild ==
    LET i == Min(sweep)
        price == prices[requests[i].symbol]
    IN  /\ sweep # {}
        /\ i \in pending
        /\ pending' = pending \ (Siblings(i) \cup {i})
        /\ status' = [k \in Ids |->
                        IF k = i THEN "filled"
                        ELSE IF k \in Siblings(i) THEN "cancelled" ELSE status[k]]
        /\ fillPrice' = [fillPrice EXCEPT ![i] = price]
        /\ ApplyFill(requests[i], price)
        /\ sweep' = sweep \ {i}
        /\ UNCHANGED <<requests, prices>>

\* A child that its sibling's fill removed from _pending_children: `del` raises
\* KeyError and set_price gives up on the children it had left.
SweepRaises ==
    /\ sweep # {}
    /\ Min(sweep) \notin pending
    /\ sweep' = {}
    /\ UNCHANGED <<requests, status, fillPrice, pending, prices, position, cash, realized, crossed>>

\* Mutant of CancelOrder: the order stays in _pending_children.
CancelLeavesPending(i) ==
    /\ sweep = {}
    /\ i \in Ids
    /\ status' = [status EXCEPT ![i] = IF @ \in {"filled", "cancelled"} THEN @ ELSE "cancelled"]
    /\ UNCHANGED <<requests, fillPrice, pending, sweep, prices, position, cash, realized, crossed>>

\* cancel_order.
CancelOrder(i) ==
    /\ sweep = {}
    /\ i \in Ids
    /\ status' = [status EXCEPT ![i] = IF @ \in {"filled", "cancelled"} THEN @ ELSE "cancelled"]
    /\ pending' = pending \ {i}
    /\ UNCHANGED <<requests, fillPrice, sweep, prices, position, cash, realized, crossed>>

\* cancel_all.
CancelAll ==
    /\ sweep = {}
    /\ status' = [i \in Ids |->
                    IF status[i] \in {"filled", "cancelled"} THEN status[i] ELSE "cancelled"]
    /\ pending' = {}
    /\ UNCHANGED <<requests, fillPrice, sweep, prices, position, cash, realized, crossed>>

\* account_summary: nav and day_pnl, the latter as a fraction.
Equity == cash + SumFunction([s \in Symbols |-> position[s].market_price * position[s].quantity])

DayPnl == FoldSet(LAMBDA s, sum : Plus(sum, position[s].unrealized), realized, Held)

-----------------------------------------------------------------------------
(* A client that calls the broker in any order.                            *)

\* The engine gives a child the id of an order it placed as an entry.
Entries == {i \in Ids : requests[i].parent_id = NoParent}

BrokerNext ==
    \/ \E o \in Requests, p \in {NoParent} \cup Entries :
          NextId <= MaxOrders /\ PlaceOrder([o EXCEPT !.parent_id = p])
    \/ \E s \in Symbols, q \in Quotes : SetPrice(s, q)
    \/ FillChild
    \/ SweepRaises
    \/ \E i \in Ids : CancelOrder(i)
    \/ CancelAll

BrokerSpec == BrokerInit /\ [][BrokerNext]_broker

-----------------------------------------------------------------------------
(* Properties.                                                             *)

Position == [quantity : Int, avg_cost : Fraction, market_price : Nat, unrealized : Fraction]

\* Every variable has its type.
BrokerTypeOK ==
    /\ requests \in Seq(OrderRequest)
    /\ status \in [Ids -> Statuses]
    /\ fillPrice \in [Ids -> Nat]
    /\ pending \subseteq Ids
    /\ sweep \subseteq Ids
    /\ prices \in [Symbols -> Nat]
    /\ position \in [Symbols -> Position]
    /\ cash \in Int
    /\ realized \in Fraction
    /\ crossed \subseteq Symbols

\* _orders and _pending_children agree: the children waiting are exactly the
\* orders still open, so a cancelled order never fills and open_orders() lists
\* every order that can.
PendingIsOpen == pending = {i \in Ids : status[i] = "submitted"}

Filled == {i \in Ids : status[i] = "filled"}
FilledIn(s) == {i \in Filled : requests[i].symbol = s}

SharesBalance ==
    \A s \in Symbols :
        position[s].quantity = SumFunctionOnSet([i \in Ids |-> Signed(requests[i])], FilledIn(s))

CashBalances ==
    cash = StartingNav - SumFunctionOnSet([i \in Ids |-> fillPrice[i] * Signed(requests[i])], Filled)

Costs == [s \in Symbols |-> Times(position[s].avg_cost, position[s].quantity)]

CostBalances ==
    crossed = {} => Equals(Plus(Whole(cash), FoldFunction(Plus, Whole(0), Costs)),
                           Plus(Whole(StartingNav), realized))

\* The shares held and the cash are what the filled orders add up to; and
\* realized_pnl and the average costs account for every unit of cash spent, as
\* long as no trade has carried a position through zero.
BooksBalance == SharesBalance /\ CashBalances /\ CostBalances

\* The inductive invariant: with the status of every order known, a call adds
\* to _pending_children, or takes out of it, exactly the orders it opens or closes.
BrokerIInv == BrokerTypeOK /\ PendingIsOpen

\* The broker is an order book whose groups are the children of one parent: a
\* child trades only while it waits, and in that step every sibling is gone.
OB == INSTANCE OrderBook WITH
        Groups <- 0..MaxOrders,
        book <- status,
        group <- [i \in Ids |-> requests[i].parent_id]
IsOrderBook == OB!Spec
=============================================================================
