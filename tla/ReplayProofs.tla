------------------------------ MODULE ReplayProofs ------------------------------
(***************************************************************************)
(* Theorems about backtest/replay.py on the in-memory broker, for every    *)
(* set of signals, bars and limits and any number of dates.                *)
(*                                                                         *)
(* ReplayIInv says what an order at the guard is: a sale of all of the     *)
(* open trade of its symbol, or a purchase at the entry of its signal      *)
(* (AttemptInv), of a symbol that is marked at the order's price           *)
(* (MarkedInv).  So an order that trades changes the table by what it      *)
(* changes in the books, and an exit sells shares that are held.           *)
(*                                                                         *)
(* For the loss limit, a fill at the price its symbol is marked at moves   *)
(* the result of the position to the realized one, or moves none           *)
(* (DayAfterFill), and leaves the equity as it was (EquityStays).  So what *)
(* the guard checked before the fill holds after it.  The broker adds the  *)
(* results up with a fold that takes the positions in any order, in        *)
(* fractions whose terms depend on that order; PnlAnyOrder and PnlBase     *)
(* show that the sum does not.                                             *)
(*                                                                         *)
(* The last section is about the strategies whose signals the replay       *)
(* enters, for every series of bars and all windows.                       *)
(***************************************************************************)
EXTENDS Replay, EquitySignals, FakeBrokerProofs

-----------------------------------------------------------------------------
(* What the replay's calls of the broker do.                               *)

\* The invariant knows the types, and that nothing waits.
LEMMA Typed ==
    ASSUME ReplayIInv
    PROVE  /\ BrokerIInv /\ BrokerTypeOK
           /\ pending = {} /\ sweep = {}
           /\ position \in [Symbols -> Position] /\ realized \in Fraction /\ cash \in Int
           /\ trades \in [Symbols -> Trade] /\ closed \in Int
           /\ date \in 0..MaxDates /\ phase \in Phases /\ bar \in [Symbols -> Bars \cup {NoBar}]
           /\ todo \subseteq Symbols /\ tried \subseteq Signals
           /\ attempt.kind \in {"none", "exit", "entry"}
  BY DEF ReplayIInv, ExitsAreCovered, TypeOK, BrokerTypeOK, BrokerIInv

\* set_price before an order, or for the close: nothing waits, so nothing trades,
\* and the position of the symbol, if there is one, is marked.
LEMMA PriceMarks ==
    ASSUME ReplayIInv, NEW s \in Symbols, NEW price \in Nat, SetPrice(s, price)
    PROVE  /\ BrokerIInv' /\ pending' = {} /\ sweep' = {} /\ crossed' = crossed
           /\ realized' = realized
           /\ \A u \in Symbols : /\ position'[u].quantity = position[u].quantity
                                 /\ position'[u].avg_cost = position[u].avg_cost
           /\ position[s].quantity # 0 =>
                 /\ position'[s].market_price = price
                 /\ position'[s].unrealized =
                       Times(Plus(Whole(price), Times(position[s].avg_cost, -1)), position[s].quantity)
<1>1. BrokerIInv' /\ \A u \in Symbols : position'[u].quantity = position[u].quantity
  BY Typed, PriceSet
<1>2. pending' = {} /\ sweep' = {} /\ crossed' = crossed /\ realized' = realized
  BY Typed DEF SetPrice
<1> DEFINE marked == [quantity |-> position[s].quantity, avg_cost |-> position[s].avg_cost,
                      market_price |-> price,
                      unrealized |-> Times(Plus(Whole(price), Times(position[s].avg_cost, -1)),
                                           position[s].quantity)]
<1>3. position' = IF position[s].quantity = 0 THEN position ELSE [position EXCEPT ![s] = marked]
  BY Typed DEF SetPrice
<1>4. position \in [Symbols -> Position]
  BY Typed
<1>5. /\ marked.avg_cost = position[s].avg_cost /\ marked.market_price = price
      /\ marked.unrealized = Times(Plus(Whole(price), Times(position[s].avg_cost, -1)),
                                   position[s].quantity)
  OBVIOUS
<1> HIDE DEF marked
<1>6. \A u \in Symbols : position'[u].avg_cost = position[u].avg_cost
  BY <1>3, <1>4, <1>5
<1>7. position[s].quantity # 0 => position'[s] = marked
  BY <1>3, <1>4
<1> QED
  BY <1>1, <1>2, <1>5, <1>6, <1>7

\* An order that the guard let through trades at its limit.
LEMMA OrderTrades ==
    ASSUME ReplayIInv, NEW o \in OrderRequest, o.limit_price # 0, PlaceAndFill(o)
    PROVE  /\ BrokerIInv' /\ pending' = {} /\ sweep' = {}
           /\ ApplyFill(o, o.limit_price)
           /\ o.symbol \in Symbols
           /\ position' = [position EXCEPT ![o.symbol] =
                              AfterFill(position[o.symbol], Signed(o), o.limit_price)]
           /\ \A s \in Symbols : position'[s].quantity =
                 position[s].quantity + (IF s = o.symbol THEN Signed(o) ELSE 0)
<1>1. BrokerIInv'
  BY Typed, OrderFilled
<1>2. pending' = {} /\ sweep' = {} /\ ApplyFill(o, o.limit_price)
  BY Typed DEF PlaceAndFill
<1>3. o.symbol \in Symbols /\ o.limit_price \in Nat
  BY DEF OrderRequest
<1>4. position' = [position EXCEPT ![o.symbol] =
                      AfterFill(position[o.symbol], Signed(o), o.limit_price)]
  BY <1>2 DEF ApplyFill
<1>5. \A s \in Symbols : position'[s].quantity =
                 position[s].quantity + (IF s = o.symbol THEN Signed(o) ELSE 0)
  BY <1>2, <1>3, Typed, FillMoves
<1> QED
  BY <1>1, <1>2, <1>3, <1>4, <1>5

-----------------------------------------------------------------------------
(* The steps that leave the broker alone.                                  *)

\* A step that leaves the broker and the table alone keeps what the invariant
\* says of them, as long as the order at the guard stays or goes.
LEMMA BooksUntouched ==
    ASSUME ReplayIInv, UNCHANGED <<broker, table>>
    PROVE  /\ BrokerTypeOK' /\ PendingIsOpen' /\ crossed' = {} /\ pending' = {} /\ sweep' = {}
           /\ trades' \in [Symbols -> Trade] /\ closed' \in Int
           /\ TradesExplainBooks'
           /\ \A s \in Symbols : position'[s].quantity >= trades'[s].quantity
           /\ \A s \in Symbols : trades'[s] # NoTrade =>
                 trades'[s].quantity > 0 /\ trades'[s].stop > 0 /\ trades'[s].target > 0
<1>1. /\ requests' = requests /\ status' = status /\ fillPrice' = fillPrice /\ pending' = pending
      /\ sweep' = sweep /\ prices' = prices /\ position' = position /\ cash' = cash
      /\ realized' = realized /\ crossed' = crossed
      /\ trades' = trades /\ closed' = closed /\ doubled' = doubled
  BY DEF broker, table
<1>2. BrokerTypeOK' /\ PendingIsOpen'
  BY <1>1, Typed DEF ReplayIInv, BrokerTypeOK, PendingIsOpen, Ids
<1>3. TradesExplainBooks'
  BY <1>1 DEF ReplayIInv, TradesExplainBooks
<1> QED
  BY <1>1, <1>2, <1>3, Typed DEF ReplayIInv, ExitsAreCovered, TableInv

\* The steps between the orders.
LEMMA QuietSteps ==
    ASSUME ReplayIInv,
           \/ NewDate \/ BeginExits \/ BeginEntries \/ RejectExit \/ RejectEntry
           \/ \E s \in Symbols : KeepTrade(s)
           \/ \E g \in Signals : SkipSignal(g)
    PROVE  ReplayIInv'
<1>1. UNCHANGED <<broker, table>>
  BY DEF NewDate, BeginExits, BeginEntries, RejectExit, RejectEntry, KeepTrade, SkipSignal, Takes
<1>2. /\ BrokerTypeOK' /\ PendingIsOpen' /\ crossed' = {} /\ pending' = {} /\ sweep' = {}
      /\ trades' \in [Symbols -> Trade] /\ closed' \in Int
      /\ TradesExplainBooks'
      /\ \A s \in Symbols : position'[s].quantity >= trades'[s].quantity
      /\ \A s \in Symbols : trades'[s] # NoTrade =>
            trades'[s].quantity > 0 /\ trades'[s].stop > 0 /\ trades'[s].target > 0
  BY <1>1, BooksUntouched
<1>3. attempt' = NoAttempt
  BY Typed DEF NewDate, BeginExits, BeginEntries, RejectExit, RejectEntry, KeepTrade, SkipSignal,
               Takes, ReplayIInv, AttemptInv
<1>4. /\ date' \in 0..MaxDates /\ phase' \in Phases /\ bar' \in [Symbols -> Bars \cup {NoBar}]
      /\ todo' \subseteq Symbols /\ tried' \subseteq Signals
      /\ attempt'.kind \in {"none", "exit", "entry"}
  <2>1. date' = date \/ (date' = date + 1 /\ date < MaxDates)
    BY DEF NewDate, BeginExits, BeginEntries, RejectExit, RejectEntry, KeepTrade, SkipSignal, Takes, loop
  <2>2. date' \in 0..MaxDates
    BY <2>1, Typed, ReplayAssumption
  <2>3. /\ phase' \in Phases /\ bar' \in [Symbols -> Bars \cup {NoBar}]
        /\ todo' \subseteq Symbols /\ tried' \subseteq Signals
    BY Typed DEF NewDate, BeginExits, BeginEntries, RejectExit, RejectEntry, KeepTrade, SkipSignal,
                 Takes, loop, Phases
  <2> QED
    BY <1>3, <2>2, <2>3 DEF NoAttempt
<1>5. \A s \in todo' : bar'[s] \in Bars /\ (phase' = "exit" => trades'[s] # NoTrade)
  BY <1>1, Typed DEF NewDate, BeginExits, BeginEntries, RejectExit, RejectEntry, KeepTrade, SkipSignal,
               Takes, loop, table, ReplayIInv, TableInv
<1>6. ExitsAreCovered'
  BY <1>2, <1>4 DEF ExitsAreCovered, TypeOK
<1>7. TableInv' /\ AttemptInv' /\ MarkedInv'
  BY <1>2, <1>3, <1>5 DEF TableInv, AttemptInv, MarkedInv
<1> QED
  BY <1>2, <1>6, <1>7 DEF ReplayIInv

\* A step that changes no variable.
LEMMA Stutter == ASSUME ReplayIInv, UNCHANGED vars PROVE ReplayIInv'
<1>1. UNCHANGED <<broker, table>>
  BY DEF vars
<1>2. /\ date' = date /\ phase' = phase /\ bar' = bar /\ todo' = todo /\ tried' = tried
      /\ attempt' = attempt /\ position' = position /\ trades' = trades
  BY DEF vars, loop, table, broker
<1>3. /\ BrokerTypeOK' /\ PendingIsOpen' /\ crossed' = {} /\ pending' = {} /\ sweep' = {}
      /\ trades' \in [Symbols -> Trade] /\ closed' \in Int
      /\ TradesExplainBooks'
      /\ \A s \in Symbols : position'[s].quantity >= trades'[s].quantity
      /\ \A s \in Symbols : trades'[s] # NoTrade =>
            trades'[s].quantity > 0 /\ trades'[s].stop > 0 /\ trades'[s].target > 0
  BY <1>1, BooksUntouched
<1>4. ExitsAreCovered'
  BY <1>2, <1>3, Typed DEF ExitsAreCovered, TypeOK
<1>5. TableInv' /\ MarkedInv'
  BY <1>2, <1>3 DEF TableInv, MarkedInv, ReplayIInv
<1>6. AttemptInv'
  BY <1>2 DEF AttemptInv, ReplayIInv
<1> QED
  BY <1>3, <1>4, <1>5, <1>6 DEF ReplayIInv

-----------------------------------------------------------------------------
(* The steps that set a price.                                             *)

\* A new price keeps what the invariant says of the broker and the table.
LEMMA PriceKeeps ==
    ASSUME ReplayIInv, NEW s \in Symbols, NEW price \in Nat, SetPrice(s, price), UNCHANGED table
    PROVE  /\ BrokerTypeOK' /\ PendingIsOpen' /\ crossed' = {} /\ pending' = {} /\ sweep' = {}
           /\ trades' = trades /\ trades' \in [Symbols -> Trade] /\ closed' \in Int
           /\ TradesExplainBooks'
           /\ \A u \in Symbols : position'[u].quantity >= trades'[u].quantity
<1>1. /\ BrokerIInv' /\ pending' = {} /\ sweep' = {} /\ crossed' = crossed
      /\ realized' = realized
      /\ \A u \in Symbols : /\ position'[u].quantity = position[u].quantity
                            /\ position'[u].avg_cost = position[u].avg_cost
  BY PriceMarks
<1>2. trades' = trades /\ closed' = closed /\ doubled' = doubled
  BY DEF table
<1>3. TradesExplainBooks'
  BY <1>1, <1>2 DEF ReplayIInv, TradesExplainBooks
<1>4. BrokerTypeOK' /\ PendingIsOpen'
  BY <1>1 DEF BrokerIInv
<1> QED
  BY <1>1, <1>2, <1>3, <1>4, Typed DEF ReplayIInv, ExitsAreCovered

\* A close is marked.
LEMMA MarkStep == ASSUME ReplayIInv, NEW s \in Symbols, MarkClose(s) PROVE ReplayIInv'
<1>1. bar[s].close \in Nat /\ attempt = NoAttempt
  BY ReplayAssumption DEF MarkClose, ReplayIInv, TableInv, AttemptInv
<1>2. SetPrice(s, bar[s].close) /\ UNCHANGED table
  BY DEF MarkClose
<1>3. /\ BrokerTypeOK' /\ PendingIsOpen' /\ crossed' = {} /\ pending' = {} /\ sweep' = {}
      /\ trades' = trades /\ trades' \in [Symbols -> Trade] /\ closed' \in Int
      /\ TradesExplainBooks'
      /\ \A u \in Symbols : position'[u].quantity >= trades'[u].quantity
  BY <1>1, <1>2, PriceKeeps
<1>4. /\ date' = date /\ phase' = phase /\ bar' = bar /\ todo' \subseteq todo /\ tried' = tried
      /\ attempt' = NoAttempt
  BY <1>1 DEF MarkClose
<1>5. ExitsAreCovered'
  BY <1>3, <1>4, Typed DEF ExitsAreCovered, TypeOK, NoAttempt
<1>6. TableInv'
  BY <1>3, <1>4 DEF TableInv, ReplayIInv
<1>7. AttemptInv' /\ MarkedInv'
  BY <1>4 DEF AttemptInv, MarkedInv
<1> QED
  BY <1>3, <1>5, <1>6, <1>7 DEF ReplayIInv

\* An exit is sent to the guard.
LEMMA TryExitStep == ASSUME ReplayIInv, NEW s \in Symbols, TryExit(s) PROVE ReplayIInv'
<1>1. trades[s] # NoTrade /\ phase = "exit" /\ s \in todo
  BY DEF TryExit, ReplayIInv, TableInv
<1>2. PICK price \in Nat \ {0} : price = ExitPrice(s)
  <2>1. trades[s] \in Trade /\ trades[s].stop \in Nat \ {0} /\ trades[s].target \in Nat \ {0}
    BY <1>1, Typed DEF Trade, ReplayIInv, TableInv
  <2>2. ExitPrice(s) \in {trades[s].stop, trades[s].target, 0} /\ ExitPrice(s) # 0
    BY DEF ExitPrice, TryExit
  <2> QED
    BY <2>1, <2>2
<1>3. SetPrice(s, price) /\ UNCHANGED table
  BY <1>2 DEF TryExit
<1>4. /\ BrokerTypeOK' /\ PendingIsOpen' /\ crossed' = {} /\ pending' = {} /\ sweep' = {}
      /\ trades' = trades /\ trades' \in [Symbols -> Trade] /\ closed' \in Int
      /\ TradesExplainBooks'
      /\ \A u \in Symbols : position'[u].quantity >= trades'[u].quantity
  BY <1>2, <1>3, PriceKeeps
<1>5. PICK o : o = Order(s, "SELL", trades[s].quantity, price)
  OBVIOUS
<1>6. o.symbol = s /\ o.limit_price = price
  BY <1>5 DEF Order
<1>7. /\ date' = date /\ phase' = phase /\ bar' = bar /\ todo' = todo \ {s} /\ tried' = tried
      /\ attempt' = [kind |-> "exit", order |-> o]
  BY <1>2, <1>5 DEF TryExit
<1>8. ExitsAreCovered'
  BY <1>4, <1>7, Typed DEF ExitsAreCovered, TypeOK
<1>9. TableInv'
  BY <1>4, <1>7 DEF TableInv, ReplayIInv
<1>10. AttemptInv'
  <2>1. attempt'.order = o
    BY <1>7
  <2> QED
    BY <1>1, <1>2, <1>4, <1>5, <1>6, <1>7, <2>1 DEF AttemptInv
<1>11. MarkedInv'
  <2>1. attempt'.order = o
    BY <1>7
  <2>2. /\ position'[s].quantity = position[s].quantity
        /\ position'[s].avg_cost = position[s].avg_cost
        /\ position[s].quantity # 0 =>
              /\ position'[s].market_price = price
              /\ position'[s].unrealized =
                    Times(Plus(Whole(price), Times(position[s].avg_cost, -1)), position[s].quantity)
    BY <1>2, <1>3, PriceMarks
  <2> QED
    BY <1>6, <2>1, <2>2 DEF MarkedInv
<1> QED
  BY <1>4, <1>8, <1>9, <1>10, <1>11 DEF ReplayIInv

\* An entry is sent to the guard.
LEMMA TryEntryStep == ASSUME ReplayIInv, NEW g \in Signals, TryEntry(g) PROVE ReplayIInv'
<1>1. /\ phase = "entry" /\ g.symbol \in Symbols /\ g.symbol \in todo
      /\ g.stop \in Nat \ {0} /\ g.entry \in Nat \ {0} /\ g.stop < g.entry
  <2>1. /\ g.symbol \in Symbols /\ g.stop \in Nat \ {0} /\ g.stop < g.entry
    BY ReplayAssumption
  <2>2. g.entry \in Nat \ {0}
    BY ReplayAssumption
  <2> QED
    BY <2>1, <2>2 DEF TryEntry, Takes
<1>2. PICK n \in Nat \ {0} : n = SizeOf(g)
  <2>1. Equity \in Int /\ Risk \in Nat
    BY Typed, EquityType, ReplayAssumption
  <2>2. FixedFractionalSize(Equity, Risk, g.entry, g.stop, 1) \in Nat
    BY <1>1, <2>1, SizeIsNat
  <2> QED
    BY <2>2 DEF SizeOf, TryEntry
<1>3. SetPrice(g.symbol, g.entry) /\ UNCHANGED table
  BY DEF TryEntry, Takes
<1>4. /\ BrokerTypeOK' /\ PendingIsOpen' /\ crossed' = {} /\ pending' = {} /\ sweep' = {}
      /\ trades' = trades /\ trades' \in [Symbols -> Trade] /\ closed' \in Int
      /\ TradesExplainBooks'
      /\ \A u \in Symbols : position'[u].quantity >= trades'[u].quantity
  BY <1>1, <1>3, PriceKeeps
<1>5. PICK o : o = Order(g.symbol, "BUY", n, g.entry)
  OBVIOUS
<1>6. o.symbol = g.symbol /\ o.limit_price = g.entry /\ o.quantity = n
  BY <1>5 DEF Order
<1>7. /\ date' = date /\ phase' = phase /\ bar' = bar /\ todo' = todo /\ tried' = tried \cup {g}
      /\ attempt' = [kind |-> "entry", order |-> o, signal |-> g]
  BY <1>2, <1>5 DEF TryEntry, Takes, loop
<1>8. ExitsAreCovered'
  BY <1>4, <1>7, Typed DEF ExitsAreCovered, TypeOK
<1>9. TableInv'
  BY <1>4, <1>7 DEF TableInv, ReplayIInv
<1>10. AttemptInv'
  <2>1. attempt'.order = o /\ attempt'.signal = g
    BY <1>7
  <2> QED
    BY <1>1, <1>2, <1>5, <1>6, <1>7, <2>1 DEF AttemptInv
<1>11. MarkedInv'
  <2>1. attempt'.order = o
    BY <1>7
  <2>2. /\ position'[g.symbol].quantity = position[g.symbol].quantity
        /\ position'[g.symbol].avg_cost = position[g.symbol].avg_cost
        /\ position[g.symbol].quantity # 0 =>
              /\ position'[g.symbol].market_price = g.entry
              /\ position'[g.symbol].unrealized =
                    Times(Plus(Whole(g.entry), Times(position[g.symbol].avg_cost, -1)),
                          position[g.symbol].quantity)
    BY <1>1, <1>3, PriceMarks
  <2> QED
    BY <1>6, <2>1, <2>2 DEF MarkedInv
<1> QED
  BY <1>4, <1>8, <1>9, <1>10, <1>11 DEF ReplayIInv

-----------------------------------------------------------------------------
(* The steps that trade.                                                   *)

\* Of whole numbers the operations on fractions are those on integers: ...
LEMMA FracWhole == ASSUME NEW n \in Int PROVE Frac(n, 1) = Whole(n)
<1> DEFINE common == {k \in 1..1 : n % k = 0 /\ 1 % k = 0}
           g == CHOOSE k \in common : \A m \in common : m <= k
<1>1. common = {1}
  <2>1. n % 1 = 0 /\ 1 % 1 = 0 /\ 1..1 = {1}
    OBVIOUS
  <2> QED
    BY <2>1
<1> HIDE DEF common
<1>2. g = 1
  BY <1>1
<1>3. Frac(n, 1) = <<1 * (n \div g), 1 * (1 \div g)>>
  BY DEF Frac, common
<1>4. 1 * (n \div 1) = n /\ 1 * (1 \div 1) = 1
  OBVIOUS
<1> HIDE DEF g
<1> QED
  BY <1>2, <1>3, <1>4 DEF Whole

\* ... addition ...
LEMMA WholePlus == ASSUME NEW a \in Int, NEW b \in Int PROVE Plus(Whole(a), Whole(b)) = Whole(a + b)
<1>1. Whole(a)[1] = a /\ Whole(a)[2] = 1 /\ Whole(b)[1] = b /\ Whole(b)[2] = 1
  BY DEF Whole
<1>2. a * 1 + b * 1 = a + b /\ 1 * 1 = 1 /\ a + b \in Int
  OBVIOUS
<1>3. Plus(Whole(a), Whole(b)) = Frac(a + b, 1)
  BY <1>1, <1>2 DEF Plus
<1> QED
  BY <1>2, <1>3, FracWhole

\* ... and multiplication.
LEMMA WholeTimes == ASSUME NEW a \in Int, NEW k \in Int PROVE Times(Whole(a), k) = Whole(a * k)
<1>1. Times(Whole(a), k) = Frac(a * k, 1) /\ a * k \in Int
  BY DEF Times, Whole
<1> QED
  BY <1>1, FracWhole

\* The sale of a whole position that was bought at one price.
LEMMA WholeSale ==
    ASSUME NEW pos, NEW q \in Nat \ {0}, NEW price \in Nat, NEW entry \in Nat,
           pos.quantity = q, pos.avg_cost = Whole(entry)
    PROVE  Realizes(pos, -q, price) = Whole((price - entry) * q)
<1>1. /\ (pos.quantity > 0) # (-q > 0) /\ pos.quantity # 0
      /\ Magnitude(-q) = q /\ Magnitude(pos.quantity) = q
  BY DEF Magnitude
<1>2. Realizes(pos, -q, price) = Times(Plus(Whole(price), Times(Whole(entry), -1)), q * 1)
  BY <1>1 DEF Realizes
<1>3. PICK m, d \in Int : m = entry * (-1) /\ d = price + m /\ d = price - entry
  OBVIOUS
<1>4. Times(Whole(entry), -1) = Whole(m) /\ Plus(Whole(price), Whole(m)) = Whole(d)
  <2>1. -1 \in Int /\ Times(Whole(entry), -1) = Whole(entry * (-1))
    BY WholeTimes
  <2>2. Plus(Whole(price), Whole(m)) = Whole(price + m)
    BY <1>3, WholePlus
  <2> QED
    BY <1>3, <2>1, <2>2
<1>5. q * 1 = q /\ Times(Whole(d), q) = Whole(d * q)
  BY WholeTimes
<1> QED
  BY <1>2, <1>3, <1>4, <1>5

\* The exit at the guard, as the invariant has it.
LEMMA ExitAttempt ==
    ASSUME ReplayIInv, attempt.kind = "exit"
    PROVE  LET o == attempt.order
               s == o.symbol
           IN  /\ o \in OrderRequest /\ s \in Symbols /\ o.limit_price \in Nat \ {0}
               /\ trades[s] # NoTrade /\ s \notin todo /\ phase = "exit"
               /\ o.quantity = trades[s].quantity /\ o.quantity \in Nat \ {0}
               /\ Signed(o) = -o.quantity
               /\ position[s].quantity \in Int /\ position[s].quantity >= o.quantity
<1> DEFINE o == attempt.order
           s == o.symbol
<1>1. /\ phase = "exit" /\ s \in Symbols \ todo
      /\ trades[s] # NoTrade
      /\ o = Order(s, "SELL", trades[s].quantity, o.limit_price)
      /\ o.limit_price \in Nat \ {0}
  BY DEF ReplayIInv, AttemptInv, NoAttempt
<1>2. PICK q \in Nat \ {0} : q = trades[s].quantity
  BY <1>1, Typed DEF ReplayIInv, TableInv, Trade
<1>3. PICK p \in Nat \ {0} : p = o.limit_price
  BY <1>1
<1> HIDE DEF o
<1>4. o = Order(s, "SELL", q, p)
  BY <1>1, <1>2, <1>3
<1>5. s \in Symbols
  BY <1>1
<1> HIDE DEF s
<1>6. o \in OrderRequest /\ o.quantity = q /\ o.action = "SELL"
  BY <1>4, <1>5 DEF Order, OrderRequest, NoParent
<1>7. Signed(o) = -q
  BY <1>6 DEF Signed
<1>8. position[s].quantity \in Int /\ position[s].quantity >= q
  BY <1>2, <1>5, Typed DEF ReplayIInv, ExitsAreCovered, Position
<1> QED
  BY <1>1, <1>2, <1>6, <1>7, <1>8 DEF o, s

\* An admitted exit trades.
LEMMA CloseStep == ASSUME ReplayIInv, CloseTrade PROVE ReplayIInv'
<1>0. attempt.kind = "exit"
  BY DEF CloseTrade
<1>1. PICK o, s, q, p :
         /\ o = attempt.order /\ s = o.symbol /\ q = o.quantity /\ p = o.limit_price
         /\ o \in OrderRequest /\ s \in Symbols /\ p \in Nat \ {0}
         /\ trades[s] # NoTrade /\ s \notin todo /\ phase = "exit"
         /\ q = trades[s].quantity /\ q \in Nat \ {0} /\ Signed(o) = -q
         /\ position[s].quantity \in Int /\ position[s].quantity >= q
  BY <1>0, ExitAttempt, Zenon
<1>2. /\ PlaceAndFill(o)
      /\ closed' = closed + (p - trades[s].entry) * q
      /\ trades' = [trades EXCEPT ![s] = NoTrade]
      /\ attempt' = NoAttempt
      /\ UNCHANGED <<loop, tried, doubled>>
  BY <1>1 DEF CloseTrade
<1>3. /\ BrokerIInv' /\ pending' = {} /\ sweep' = {}
      /\ ApplyFill(o, p)
      /\ position' = [position EXCEPT ![s] = AfterFill(position[s], -q, p)]
      /\ \A u \in Symbols : position'[u].quantity =
            position[u].quantity + (IF u = s THEN -q ELSE 0)
  BY <1>1, <1>2, OrderTrades
<1>4. /\ \A u \in Symbols \ {s} : position'[u] = position[u] /\ trades'[u] = trades[u]
      /\ trades'[s] = NoTrade /\ trades' \in [Symbols -> Trade]
  <2>1. NoTrade \in Trade
    BY DEF NoTrade, Trade
  <2> QED
    BY <1>1, <1>2, <1>3, <2>1, Typed
<1>5. /\ date' = date /\ phase' = phase /\ bar' = bar /\ todo' = todo /\ tried' = tried
      /\ doubled' = doubled
  BY <1>2 DEF loop
<1>6. trades[s].entry \in Nat /\ closed' \in Int
  <2>1. trades[s].entry \in Nat /\ closed \in Int
    BY <1>1, Typed DEF Trade
  <2> QED
    BY <1>1, <1>2, <2>1
<1>7. ExitsAreCovered'
  <2>1. TypeOK'
    BY <1>2, <1>3, <1>4, <1>5, <1>6, Typed DEF TypeOK, BrokerIInv, NoAttempt
  <2>2. \A u \in Symbols : position'[u].quantity >= trades'[u].quantity
    <3>1. position'[s].quantity >= trades'[s].quantity
      BY <1>1, <1>3, <1>4 DEF NoTrade
    <3>2. \A u \in Symbols \ {s} : position'[u].quantity >= trades'[u].quantity
      BY <1>4 DEF ReplayIInv, ExitsAreCovered
    <3> QED
      BY <3>1, <3>2
  <2> QED
    BY <2>1, <2>2 DEF ExitsAreCovered
<1>8. TradesExplainBooks'
  <2>1. ASSUME NEW u \in Symbols \ doubled
        PROVE  /\ position'[u].quantity = trades'[u].quantity
               /\ trades'[u] # NoTrade => position'[u].avg_cost = Whole(trades'[u].entry)
    <3>1. position[u].quantity = trades[u].quantity
      BY DEF ReplayIInv, TradesExplainBooks
    <3>2. CASE u = s
      <4>1. position'[s].quantity = 0
        BY <1>1, <1>3, <3>1, <3>2
      <4> QED
        BY <1>4, <3>2, <4>1 DEF NoTrade
    <3>3. CASE u # s
      BY <1>4, <3>3 DEF ReplayIInv, TradesExplainBooks
    <3> QED
      BY <3>2, <3>3
  <2>2. ASSUME doubled = {} PROVE realized' = Whole(closed')
    <3>1. position[s].quantity = q /\ position[s].avg_cost = Whole(trades[s].entry)
          /\ realized = Whole(closed)
      BY <1>1, <2>2 DEF ReplayIInv, TradesExplainBooks
    <3>2. realized' = Plus(realized, Realizes(position[s], -q, p))
      BY <1>1, <1>3 DEF ApplyFill
    <3>3. PICK gain \in Int : gain = (p - trades[s].entry) * q
      BY <1>1, <1>6
    <3>4. Realizes(position[s], -q, p) = Whole(gain)
      BY <1>1, <1>6, <3>1, <3>3, WholeSale
    <3> QED
      BY <1>2, <3>1, <3>2, <3>3, <3>4, Typed, WholePlus
  <2> QED
    BY <1>5, <2>1, <2>2 DEF TradesExplainBooks
<1>9. crossed' = {}
  <2>1. PICK h, k \in Nat : h = position[s].quantity /\ k = h - q /\ k = position[s].quantity + Signed(o)
    BY <1>1
  <2>2. ~(h * k < 0)
    OBVIOUS
  <2> QED
    BY <1>1, <1>3, <2>1, <2>2 DEF ApplyFill, ReplayIInv
<1>10. TableInv' /\ AttemptInv' /\ MarkedInv'
  <2>1. TableInv'
    <3>1. \A u \in Symbols : trades'[u] # NoTrade =>
             trades'[u].quantity > 0 /\ trades'[u].stop > 0 /\ trades'[u].target > 0
      BY <1>4 DEF TableInv, ReplayIInv
    <3>2. \A u \in todo' : u \in Symbols \ {s} /\ bar'[u] \in Bars /\ trades[u] # NoTrade
      BY <1>1, <1>5, Typed DEF TableInv, ReplayIInv
    <3> QED
      BY <1>4, <3>1, <3>2 DEF TableInv
  <2> QED
    BY <1>2, <2>1 DEF AttemptInv, MarkedInv
<1>11. PendingIsOpen'
  BY <1>3 DEF BrokerIInv
<1> QED
  BY <1>7, <1>8, <1>9, <1>10, <1>11 DEF ReplayIInv

\* The entry at the guard, as the invariant has it.
LEMMA EntryAttempt ==
    ASSUME ReplayIInv, attempt.kind = "entry"
    PROVE  LET o == attempt.order
               g == attempt.signal
               s == o.symbol
           IN  /\ o \in OrderRequest /\ g \in Signals /\ s \in Symbols
               /\ o.limit_price = g.entry /\ g.entry \in Nat \ {0}
               /\ g.stop \in Nat \ {0} /\ g.target \in Nat \ {0}
               /\ phase = "entry"
               /\ o.quantity \in Nat \ {0} /\ Signed(o) = o.quantity
               /\ position[s].quantity \in Nat
<1> DEFINE o == attempt.order
           g == attempt.signal
           s == o.symbol
<1>1. /\ phase = "entry" /\ g \in Signals
      /\ o = Order(g.symbol, "BUY", o.quantity, g.entry)
      /\ o.quantity \in Nat \ {0}
  BY DEF ReplayIInv, AttemptInv, NoAttempt
<1>2. /\ g.symbol \in Symbols /\ g.entry \in Nat \ {0}
      /\ g.stop \in Nat \ {0} /\ g.target \in Nat \ {0}
  BY <1>1, ReplayAssumption
<1>3. PICK q \in Nat \ {0} : q = o.quantity
  BY <1>1
<1> HIDE DEF o, g
<1>4. o = Order(g.symbol, "BUY", q, g.entry)
  BY <1>1, <1>3
<1>5. o \in OrderRequest /\ o.symbol = g.symbol /\ o.action = "BUY" /\ o.limit_price = g.entry
  BY <1>2, <1>4 DEF Order, OrderRequest, NoParent
<1>6. Signed(o) = q
  BY <1>3, <1>5 DEF Signed
<1>7. position[s].quantity \in Nat
  <2>1. s \in Symbols
    BY <1>2, <1>5
  <2>2. position[s].quantity \in Int /\ trades[s].quantity \in Nat
        /\ position[s].quantity >= trades[s].quantity
    BY <2>1, Typed DEF ReplayIInv, ExitsAreCovered, Position, Trade
  <2> QED
    BY <2>2
<1> QED
  BY <1>1, <1>2, <1>3, <1>5, <1>6, <1>7 DEF o, g, s

\* An admitted entry trades.
LEMMA OpenStep == ASSUME ReplayIInv, OpenTrade PROVE ReplayIInv'
<1>0. attempt.kind = "entry"
  BY DEF OpenTrade
<1>1. PICK o, g, s, q, p :
         /\ o = attempt.order /\ g = attempt.signal /\ s = o.symbol /\ q = o.quantity
         /\ p = o.limit_price /\ p = g.entry
         /\ o \in OrderRequest /\ g \in Signals /\ s \in Symbols
         /\ p \in Nat \ {0} /\ g.stop \in Nat \ {0} /\ g.target \in Nat \ {0}
         /\ phase = "entry" /\ q \in Nat \ {0} /\ Signed(o) = q
         /\ position[s].quantity \in Nat
  BY <1>0, EntryAttempt, Zenon
<1> DEFINE trade == [quantity |-> q, entry |-> p, stop |-> g.stop, target |-> g.target]
<1>2. /\ PlaceAndFill(o)
      /\ trades' = [trades EXCEPT ![s] = trade]
      /\ doubled' = IF trades[s] # NoTrade THEN doubled \cup {s} ELSE doubled
      /\ attempt' = NoAttempt /\ closed' = closed
      /\ UNCHANGED <<loop, tried>>
  BY <1>1 DEF OpenTrade
<1>3. /\ BrokerIInv' /\ pending' = {} /\ sweep' = {}
      /\ ApplyFill(o, p)
      /\ position' = [position EXCEPT ![s] = AfterFill(position[s], q, p)]
      /\ \A u \in Symbols : position'[u].quantity =
            position[u].quantity + (IF u = s THEN q ELSE 0)
  BY <1>1, <1>2, OrderTrades
<1>4. /\ trade \in Trade /\ trade # NoTrade
      /\ trade.quantity = q /\ trade.entry = p /\ trade.stop > 0 /\ trade.target > 0
  BY <1>1 DEF Trade, NoTrade
<1> HIDE DEF trade
<1>5. /\ \A u \in Symbols \ {s} : position'[u] = position[u] /\ trades'[u] = trades[u]
      /\ trades'[s] = trade /\ trades' \in [Symbols -> Trade]
  BY <1>1, <1>2, <1>3, <1>4, Typed
<1>6. /\ date' = date /\ phase' = phase /\ bar' = bar /\ todo' = todo /\ tried' = tried
  BY <1>2 DEF loop
<1>7. ExitsAreCovered'
  <2>1. TypeOK'
    BY <1>2, <1>3, <1>5, <1>6, Typed DEF TypeOK, BrokerIInv, NoAttempt
  <2>2. \A u \in Symbols : position'[u].quantity >= trades'[u].quantity
    <3>1. position'[s].quantity >= trades'[s].quantity
      BY <1>1, <1>3, <1>4, <1>5
    <3>2. \A u \in Symbols \ {s} : position'[u].quantity >= trades'[u].quantity
      BY <1>5 DEF ReplayIInv, ExitsAreCovered
    <3> QED
      BY <3>1, <3>2
  <2> QED
    BY <2>1, <2>2 DEF ExitsAreCovered
<1>8. TradesExplainBooks'
  <2>1. ASSUME NEW u \in Symbols \ doubled'
        PROVE  /\ position'[u].quantity = trades'[u].quantity
               /\ trades'[u] # NoTrade => position'[u].avg_cost = Whole(trades'[u].entry)
    <3>1. u \in Symbols \ doubled
      BY <1>2
    <3>2. CASE u = s
      <4>1. trades[s] = NoTrade
        BY <1>1, <1>2, <3>2
      <4>2. position[s].quantity = 0
        BY <3>1, <3>2, <4>1 DEF ReplayIInv, TradesExplainBooks, NoTrade
      <4>3. position'[s] = AfterFill(position[s], q, p)
        BY <1>1, <1>3, Typed
      <4>4. position'[s].quantity = q /\ position'[s].avg_cost = Whole(p)
        BY <4>2, <4>3 DEF AfterFill
      <4> QED
        BY <1>4, <1>5, <3>2, <4>4
    <3>3. CASE u # s
      BY <1>5, <3>1, <3>3 DEF ReplayIInv, TradesExplainBooks
    <3> QED
      BY <3>2, <3>3
  <2>2. ASSUME doubled' = {} PROVE realized' = Whole(closed')
    <3>1. realized = Whole(closed)
      BY <1>2, <2>2 DEF ReplayIInv, TradesExplainBooks
    <3>2. realized' = Plus(realized, Realizes(position[s], q, p))
      BY <1>1, <1>3 DEF ApplyFill
    <3>3. Realizes(position[s], q, p) = Whole(0)
      BY <1>1 DEF Realizes
    <3> QED
      BY <1>2, <3>1, <3>2, <3>3, Typed, WholePlus
  <2> QED
    BY <2>1, <2>2 DEF TradesExplainBooks
<1>9. crossed' = {}
  <2>1. PICK h, k \in Nat : h = position[s].quantity /\ k = position[s].quantity + Signed(o)
    BY <1>1
  <2>2. ~(h * k < 0)
    OBVIOUS
  <2> QED
    BY <1>1, <1>3, <2>1, <2>2 DEF ApplyFill, ReplayIInv
<1>10. TableInv' /\ AttemptInv' /\ MarkedInv'
  <2>1. TableInv'
    <3>1. \A u \in Symbols : trades'[u] # NoTrade =>
             trades'[u].quantity > 0 /\ trades'[u].stop > 0 /\ trades'[u].target > 0
      BY <1>1, <1>4, <1>5 DEF TableInv, ReplayIInv
    <3>2. \A u \in todo' : bar'[u] \in Bars /\ phase' # "exit"
      BY <1>1, <1>6 DEF TableInv, ReplayIInv
    <3> QED
      BY <3>1, <3>2 DEF TableInv
  <2> QED
    BY <1>2, <2>1 DEF AttemptInv, MarkedInv
<1>11. PendingIsOpen'
  BY <1>3 DEF BrokerIInv
<1> QED
  BY <1>7, <1>8, <1>9, <1>10, <1>11 DEF ReplayIInv

-----------------------------------------------------------------------------
(* The result of the day.                                                  *)

\* Nothing added changes nothing: as an equation ...
LEMMA PlusNothing == ASSUME NEW a \in Fraction PROVE Equals(a, Plus(a, Whole(0)))
<1>1. PICK D \in Nat \ {0}, va, v0, vx, vy, vz \in Int :
         At(D, a, va) /\ At(D, Whole(0), v0) /\ At(D, a, vx) /\ At(D, a, vy) /\ At(D, a, vz)
  <2>1. PICK n \in Fraction : n = Whole(0)
    BY WholeType
  <2>2. \E D \in Nat \ {0}, va, v0, vx, vy, vz \in Int :
           At(D, a, va) /\ At(D, n, v0) /\ At(D, a, vx) /\ At(D, a, vy) /\ At(D, a, vz)
    BY CommonTerms, ZenonT(40)
  <2> QED
    BY <2>1, <2>2
<1>2. Whole(0) \in Fraction /\ Plus(a, Whole(0)) \in Fraction /\ D \in Int
  BY WholeType, PlusType
<1>3. v0 = 0
  <2>1. At(D, Whole(0), 0 * D) /\ 0 * D = 0 /\ 0 \in Int
    BY <1>2, AtWhole
  <2> QED
    BY <1>1, <1>2, <2>1, AtUnique
<1>4. At(D, Plus(a, Whole(0)), va + v0) /\ va + v0 = va
  BY <1>1, <1>2, <1>3, AtPlus
<1> QED
  BY <1>1, <1>2, <1>4, EqualValues

\* ... and on the other side of one.
LEMMA PlusZero ==
    ASSUME NEW a \in Fraction, NEW b \in Fraction
    PROVE  Equals(a, Plus(b, Whole(0))) <=> Equals(b, Plus(a, Whole(0)))
<1>1. PICK D \in Nat \ {0}, va, vb, v0, vx, vy \in Int :
         At(D, a, va) /\ At(D, b, vb) /\ At(D, Whole(0), v0) /\ At(D, a, vx) /\ At(D, b, vy)
  <2>1. PICK n \in Fraction : n = Whole(0)
    BY WholeType
  <2>2. \E D \in Nat \ {0}, va, vb, v0, vx, vy \in Int :
           At(D, a, va) /\ At(D, b, vb) /\ At(D, n, v0) /\ At(D, a, vx) /\ At(D, b, vy)
    BY CommonTerms, ZenonT(40)
  <2> QED
    BY <2>1, <2>2
<1>2. Whole(0) \in Fraction /\ Plus(b, Whole(0)) \in Fraction /\ Plus(a, Whole(0)) \in Fraction /\ D \in Int
  BY WholeType, PlusType
<1>3. v0 = 0
  <2>1. At(D, Whole(0), 0 * D) /\ 0 * D = 0 /\ 0 \in Int
    BY <1>2, AtWhole
  <2> QED
    BY <1>1, <1>2, <2>1, AtUnique
<1>4. PICK x, y \in Int : x = vb + v0 /\ y = va + v0
  OBVIOUS
<1>5. At(D, Plus(b, Whole(0)), x) /\ At(D, Plus(a, Whole(0)), y)
  BY <1>1, <1>2, <1>4, AtPlus
<1>6. /\ Equals(a, Plus(b, Whole(0))) <=> va = x
      /\ Equals(b, Plus(a, Whole(0))) <=> vb = y
  BY <1>1, <1>2, <1>5, EqualValues
<1> QED
  BY <1>3, <1>4, <1>6

\* g tabulates, for the sets of symbols, r with the results u of the set, in the
\* order in which the library's folds take them.
Pnls(r, u, g) ==
    \A s \in SUBSET Symbols : g[s] = IF s = {} THEN r ELSE Plus(g[s \ {Pick(s)}], u[Pick(s)])

PnlTable(r, u, g) ==
    /\ r \in Fraction /\ u \in [Symbols -> Fraction]
    /\ g \in [SUBSET Symbols -> Fraction] /\ Pnls(r, u, g)

\* There is such a table.
LEMMA PnlExists ==
    ASSUME NEW r \in Fraction, NEW u \in [Symbols -> Fraction]
    PROVE  \E g : PnlTable(r, u, g)
<1> DEFINE h == [x \in Symbols |-> [v \in Fraction |-> Plus(v, u[x])]]
<1>1. h \in [Symbols -> [Fraction -> Fraction]]
  BY PlusType
<1>2. PICK g \in [SUBSET Symbols -> Fraction] : Folds(h, r, Symbols, g)
  <2> HIDE DEF h
  <2> QED
    BY <1>1, BrokerAssumption, FoldsExists
<1>3. ASSUME NEW s \in SUBSET Symbols, s # {} PROVE g[s] = Plus(g[s \ {Pick(s)}], u[Pick(s)])
  <2>1. Pick(s) \in Symbols /\ s \ {Pick(s)} \in SUBSET Symbols
    BY <1>3, PickIn
  <2>2. g[s] = h[Pick(s)][g[s \ {Pick(s)}]] /\ g[s \ {Pick(s)}] \in Fraction
    BY <1>2, <1>3, <2>1 DEF Folds
  <2> QED
    BY <2>1, <2>2
<1>4. g[{}] = r
  BY <1>2 DEF Folds
<1> QED
  BY <1>2, <1>3, <1>4 DEF PnlTable, Pnls

\* What FoldSet makes of the results of the positions of a set.
PnlOf(pos, r, H) == FoldSet(LAMBDA s, sum : Plus(sum, pos[s].unrealized), r, H)

\* The broker's sum and the replay's are such folds.
LEMMA FoldsOfHeld ==
    /\ DayPnl = PnlOf(position, realized, Held)
    /\ Unrealized = PnlOf(position, Whole(0), Held)
  BY Zenon DEF DayPnl, Unrealized, PnlOf

LEMMA NextFoldOfHeld == DayPnl' = PnlOf(position', realized', Held')
<1>1. DayPnl = PnlOf(position, realized, Held)
  BY FoldsOfHeld
<1>2. (DayPnl = PnlOf(position, realized, Held))'
  BY <1>1, PTL
<1> QED
  BY <1>2, Zenon

\* Of a set, the table has what FoldSet makes of the positions' results.
LEMMA PnlFold ==
    ASSUME NEW pos, NEW r, NEW u, NEW g, PnlTable(r, u, g),
           \A s \in Symbols : u[s] = pos[s].unrealized,
           NEW H \in SUBSET Symbols
    PROVE  PnlOf(pos, r, H) = g[H]
<1> DEFINE Body(f) == [s \in SUBSET H |-> IF s = {} THEN r
                                          ELSE Plus(f[s \ {Pick(s)}], pos[Pick(s)].unrealized)]
           it == CHOOSE f : f = Body(f)
           h == [s \in SUBSET H |-> g[s]]
<1>1. h = Body(h)
  <2>1. ASSUME NEW s \in SUBSET H, s # {}
        PROVE  g[s] = Plus(g[s \ {Pick(s)}], pos[Pick(s)].unrealized) /\ s \ {Pick(s)} \in SUBSET H
    BY <2>1, PickIn DEF PnlTable, Pnls
  <2>2. g[{}] = r
    BY DEF PnlTable, Pnls
  <2> QED
    BY <2>1, <2>2
<1>2. it = Body(it)
  <2> HIDE DEF Body, h
  <2> QED
    BY <1>1
<1>3. PnlOf(pos, r, H) = it[H]
  BY Zenon DEF PnlOf, FoldSet, MapThenFoldSet, Pick
<1> HIDE DEF it
<1> DEFINE A == {s \in SUBSET H : it[s] = h[s]}
<1>4. {} \in A
  BY <1>1, <1>2
<1>5. ASSUME NEW s \in SUBSET H, NEW q \in SUBSET H, s # {}, q = s \ {Pick(s)}, q \in A
      PROVE  s \in A
  <2>1. it[s] = Plus(it[q], pos[Pick(s)].unrealized)
    BY <1>2, <1>5
  <2>2. h[s] = Plus(h[q], pos[Pick(s)].unrealized)
    <3> HIDE DEF h
    <3> QED
      BY <1>1, <1>5
  <2>3. it[q] = h[q]
    BY <1>5
  <2> QED
    BY <2>1, <2>2, <2>3
<1>6. IsFiniteSet(H)
  BY BrokerAssumption, FS_Subset
<1>7. H \in A
  <2> HIDE DEF A
  <2> QED
    BY <1>4, <1>5, <1>6, PickInduction
<1> QED
  BY <1>3, <1>7

\* Sums of three in two orders.
LEMMA PlusReorders ==
    ASSUME NEW a \in Fraction, NEW b \in Fraction, NEW c \in Fraction, NEW d \in Fraction,
           NEW e \in Fraction, Equals(a, Plus(d, b)), Equals(e, Plus(d, c))
    PROVE  Equals(Plus(a, c), Plus(e, b))
<1>1. PICK D \in Nat \ {0}, va, vb, vc, vd, ve \in Int :
         At(D, a, va) /\ At(D, b, vb) /\ At(D, c, vc) /\ At(D, d, vd) /\ At(D, e, ve)
  BY CommonTerms, ZenonT(40)
<1>2. /\ Plus(d, b) \in Fraction /\ Plus(d, c) \in Fraction
      /\ Plus(a, c) \in Fraction /\ Plus(e, b) \in Fraction /\ D \in Int
  BY PlusType
<1>3. At(D, Plus(d, b), vd + vb) /\ At(D, Plus(d, c), vd + vc)
  BY <1>1, <1>2, AtPlus
<1>4. At(D, Plus(a, c), va + vc) /\ At(D, Plus(e, b), ve + vb)
  BY <1>1, <1>2, AtPlus
<1>5. PICK w, x, y, z \in Int : w = vd + vb /\ x = vd + vc /\ y = va + vc /\ z = ve + vb
  OBVIOUS
<1>6. va = w /\ ve = x
  BY <1>1, <1>2, <1>3, <1>5, EqualValues
<1>7. y = z
  BY <1>5, <1>6
<1> QED
  BY <1>2, <1>4, <1>5, <1>7, EqualValues

\* A fraction equals itself.
LEMMA EqualsSelf == ASSUME NEW a \in Fraction PROVE Equals(a, a)
  BY DEF Equals

\* The table does not depend on the order in which a set is taken.
LEMMA PnlAnyOrder ==
    ASSUME NEW r, NEW u, NEW g, PnlTable(r, u, g), NEW s \in SUBSET Symbols, NEW x \in s
    PROVE  Equals(g[s], Plus(g[s \ {x}], u[x]))
<1> DEFINE A == {n \in Nat : \A v \in SUBSET Symbols : Cardinality(v) = n =>
                                \A y \in v : Equals(g[v], Plus(g[v \ {y}], u[y]))}
<1>0. /\ g \in [SUBSET Symbols -> Fraction] /\ u \in [Symbols -> Fraction] /\ Pnls(r, u, g)
      /\ IsFiniteSet(Symbols)
  BY BrokerAssumption DEF PnlTable
<1>1. ASSUME NEW n \in Nat, \A m \in Nat : m < n => m \in A PROVE n \in A
  <2> SUFFICES ASSUME NEW v \in SUBSET Symbols, Cardinality(v) = n, NEW y \in v
               PROVE  Equals(g[v], Plus(g[v \ {y}], u[y]))
    OBVIOUS
  <2> DEFINE p == Pick(v)
  <2>1. p \in v
    BY PickIn
  <2>2. g[v] = Plus(g[v \ {p}], u[p])
    BY <1>0 DEF Pnls
  <2>3. CASE p = y
    <3>1. g[v] \in Fraction
      BY <1>0
    <3> QED
      BY <2>2, <2>3, <3>1, EqualsSelf
  <2>4. CASE p # y
    <3> HIDE DEF p
    <3>1. Cardinality(v \ {p}) \in Nat /\ Cardinality(v \ {p}) < n /\ v \ {p} \in SUBSET Symbols
      BY <1>0, <2>1, Smaller
    <3>2. Cardinality(v \ {y}) \in Nat /\ Cardinality(v \ {y}) < n /\ v \ {y} \in SUBSET Symbols
      BY <1>0, Smaller
    <3>3. Equals(g[v \ {p}], Plus(g[(v \ {p}) \ {y}], u[y]))
      <4>1. y \in v \ {p} /\ Cardinality(v \ {p}) \in A
        BY <1>1, <2>4, <3>1
      <4> QED
        BY <4>1, <3>1
    <3>4. Equals(g[v \ {y}], Plus(g[(v \ {y}) \ {p}], u[p]))
      <4>1. p \in v \ {y} /\ Cardinality(v \ {y}) \in A
        BY <1>1, <2>1, <2>4, <3>2
      <4> QED
        BY <4>1, <3>2
    <3>5. (v \ {y}) \ {p} = (v \ {p}) \ {y} /\ (v \ {p}) \ {y} \in SUBSET Symbols
      OBVIOUS
    <3>6. PICK a, b, c, d, e \in Fraction :
             /\ a = g[v \ {p}] /\ b = u[y] /\ c = u[p] /\ d = g[(v \ {p}) \ {y}] /\ e = g[v \ {y}]
      BY <1>0, <2>1, <3>1, <3>2, <3>5
    <3>7. Equals(Plus(a, c), Plus(e, b))
      BY <3>3, <3>4, <3>5, <3>6, PlusReorders
    <3> QED
      BY <2>2, <3>6, <3>7
  <2> QED
    BY <2>3, <2>4
<1> HIDE DEF A
<1>2. \A n \in Nat : n \in A
  BY <1>1, NatComplete
<1>3. Cardinality(s) \in Nat
  BY <1>0, FS_Subset, FS_CardinalityType
<1> QED
  BY <1>2, <1>3 DEF A

\* What is added first comes out of the sum.
LEMMA PnlBase ==
    ASSUME NEW r, NEW u, NEW g, NEW h, PnlTable(r, u, g), PnlTable(Whole(0), u, h),
           NEW s \in SUBSET Symbols
    PROVE  Equals(g[s], Plus(r, h[s]))
<1> DEFINE A == {v \in SUBSET Symbols : Equals(g[v], Plus(r, h[v]))}
<1>0. /\ g \in [SUBSET Symbols -> Fraction] /\ h \in [SUBSET Symbols -> Fraction]
      /\ u \in [Symbols -> Fraction] /\ r \in Fraction /\ IsFiniteSet(Symbols)
  BY BrokerAssumption DEF PnlTable
<1>1. {} \in A
  <2>1. g[{}] = r /\ h[{}] = Whole(0)
    BY DEF PnlTable, Pnls
  <2>2. Equals(r, Plus(r, Whole(0)))
    BY <1>0, PlusNothing
  <2> QED
    BY <2>1, <2>2
<1>2. ASSUME NEW v \in SUBSET Symbols, NEW q \in SUBSET Symbols, v # {}, q = v \ {Pick(v)}, q \in A
      PROVE  v \in A
  <2>1. Pick(v) \in Symbols
    BY <1>2, PickIn
  <2>2. g[v] = Plus(g[q], u[Pick(v)]) /\ h[v] = Plus(h[q], u[Pick(v)])
    BY <1>2 DEF PnlTable, Pnls
  <2>3. PICK a, b, c \in Fraction : a = g[q] /\ b = h[q] /\ c = u[Pick(v)]
    BY <1>0, <2>1
  <2>4. Equals(a, Plus(r, b))
    BY <1>2, <2>3
  <2>5. Equals(Plus(a, c), Plus(r, Plus(b, c)))
    <3>1. PICK D \in Nat \ {0}, va, vb, vc, vr, vx \in Int :
             At(D, a, va) /\ At(D, b, vb) /\ At(D, c, vc) /\ At(D, r, vr) /\ At(D, c, vx)
      BY <1>0, CommonTerms, ZenonT(40)
    <3>2. /\ Plus(r, b) \in Fraction /\ Plus(b, c) \in Fraction
          /\ Plus(a, c) \in Fraction /\ Plus(r, Plus(b, c)) \in Fraction /\ D \in Int
      BY <1>0, PlusType
    <3>3. PICK w, x, y, z \in Int : w = vr + vb /\ x = vb + vc /\ y = va + vc /\ z = vr + x
      OBVIOUS
    <3>4. At(D, Plus(r, b), w) /\ At(D, Plus(b, c), x) /\ At(D, Plus(a, c), y)
      BY <1>0, <3>1, <3>2, <3>3, AtPlus
    <3>5. At(D, Plus(r, Plus(b, c)), z)
      BY <1>0, <3>1, <3>2, <3>3, <3>4, AtPlus
    <3>6. va = w
      BY <2>4, <3>1, <3>2, <3>4, EqualValues
    <3>7. y = z
      BY <3>3, <3>6
    <3> QED
      BY <3>2, <3>4, <3>5, <3>7, EqualValues
  <2> QED
    BY <2>2, <2>3, <2>5
<1> HIDE DEF A
<1>3. s \in A
  BY <1>0, <1>1, <1>2, PickInduction
<1> QED
  BY <1>3 DEF A

\* Equal results have the same sum.
LEMMA PnlSame ==
    ASSUME NEW r, NEW u, NEW v, NEW g, NEW h, PnlTable(r, u, g), PnlTable(r, v, h),
           NEW s \in SUBSET Symbols, \A x \in s : u[x] = v[x]
    PROVE  g[s] = h[s]
<1> DEFINE A == {w \in SUBSET s : g[w] = h[w]}
<1>1. {} \in A
  BY DEF PnlTable, Pnls
<1>2. ASSUME NEW w \in SUBSET s, NEW q \in SUBSET s, w # {}, q = w \ {Pick(w)}, q \in A
      PROVE  w \in A
  <2>1. Pick(w) \in s
    BY <1>2, PickIn
  <2>2. g[w] = Plus(g[q], u[Pick(w)]) /\ h[w] = Plus(h[q], v[Pick(w)])
    BY <1>2 DEF PnlTable, Pnls
  <2>3. g[q] = h[q] /\ u[Pick(w)] = v[Pick(w)]
    BY <1>2, <2>1
  <2> QED
    BY <2>2, <2>3
<1> HIDE DEF A
<1>3. IsFiniteSet(s)
  BY BrokerAssumption, FS_Subset
<1>4. s \in A
  BY <1>1, <1>2, <1>3, PickInduction
<1> QED
  BY <1>4 DEF A

\* A result that goes from a position to the realized one stays in the sum.
LEMMA ResultMoves ==
    ASSUME NEW P \in Fraction, NEW R \in Fraction, NEW z \in Fraction, NEW c \in Fraction,
           NEW U \in Fraction,
           Equals(P, Plus(Plus(R, z), c)), Equals(U, Plus(c, z))
    PROVE  Equals(P, Plus(R, U))
<1>1. PICK D \in Nat \ {0}, vP, vR, vz, vc, vU \in Int :
         At(D, P, vP) /\ At(D, R, vR) /\ At(D, z, vz) /\ At(D, c, vc) /\ At(D, U, vU)
  BY CommonTerms, ZenonT(40)
<1>2. /\ Plus(R, z) \in Fraction /\ Plus(Plus(R, z), c) \in Fraction
      /\ Plus(c, z) \in Fraction /\ Plus(R, U) \in Fraction /\ D \in Int
  BY PlusType
<1>3. PICK w, x, y, t \in Int : w = vR + vz /\ x = w + vc /\ y = vc + vz /\ t = vR + vU
  OBVIOUS
<1>4. At(D, Plus(R, z), w) /\ At(D, Plus(c, z), y) /\ At(D, Plus(R, U), t)
  BY <1>1, <1>2, <1>3, AtPlus
<1>5. At(D, Plus(Plus(R, z), c), x)
  BY <1>1, <1>2, <1>3, <1>4, AtPlus
<1>6. vP = x /\ vU = y
  BY <1>1, <1>2, <1>4, <1>5, EqualValues
<1>7. vP = t
  BY <1>3, <1>6
<1> QED
  BY <1>1, <1>2, <1>4, <1>7, EqualValues

\* The guard's comparison of two results is that of any fraction equal to their
\* sum.
LEMMA LossOfSum ==
    ASSUME NEW P \in Fraction, NEW R \in Fraction, NEW U \in Fraction, Equals(P, Plus(R, U)),
           NEW M \in Int, NEW W \in Int,
           ~ ((R[1] * U[2] + U[1] * R[2]) * W <= -(M * (R[2] * U[2])))
    PROVE  P[1] * W > -(M * P[2])
<1>1. PICK r, u \in Int, s, v \in Nat \ {0} : r = R[1] /\ s = R[2] /\ u = U[1] /\ v = U[2]
  BY FractionParts
<1>2. PICK p \in Int, d \in Nat \ {0} : p = P[1] /\ d = P[2]
  BY FractionParts
<1>3. PICK N \in Int, K \in Nat \ {0} : N = r * v + u * s /\ K = s * v
  BY PositiveTimes
<1>4. PICK m \in Int, e \in Nat \ {0} : m = Frac(N, K)[1] /\ e = Frac(N, K)[2] /\ m * K = N * e
  <2>1. Frac(N, K) \in Fraction /\ Frac(N, K)[1] * K = N * Frac(N, K)[2]
    BY FracReduces
  <2> QED
    BY <2>1, FractionParts
<1>5. Plus(R, U) = Frac(N, K)
  BY <1>1, <1>3 DEF Plus
<1>6. p * e = m * d
  BY <1>2, <1>4, <1>5 DEF Equals
<1>7. p * K = N * d
  <2>1. (p * K) * e = (p * e) * K /\ (m * d) * K = (m * K) * d /\ (N * e) * d = (N * d) * e
    OBVIOUS
  <2>2. (p * K) * e = (N * d) * e /\ p * K \in Int /\ N * d \in Int
    BY <1>4, <1>6, <2>1
  <2> QED
    BY <2>2, CancelFactor
<1>8. ~ (N * W <= -(M * K))
  BY <1>1, <1>3
<1>9. PICK x, y \in Int : x = p * W /\ y = -(M * d)
  OBVIOUS
<1>10. x * K = (N * W) * d /\ y * K = (-(M * K)) * d
  <2>1. x * K = (p * K) * W /\ (N * d) * W = (N * W) * d
    BY <1>9
  <2>2. y * K = (-(M * K)) * d
    BY <1>9
  <2> QED
    BY <1>7, <2>1, <2>2
<1>11. ~ (x <= y)
  <2> SUFFICES ASSUME x <= y PROVE FALSE
    OBVIOUS
  <2>1. PICK a, b \in Int : a = N * W /\ b = -(M * K)
    OBVIOUS
  <2>2. a > b
    BY <1>8, <2>1
  <2>3. PICK f \in Nat \ {0} : f = a - b
    BY <2>2
  <2>4. f * d \in Nat \ {0} /\ f * d = a * d - b * d
    BY <2>3, PositiveTimes
  <2>5. PICK h \in Nat : h = y - x
    OBVIOUS
  <2>6. h * K \in Nat /\ h * K = y * K - x * K
    BY <2>5
  <2> QED
    BY <1>10, <2>1, <2>4, <2>6
<1> QED
  BY <1>2, <1>9, <1>11

\* Trading at the price a position is marked at leaves the equity as it was.
LEMMA EquityStays ==
    ASSUME BrokerTypeOK, BrokerTypeOK', NEW s \in Symbols,
           \A u \in Symbols \ {s} : position'[u] = position[u],
           cash' + position'[s].market_price * position'[s].quantity
               = cash + position[s].market_price * position[s].quantity
    PROVE  Equity' = Equity
<1> DEFINE f == [u \in Symbols |-> position[u].market_price * position[u].quantity]
           h == [u \in Symbols |-> position'[u].market_price * position'[u].quantity]
<1>1. \A u \in Symbols : f[u] \in Int /\ h[u] \in Int
  <2>1. ASSUME NEW pos \in [Symbols -> Position], NEW u \in Symbols
        PROVE  pos[u].market_price * pos[u].quantity \in Int
    <3>1. pos[u].market_price \in Int /\ pos[u].quantity \in Int
      BY DEF Position
    <3> QED
      BY <3>1
  <2> QED
    BY <2>1 DEF BrokerTypeOK
<1>2. /\ f[s] = position[s].market_price * position[s].quantity
      /\ h[s] = position'[s].market_price * position'[s].quantity
      /\ \A u \in Symbols \ {s} : h[u] = f[u]
  OBVIOUS
<1>3. DOMAIN f = Symbols /\ DOMAIN h = Symbols
  OBVIOUS
<1>4. Equity = cash + SumFunction(f) /\ Equity' = cash' + SumFunction(h)
  BY DEF Equity
<1> HIDE DEF f, h
<1>5. SumFunction(f) = SumFunctionOnSet(f, Symbols) /\ SumFunction(h) = SumFunctionOnSet(h, Symbols)
  BY <1>3, Zenon DEF SumFunction, FoldFunction, SumFunctionOnSet
<1>6. IsFiniteSet(Symbols) /\ IsFiniteSet(Symbols \ {s})
  BY BrokerAssumption, FS_Subset
<1>7. /\ SumFunctionOnSet(f, Symbols) = SumFunctionOnSet(f, Symbols \ {s}) + f[s]
      /\ SumFunctionOnSet(h, Symbols) = SumFunctionOnSet(h, Symbols \ {s}) + h[s]
  BY <1>1, <1>6, SumWithout
<1>8. SumFunctionOnSet(h, Symbols \ {s}) = SumFunctionOnSet(f, Symbols \ {s})
  BY <1>1, <1>2, <1>6, SumEqual
<1>9. SumFunctionOnSet(f, Symbols \ {s}) \in Int
  BY <1>1, <1>6, SumType
<1>10. cash \in Int /\ cash' \in Int
  BY DEF BrokerTypeOK
<1> QED
  BY <1>1, <1>2, <1>4, <1>5, <1>7, <1>8, <1>9, <1>10

\* A fill at the price its symbol is marked at moves a result from the position
\* to the realized one, or moves none.
LEMMA DayAfterFill ==
    ASSUME BrokerTypeOK, BrokerTypeOK', NEW s \in Symbols, NEW z \in Fraction,
           \A x \in Symbols \ {s} : position'[x] = position[x],
           realized' = Plus(realized, z),
           \/ s \in Held /\ s \in Held' /\ z = Whole(0)
                 /\ position'[s].unrealized = position[s].unrealized
           \/ s \notin Held /\ s \in Held' /\ z = Whole(0) /\ position'[s].unrealized = Whole(0)
           \/ s \in Held /\ s \notin Held' /\ z = position[s].unrealized
    PROVE  /\ DayPnl' \in Fraction /\ Unrealized \in Fraction
           /\ Equals(DayPnl', Plus(realized, Unrealized))
<1> DEFINE u == [x \in Symbols |-> position[x].unrealized]
           v == [x \in Symbols |-> position'[x].unrealized]
<1>1. /\ u \in [Symbols -> Fraction] /\ v \in [Symbols -> Fraction]
      /\ realized \in Fraction /\ realized' \in Fraction /\ Whole(0) \in Fraction
  BY WholeType DEF BrokerTypeOK, Position
<1>2. /\ \A x \in Symbols : u[x] = position[x].unrealized
      /\ \A x \in Symbols : v[x] = position'[x].unrealized
      /\ \A x \in Symbols \ {s} : u[x] = v[x]
  OBVIOUS
<1> HIDE DEF u, v
<1>3. PICK g : PnlTable(realized', v, g)
  BY <1>1, PnlExists
<1>4. PICK h : PnlTable(Whole(0), u, h)
  BY <1>1, PnlExists
<1>5. PICK k : PnlTable(Whole(0), v, k)
  BY <1>1, PnlExists
<1>6. /\ Held \in SUBSET Symbols /\ Held' \in SUBSET Symbols
      /\ Held' \ {s} = Held \ {s}
  BY DEF Held
<1>7. DayPnl' = g[Held']
  <2>1. PICK pos, r, H : pos = position' /\ r = realized' /\ H = Held'
    OBVIOUS
  <2>2. PnlOf(pos, r, H) = g[H]
    BY <1>2, <1>3, <1>6, <2>1, PnlFold
  <2> QED
    BY <2>1, <2>2, NextFoldOfHeld
<1>8. Unrealized = h[Held]
  <2>1. PnlOf(position, Whole(0), Held) = h[Held]
    BY <1>2, <1>4, <1>6, PnlFold
  <2> QED
    BY <2>1, FoldsOfHeld
<1>9. PICK P, U, c \in Fraction : P = g[Held'] /\ U = h[Held] /\ c = k[Held']
  BY <1>3, <1>4, <1>5, <1>6 DEF PnlTable
<1>10. Equals(P, Plus(Plus(realized, z), c))
  <2>1. Equals(g[Held'], Plus(realized', k[Held']))
    BY <1>3, <1>5, <1>6, PnlBase
  <2> QED
    BY <1>9, <2>1
<1>11. h[Held \ {s}] = k[Held \ {s}]
  <2>1. Held \ {s} \in SUBSET Symbols /\ \A x \in Held \ {s} : u[x] = v[x]
    BY <1>2, <1>6
  <2> QED
    BY <1>4, <1>5, <2>1, PnlSame
<1>12. Equals(U, Plus(c, z))
  <2>1. CASE s \in Held /\ s \in Held' /\ z = Whole(0) /\ position'[s].unrealized = position[s].unrealized
    <3>1. Held' = Held /\ \A x \in Held : u[x] = v[x]
      BY <1>2, <1>6, <2>1
    <3>2. h[Held] = k[Held]
      BY <1>4, <1>5, <1>6, <3>1, PnlSame
    <3> QED
      BY <1>9, <2>1, <3>1, <3>2, PlusNothing
  <2>2. CASE s \notin Held /\ s \in Held' /\ z = Whole(0) /\ position'[s].unrealized = Whole(0)
    <3>1. Held \ {s} = Held /\ Held' \ {s} = Held /\ v[s] = Whole(0)
      BY <1>2, <1>6, <2>2
    <3>2. Equals(k[Held'], Plus(k[Held' \ {s}], v[s]))
      BY <1>5, <1>6, <2>2, PnlAnyOrder
    <3>3. Equals(c, Plus(U, Whole(0)))
      BY <1>9, <1>11, <3>1, <3>2
    <3> QED
      BY <1>9, <2>2, <3>3, PlusZero
  <2>3. CASE s \in Held /\ s \notin Held' /\ z = position[s].unrealized
    <3>1. Held \ {s} = Held' /\ u[s] = z
      BY <1>2, <1>6, <2>3
    <3>2. Equals(h[Held], Plus(h[Held \ {s}], u[s]))
      BY <1>4, <1>6, <2>3, PnlAnyOrder
    <3> QED
      BY <1>9, <1>11, <3>1, <3>2
  <2> QED
    BY <2>1, <2>2, <2>3
<1>13. Equals(P, Plus(realized, U))
  BY <1>1, <1>9, <1>10, <1>12, ResultMoves
<1> QED
  BY <1>7, <1>8, <1>9, <1>13

\* An admitted exit of a whole position.
LEMMA CloseDay ==
    ASSUME ReplayIInv, BrokerTypeOK', CloseTrade, doubled = {}
    PROVE  /\ Equity' = Equity /\ DayPnl' \in Fraction /\ Unrealized \in Fraction
           /\ Equals(DayPnl', Plus(realized, Unrealized))
<1>0. attempt.kind = "exit" /\ attempt # NoAttempt
  BY DEF CloseTrade, NoAttempt
<1>1. PICK o, s, q, p :
         /\ o = attempt.order /\ s = o.symbol /\ q = o.quantity /\ p = o.limit_price
         /\ o \in OrderRequest /\ s \in Symbols /\ p \in Nat \ {0}
         /\ trades[s] # NoTrade /\ s \notin todo /\ phase = "exit"
         /\ q = trades[s].quantity /\ q \in Nat \ {0} /\ Signed(o) = -q
         /\ position[s].quantity \in Int /\ position[s].quantity >= q
  BY <1>0, ExitAttempt, Zenon
<1>2. ApplyFill(o, p) /\ position' = [position EXCEPT ![s] = AfterFill(position[s], -q, p)]
  <2>1. PlaceAndFill(o)
    BY <1>1 DEF CloseTrade
  <2> QED
    BY <1>1, <2>1, OrderTrades
<1>3. position[s].quantity = q
  BY <1>1 DEF ReplayIInv, TradesExplainBooks
<1>4. /\ position[s].market_price = p
      /\ position[s].unrealized = Times(Plus(Whole(p), Times(position[s].avg_cost, -1)), q)
  BY <1>0, <1>1, <1>3 DEF ReplayIInv, MarkedInv
<1>5. position'[s] = Flat /\ \A x \in Symbols \ {s} : position'[x] = position[x]
  <2>1. position[s].quantity # 0 /\ position[s].quantity + (-q) = 0
    BY <1>1, <1>3
  <2>2. AfterFill(position[s], -q, p) = Flat
    BY <2>1 DEF AfterFill
  <2> QED
    BY <1>1, <1>2, <2>2, Typed
<1>6. realized' = Plus(realized, position[s].unrealized)
  <2>1. Realizes(position[s], -q, p) = Times(Plus(Whole(p), Times(position[s].avg_cost, -1)), q * 1)
    <3>1. /\ (position[s].quantity > 0) # (-q > 0) /\ position[s].quantity # 0
          /\ position[s].quantity > 0
          /\ Magnitude(-q) = q /\ Magnitude(position[s].quantity) = q
      BY <1>1, <1>3 DEF Magnitude
    <3> QED
      BY <3>1 DEF Realizes
  <2>2. q * 1 = q
    BY <1>1
  <2> QED
    BY <1>1, <1>2, <1>4, <2>1, <2>2 DEF ApplyFill
<1>7. Equity' = Equity
  <2>1. cash' = cash - p * (-q)
    BY <1>1, <1>2 DEF ApplyFill
  <2>2. position'[s].market_price = 0 /\ position'[s].quantity = 0
    BY <1>5 DEF Flat
  <2>3. cash \in Int /\ p * (-q) = -(p * q)
    BY <1>1, Typed
  <2>4. cash' + 0 * 0 = cash + p * q
    BY <1>1, <2>1, <2>3
  <2> QED
    BY <1>1, <1>3, <1>4, <1>5, <2>2, <2>4, Typed, EquityStays
<1>8. position[s].unrealized \in Fraction
  BY <1>1, Typed DEF Position
<1>9. s \in Held /\ s \notin Held'
  BY <1>1, <1>3, <1>5 DEF Held, Flat
<1> QED
  BY <1>1, <1>5, <1>6, <1>7, <1>8, <1>9, Typed, DayAfterFill

\* An admitted entry, into an empty position or on top of one.
LEMMA OpenDay ==
    ASSUME ReplayIInv, BrokerTypeOK', OpenTrade
    PROVE  /\ Equity' = Equity /\ DayPnl' \in Fraction /\ Unrealized \in Fraction
           /\ Equals(DayPnl', Plus(realized, Unrealized))
<1>0. attempt.kind = "entry" /\ attempt # NoAttempt
  BY DEF OpenTrade, NoAttempt
<1>1. PICK o, g, s, q, p :
         /\ o = attempt.order /\ g = attempt.signal /\ s = o.symbol /\ q = o.quantity
         /\ p = o.limit_price /\ p = g.entry
         /\ o \in OrderRequest /\ g \in Signals /\ s \in Symbols
         /\ p \in Nat \ {0} /\ g.stop \in Nat \ {0} /\ g.target \in Nat \ {0}
         /\ phase = "entry" /\ q \in Nat \ {0} /\ Signed(o) = q
         /\ position[s].quantity \in Nat
  BY <1>0, EntryAttempt, Zenon
<1>2. ApplyFill(o, p) /\ position' = [position EXCEPT ![s] = AfterFill(position[s], q, p)]
  <2>1. PlaceAndFill(o)
    BY <1>1 DEF OpenTrade
  <2> QED
    BY <1>1, <2>1, OrderTrades
<1>3. position'[s] = AfterFill(position[s], q, p) /\ \A x \in Symbols \ {s} : position'[x] = position[x]
  BY <1>1, <1>2, Typed
<1>4. /\ position'[s].quantity = position[s].quantity + q
      /\ position'[s].market_price = p
      /\ position'[s].unrealized = IF position[s].quantity = 0 THEN Whole(0) ELSE position[s].unrealized
  <2>1. position[s].quantity + q # 0 /\ 0 + q = q
    BY <1>1
  <2> QED
    BY <1>3, <2>1 DEF AfterFill
<1>5. realized' = Plus(realized, Whole(0))
  <2>1. Realizes(position[s], q, p) = Whole(0)
    BY <1>1 DEF Realizes
  <2> QED
    BY <1>1, <1>2, <2>1 DEF ApplyFill
<1>6. position[s].quantity # 0 => position[s].market_price = p
  BY <1>0, <1>1 DEF ReplayIInv, MarkedInv
<1>7. Equity' = Equity
  <2>1. cash' = cash - p * q /\ cash \in Int
    BY <1>1, <1>2, Typed DEF ApplyFill
  <2>2. PICK n \in Nat, m \in Nat : n = position[s].quantity /\ m = position[s].market_price
    BY <1>1, Typed DEF Position
  <2>3. m * n = p * n
    <3>1. n # 0 => m = p
      BY <1>6, <2>2
    <3>2. m * 0 = 0 /\ p * 0 = 0
      BY <1>1, <2>2
    <3> QED
      BY <3>1, <3>2
  <2>4. p * (n + q) = p * n + p * q
    BY <1>1, <2>2
  <2>5. (cash - p * q) + p * (n + q) = cash + m * n
    BY <1>1, <2>1, <2>2, <2>3, <2>4
  <2> QED
    BY <1>1, <1>3, <1>4, <2>1, <2>2, <2>5, Typed, EquityStays
<1>8. s \in Held' /\ Whole(0) \in Fraction
  BY <1>1, <1>4, WholeType DEF Held
<1>9. s \in Held <=> position[s].quantity # 0
  BY <1>1 DEF Held
<1> QED
  BY <1>1, <1>3, <1>4, <1>5, <1>7, <1>8, <1>9, Typed, DayAfterFill

\* What an admitted order says of the result of the day.
LEMMA AdmittedResult ==
    ASSUME NEW o, NEW isNew, NEW notional, GuardAdmits(o, GuardContext(isNew, notional)), Equity > 0
    PROVE  ~ ((realized[1] * Unrealized[2] + Unrealized[1] * realized[2]) * Whole100
                 <= -((MaxDailyLoss * Equity) * (realized[2] * Unrealized[2])))
<1> DEFINE ctx == GuardContext(isNew, notional)
<1>1. ctx.nav = Equity /\ ctx.day_realized_pnl = realized /\ ctx.day_unrealized_pnl = Unrealized
  BY DEF GuardContext, Context
<1>2. ~DailyLossBreached(ctx)
  BY DEF GuardAdmits, Admits
<1> HIDE DEF ctx
<1> QED
  BY <1>1, <1>2 DEF DailyLossBreached

\* No fill is the one that takes the result past the loss limit.
LEMMA FillKeeps ==
    ASSUME ReplayIInv, BrokerTypeOK', CloseTrade \/ OpenTrade, Equity > 0, doubled = {}
    PROVE  DayPnl'[1] * Whole100 > -(MaxDailyLoss * Equity' * DayPnl'[2])
<1>1. /\ Equity' = Equity /\ DayPnl' \in Fraction /\ Unrealized \in Fraction
      /\ Equals(DayPnl', Plus(realized, Unrealized))
  BY CloseDay, OpenDay
<1>2. ~ ((realized[1] * Unrealized[2] + Unrealized[1] * realized[2]) * Whole100
            <= -((MaxDailyLoss * Equity) * (realized[2] * Unrealized[2])))
  <2>1. CASE CloseTrade
    BY <2>1, AdmittedResult DEF CloseTrade, ExitContext
  <2>2. CASE OpenTrade
    BY <2>2, AdmittedResult DEF OpenTrade, EntryContext
  <2> QED
    BY <2>1, <2>2
<1>3. PICK M \in Int : M = MaxDailyLoss * Equity
  BY Typed, EquityType, LimitsAssumption
<1>4. realized \in Fraction /\ Whole100 \in Int
  BY Typed DEF Whole100
<1>5. PICK P, U \in Fraction : P = DayPnl' /\ U = Unrealized
  BY <1>1
<1>6. P[1] * Whole100 > -(M * P[2])
  BY <1>1, <1>2, <1>3, <1>4, <1>5, LossOfSum
<1> QED
  BY <1>1, <1>3, <1>5, <1>6

-----------------------------------------------------------------------------
(* The theorems.                                                           *)

\* Before the first date there is no trade and no position.
LEMMA Start == Init => ReplayIInv
<1> SUFFICES ASSUME Init PROVE ReplayIInv
  OBVIOUS
<1>1. BrokerIInv /\ pending = {} /\ sweep = {} /\ crossed = {} /\ realized = Whole(0)
      /\ position = [s \in Symbols |-> Flat]
  BY BrokerStarts DEF Init, BrokerInit
<1>2. /\ trades = [s \in Symbols |-> NoTrade] /\ NoTrade \in Trade /\ NoTrade.quantity = 0
      /\ closed = 0 /\ todo = {} /\ attempt = NoAttempt /\ attempt.kind = "none" /\ date = 0
      /\ phase \in Phases /\ bar \in [Symbols -> Bars \cup {NoBar}] /\ tried = {}
  BY DEF Init, NoTrade, Trade, NoAttempt, Phases
<1>3. Flat.quantity = 0 /\ 0 \in 0..MaxDates
  BY ReplayAssumption DEF Flat
<1>4. ExitsAreCovered
  BY <1>1, <1>2, <1>3 DEF ExitsAreCovered, TypeOK, BrokerIInv
<1>5. TradesExplainBooks
  BY <1>1, <1>2, <1>3 DEF TradesExplainBooks
<1>6. TableInv /\ AttemptInv /\ MarkedInv
  BY <1>2 DEF TableInv, AttemptInv, MarkedInv
<1> QED
  BY <1>1, <1>4, <1>5, <1>6 DEF ReplayIInv, BrokerIInv

\* Every step keeps the invariant.
LEMMA ReplaySteps == ReplayIInv /\ [Next]_vars => ReplayIInv'
  BY QuietSteps, Stutter, MarkStep, TryExitStep, TryEntryStep, CloseStep, OpenStep DEF Next

\* The invariant of the replay, which the theorems below rest on.
THEOREM ReplayInvariance == Spec => []ReplayIInv
  BY Start, ReplaySteps, PTL DEF Spec

\* No exit of the replay opens a short: whatever _try_entry enters twice, the
\* guard rejects or a date without a bar skips, the shares of an open trade are
\* held by the broker.
THEOREM ExitsCovered == Spec => []ExitsAreCovered
<1>1. ReplayIInv => ExitsAreCovered
  BY DEF ReplayIInv
<1> QED
  BY <1>1, ReplayInvariance, PTL

\* open_trades and the positions of the broker, which _try_exit and _try_entry
\* update one after the other, hold the same shares at the same price, and
\* closed_trades add up to what the broker realized, as long as no symbol was
\* entered twice on a date.
THEOREM TableExplainsBooks == Spec => []TradesExplainBooks
<1>1. ReplayIInv => TradesExplainBooks
  BY DEF ReplayIInv
<1> QED
  BY <1>1, ReplayInvariance, PTL

\* set_price before check_order and place_order is what makes the daily loss limit
\* one on the result after the fill: no fill is the one that passes it.
THEOREM FillsStayWithinLoss == Spec => FillsKeepLossLimit
<1>1. ReplayIInv /\ [Next]_vars
         => [(CloseTrade \/ OpenTrade) /\ Equity > 0 /\ doubled = {} =>
                DayPnl'[1] * Whole100 > -(MaxDailyLoss * Equity' * DayPnl'[2])]_vars
  <2> SUFFICES ASSUME ReplayIInv, [Next]_vars, CloseTrade \/ OpenTrade, Equity > 0, doubled = {}
               PROVE  DayPnl'[1] * Whole100 > -(MaxDailyLoss * Equity' * DayPnl'[2])
    OBVIOUS
  <2>1. ReplayIInv'
    BY ReplaySteps
  <2>2. BrokerTypeOK'
    BY <2>1 DEF ReplayIInv, ExitsAreCovered, TypeOK
  <2> QED
    BY <2>2, FillKeeps
<1> QED
  BY <1>1, ReplayInvariance, PTL DEF Spec, FillsKeepLossLimit

\* What _try_entry overwrites in open_trades is never sold: the shares a symbol has
\* beyond those of its open trade never become fewer, however many exits follow.
THEOREM OverwrittenStaysHeld ==
    Spec => [][\A s \in Symbols : position'[s].quantity - trades'[s].quantity
                                  >= position[s].quantity - trades[s].quantity]_vars
<1>1. ASSUME ReplayIInv, [Next]_vars
      PROVE  \A s \in Symbols : position'[s].quantity - trades'[s].quantity
                                 >= position[s].quantity - trades[s].quantity
  <2>0. ReplayIInv'
    BY <1>1, ReplaySteps
  <2>1. \A s \in Symbols : /\ position[s].quantity \in Int /\ position'[s].quantity \in Int
                            /\ trades[s].quantity \in Nat /\ trades'[s].quantity \in Nat
    BY <1>1, <2>0, Typed DEF Position, Trade, ReplayIInv, ExitsAreCovered, TypeOK, BrokerTypeOK
  <2>2. CASE CloseTrade
    <3>1. PICK o, q : /\ o = attempt.order /\ o \in OrderRequest /\ o.limit_price # 0
                      /\ o.symbol \in Symbols /\ q \in Nat \ {0} /\ Signed(o) = -q
                      /\ q = trades[o.symbol].quantity
      BY <1>1, <2>2, ExitAttempt DEF CloseTrade
    <3>2. PlaceAndFill(o) /\ trades' = [trades EXCEPT ![o.symbol] = NoTrade]
      BY <2>2, <3>1 DEF CloseTrade
    <3>3. \A s \in Symbols : position'[s].quantity =
              position[s].quantity + (IF s = o.symbol THEN -q ELSE 0)
      BY <1>1, <3>1, <3>2, OrderTrades
    <3>4. /\ trades'[o.symbol].quantity = 0
          /\ \A s \in Symbols \ {o.symbol} : trades'[s] = trades[s]
      BY <1>1, <3>1, <3>2, Typed DEF NoTrade
    <3> QED
      BY <2>1, <3>1, <3>3, <3>4
  <2>3. CASE OpenTrade
    <3>1. PICK o, q : /\ o = attempt.order /\ o \in OrderRequest /\ o.limit_price # 0
                      /\ o.symbol \in Symbols /\ q \in Nat \ {0} /\ Signed(o) = q
                      /\ q = o.quantity
      BY <1>1, <2>3, EntryAttempt DEF OpenTrade
    <3>2. /\ PlaceAndFill(o)
          /\ \E entry, stop, target :
                trades' = [trades EXCEPT ![o.symbol] =
                              [quantity |-> q, entry |-> entry, stop |-> stop, target |-> target]]
      BY <2>3, <3>1 DEF OpenTrade
    <3>3. \A s \in Symbols : position'[s].quantity =
              position[s].quantity + (IF s = o.symbol THEN q ELSE 0)
      BY <1>1, <3>1, <3>2, OrderTrades
    <3>4. /\ trades'[o.symbol].quantity = q
          /\ \A s \in Symbols \ {o.symbol} : trades'[s] = trades[s]
      BY <1>1, <3>1, <3>2, Typed
    <3> QED
      BY <2>1, <3>1, <3>3, <3>4
  <2>4. ASSUME trades' = trades, \A u \in Symbols : position'[u].quantity = position[u].quantity
        PROVE  \A s \in Symbols : position'[s].quantity - trades'[s].quantity
                                   >= position[s].quantity - trades[s].quantity
    BY <2>1, <2>4
  <2>5. ASSUME NEW s \in Symbols, MarkClose(s) \/ TryExit(s)
        PROVE  trades' = trades /\ \A u \in Symbols : position'[u].quantity = position[u].quantity
    <3>1. \E price \in Nat : SetPrice(s, price)
      BY <1>1, <2>5, ReplayAssumption, Typed DEF MarkClose, TryExit, ExitPrice, Trade, ReplayIInv, TableInv
    <3> QED
      BY <1>1, <2>5, <3>1, PriceMarks DEF MarkClose, TryExit, table
  <2>6. ASSUME NEW g \in Signals, TryEntry(g)
        PROVE  trades' = trades /\ \A u \in Symbols : position'[u].quantity = position[u].quantity
    <3>1. g.symbol \in Symbols /\ g.entry \in Nat /\ SetPrice(g.symbol, g.entry)
      BY <2>6, ReplayAssumption DEF TryEntry
    <3> QED
      BY <1>1, <2>6, <3>1, PriceMarks DEF TryEntry, Takes, table
  <2>7. CASE \/ NewDate \/ BeginExits \/ BeginEntries \/ RejectExit \/ RejectEntry
             \/ \E s \in Symbols : KeepTrade(s)
             \/ \E g \in Signals : SkipSignal(g)
             \/ UNCHANGED vars
    <3>1. trades' = trades /\ position' = position
      BY <2>7 DEF NewDate, BeginExits, BeginEntries, RejectExit, RejectEntry, KeepTrade, SkipSignal,
                  Takes, vars, broker, table
    <3> QED
      BY <2>4, <3>1
  <2> QED
    BY <1>1, <2>2, <2>3, <2>4, <2>5, <2>6, <2>7 DEF Next
<1> QED
  BY <1>1, ReplayInvariance, PTL DEF Spec

\* Every step of the replay is one call of the broker, or leaves it alone.
LEMMA ReplayCalls == ASSUME ReplayIInv, [Next]_vars PROVE [BrokerCall]_broker
<1>1. ASSUME NEW s \in Symbols, MarkClose(s) PROVE BrokerCall
  <2>1. bar[s].close \in Nat
    BY <1>1, ReplayAssumption DEF MarkClose, ReplayIInv, TableInv
  <2> QED
    BY <1>1, <2>1 DEF MarkClose, BrokerCall
<1>2. ASSUME NEW s \in Symbols, TryExit(s) PROVE BrokerCall
  <2>1. ExitPrice(s) \in Nat
    BY <1>2, Typed DEF TryExit, ExitPrice, Trade
  <2> QED
    BY <1>2, <2>1 DEF TryExit, BrokerCall
<1>3. ASSUME NEW g \in Signals, TryEntry(g) PROVE BrokerCall
  BY <1>3, ReplayAssumption DEF TryEntry, BrokerCall
<1>4. ASSUME CloseTrade PROVE BrokerCall
  <2>1. attempt # NoAttempt
    BY <1>4 DEF CloseTrade, NoAttempt
  <2>2. attempt.order \in OrderRequest
    BY <1>4, <2>1, ExitAttempt DEF CloseTrade
  <2> QED
    BY <1>4, <2>2 DEF CloseTrade, BrokerCall, PlaceOrder
<1>5. ASSUME OpenTrade PROVE BrokerCall
  <2>1. attempt # NoAttempt
    BY <1>5 DEF OpenTrade, NoAttempt
  <2>2. attempt.order \in OrderRequest
    BY <1>5, <2>1, EntryAttempt DEF OpenTrade
  <2> QED
    BY <1>5, <2>2 DEF OpenTrade, BrokerCall, PlaceOrder
<1>6. ASSUME \/ NewDate \/ BeginExits \/ BeginEntries \/ RejectExit \/ RejectEntry
             \/ \E s \in Symbols : KeepTrade(s)
             \/ \E g \in Signals : SkipSignal(g)
             \/ UNCHANGED vars
      PROVE  UNCHANGED broker
  BY <1>6 DEF NewDate, BeginExits, BeginEntries, RejectExit, RejectEntry, KeepTrade, SkipSignal, vars
<1> QED
  BY <1>1, <1>2, <1>3, <1>4, <1>5, <1>6 DEF Next

\* The replay never unbalances the books of the broker, so its equity curve is
\* that of the orders it placed.
THEOREM ReplayBooksBalance == Spec => []BooksBalance
<1>1. ReplayIInv /\ BooksBalance /\ [Next]_vars => BooksBalance'
  BY Typed, ReplayCalls, BooksStep
<1>2. Init => BooksBalance
  BY BooksStart DEF Init
<1> QED
  BY <1>1, <1>2, ReplayInvariance, PTL DEF Spec

-----------------------------------------------------------------------------
(* The signals that a replay enters: what the strategies of                *)
(* strategies/equity make of the bars of a symbol.                         *)

\* The sums of the indicators are the library's.
LEMMA ScanSum ==
    ASSUME NEW f, NEW S, IsFiniteSet(S), DOMAIN f = S, \A x \in S : f[x] \in Int
    PROVE  SumFunction(f) = SumFunctionOnSet(f, S) /\ SumFunction(f) \in Int
<1>1. SumFunctionOnSet(f, S) \in Int
  BY SumType
<1> QED
  BY <1>1 DEF SumFunction

\* A sum of values up to a bound is at most as many times the bound.
LEMMA SumAtMost ==
    ASSUME NEW S, IsFiniteSet(S), NEW f, NEW c \in Int, \A x \in S : f[x] \in Int /\ f[x] <= c
    PROVE  SumFunctionOnSet(f, S) <= Cardinality(S) * c
<1> DEFINE A == {s \in SUBSET S : SumFunctionOnSet(f, s) <= Cardinality(s) * c}
<1>1. {} \in A
  BY SumEmpty, FS_EmptySet
<1>2. ASSUME NEW s \in SUBSET S, NEW r \in SUBSET S, s # {}, r = s \ {Pick(s)}, r \in A PROVE s \in A
  <2>1. Pick(s) \in s /\ IsFiniteSet(s) /\ IsFiniteSet(r)
    BY <1>2, PickIn, FS_Subset
  <2>2. SumFunctionOnSet(f, s) = SumFunctionOnSet(f, r) + f[Pick(s)]
    BY <1>2, <2>1, SumWithout
  <2>3. PICK n \in Nat : n = Cardinality(r) /\ Cardinality(s) = n + 1
    <3>1. Cardinality(r) \in Nat /\ Cardinality(s) \in Nat
      BY <2>1, FS_CardinalityType
    <3>2. Cardinality(r) = Cardinality(s) - 1
      BY <1>2, <2>1, FS_RemoveElement
    <3> QED
      BY <3>1, <3>2
  <2>4. PICK u, v \in Int : u = SumFunctionOnSet(f, r) /\ v = f[Pick(s)] /\ v <= c
    <3>1. SumFunctionOnSet(f, r) \in Int
      BY <2>1, SumType
    <3> QED
      BY <2>1, <3>1
  <2>5. u <= n * c
    BY <1>2, <2>3, <2>4
  <2>6. (n + 1) * c = n * c + c /\ n * c \in Int
    OBVIOUS
  <2> QED
    BY <2>2, <2>3, <2>4, <2>5, <2>6
<1> HIDE DEF A
<1>3. \A s \in SUBSET S : s \in A
  BY <1>1, <1>2, PickInduction
<1> QED
  BY <1>3 DEF A

\* The greatest and the least of a set of a few numbers.
LEMMA ScanExtremes ==
    ASSUME NEW a \in Int, NEW b \in Int, NEW c \in Int
    PROVE  /\ Max({a}) \in Int /\ Max({a} \cup {b, c}) \in Int
           /\ Min({a, b}) \in Int /\ Min({a, b}) <= b
<1>1. Max({a}) \in {a}
  <2>1. \E x \in {a} : \A y \in {a} : x >= y
    OBVIOUS
  <2> QED
    BY <2>1 DEF Max
<1>2. Max({a} \cup {b, c}) \in {a} \cup {b, c}
  <2> DEFINE S == {a} \cup {b, c}
  <2>1. \E x \in S : \A y \in S : x >= y
    OBVIOUS
  <2> HIDE DEF S
  <2>2. Max(S) \in S
    BY <2>1 DEF Max
  <2> QED
    BY <2>2 DEF S
<1>3. Min({a, b}) \in {a, b} /\ Min({a, b}) <= b
  <2> DEFINE S == {a, b}
  <2>1. \E x \in S : \A y \in S : x <= y
    OBVIOUS
  <2> HIDE DEF S
  <2>2. Min(S) \in S /\ \A y \in S : Min(S) <= y
    BY <2>1 DEF Min
  <2> QED
    BY <2>2 DEF S
<1> QED
  BY <1>1, <1>2, <1>3

\* A bar of the series has whole prices.
LEMMA BarFacts ==
    ASSUME bars \in Seq(DayBars), NEW i \in Int, 1 <= i, i <= Today
    PROVE  /\ bars[i].open \in Nat \ {0} /\ bars[i].high \in Nat \ {0} /\ bars[i].low \in Nat \ {0}
           /\ bars[i].close \in Nat \ {0} /\ bars[i].close <= bars[i].high
<1>1. bars[i] \in DayBars
  BY ElementOfSeq DEF Today
<1> QED
  BY <1>1, BarsAssumption

\* So has its range.
LEMMA RangeType ==
    ASSUME bars \in Seq(DayBars), NEW i \in Int, 1 <= i, i <= Today
    PROVE  TrueRange(i) \in Int
<1>0. Today \in Nat
  BY LenProperties DEF Today
<1>1. PICK a \in Int : a = bars[i].high - bars[i].low
  BY BarFacts
<1>2. CASE i = 1
  <2>1. TrueRange(i) = Max({a})
    BY <1>1, <1>2 DEF TrueRange
  <2> QED
    BY <2>1, ScanExtremes
<1>3. CASE i # 1
  <2>1. PICK j \in Int : j = i - 1 /\ 1 <= j /\ j <= Today
    BY <1>0, <1>3
  <2>2. bars[j].close \in Int /\ bars[i].high \in Int /\ bars[i].low \in Int
    BY <2>1, BarFacts
  <2>3. PICK b, c \in Int : /\ b = Distance(bars[i].high, bars[j].close)
                                /\ c = Distance(bars[i].low, bars[j].close)
    <3>1. \A m, n \in Int : Distance(m, n) \in Int
      BY DEF Distance
    <3> QED
      BY <2>2, <3>1
  <2>4. TrueRange(i) = Max({a} \cup {b, c})
    BY <1>1, <1>3, <2>1, <2>3 DEF TrueRange
  <2>5. Max({a} \cup {b, c}) \in Int
    BY ScanExtremes
  <2> QED
    BY <2>4, <2>5
<1> QED
  BY <1>2, <1>3

\* A window that is full is one of bars of the series.
LEMMA WindowFacts ==
    ASSUME NEW n \in Nat \ {0}, NEW i \in Nat, n <= i
    PROVE  /\ IsFiniteSet(Rolling(i, n)) /\ Cardinality(Rolling(i, n)) = n
           /\ \A j \in Rolling(i, n) : j \in Int /\ 1 <= j /\ j <= i /\ j > i - n
<1>1. PICK a \in Int : a = i - n + 1 /\ 1 <= a /\ a <= i
  OBVIOUS
<1>2. Rolling(i, n) = a..i
  BY <1>1 DEF Rolling
<1>3. IsFiniteSet(a..i) /\ Cardinality(a..i) = i - a + 1
  BY <1>1, FS_Interval
<1> QED
  BY <1>1, <1>2, <1>3

\* The average range over a full window is a number.
LEMMA AtrType ==
    ASSUME bars \in Seq(DayBars), NEW i \in Nat, AtrWindow <= i, i <= Today
    PROVE  AtrSum(i) \in Int
<1> DEFINE S == Rolling(i, AtrWindow)
           f == [j \in S |-> TrueRange(j)]
<1>0. Today \in Nat /\ AtrWindow \in Nat \ {0}
  BY LenProperties, WindowsAssumption DEF Today
<1>1. IsFiniteSet(S) /\ \A j \in S : j \in Int /\ 1 <= j /\ j <= i
  BY <1>0, WindowFacts
<1>2. \A j \in S : j \in Int /\ 1 <= j /\ j <= Today
  BY <1>0, <1>1
<1>3. \A j \in S : TrueRange(j) \in Int
  BY <1>2, RangeType
<1> HIDE DEF S
<1>4. DOMAIN f = S /\ \A j \in S : f[j] \in Int
  BY <1>3
<1>5. AtrSum(i) = SumFunction(f)
  BY DEF AtrSum, S
<1> HIDE DEF f
<1> QED
  BY <1>1, <1>4, <1>5, ScanSum

\* So is the average of the closes, and it is at most the greatest.
LEMMA SmaType ==
    ASSUME bars \in Seq(DayBars), NEW n \in Nat \ {0}, n <= Today
    PROVE  /\ SmaSum(n) \in Int
           /\ \A c \in Int : (\A j \in Rolling(Today, n) : bars[j].close <= c)
                                => SmaSum(n) <= n * c
<1> DEFINE S == Rolling(Today, n)
           f == [j \in S |-> bars[j].close]
<1>0. Today \in Nat
  BY LenProperties DEF Today
<1>1. /\ IsFiniteSet(S) /\ Cardinality(S) = n
      /\ \A j \in S : j \in Int /\ 1 <= j /\ j <= Today
  BY <1>0, WindowFacts
<1>2. \A j \in S : bars[j].close \in Int
  BY <1>1, BarFacts
<1> HIDE DEF S
<1>3. DOMAIN f = S /\ \A j \in S : f[j] \in Int /\ f[j] = bars[j].close
  BY <1>2
<1>4. SmaSum(n) = SumFunction(f)
  BY DEF SmaSum, S
<1> HIDE DEF f
<1>5. SumFunction(f) = SumFunctionOnSet(f, S) /\ SumFunction(f) \in Int
  BY <1>1, <1>3, ScanSum
<1>6. ASSUME NEW c \in Int, \A j \in S : bars[j].close <= c PROVE SmaSum(n) <= n * c
  <2>1. SumFunctionOnSet(f, S) <= Cardinality(S) * c
    BY <1>1, <1>3, <1>6, SumAtMost
  <2> QED
    BY <1>1, <1>4, <1>5, <2>1
<1> QED
  BY <1>4, <1>5, <1>6 DEF S

\* What a strategy's multiple of the average range leaves between the latest close
\* and the stop.
LEMMA StopLeavesRoom ==
    ASSUME bars \in Seq(DayBars), Today >= 1,
           NEW twice \in Nat \ {0}, NEW atr \in Int, atr > 0,
           NEW entry, entry = Latest.close * Unit,
           NEW room, room = twice * atr * Window
    PROVE  /\ entry \in Int /\ room \in Int /\ room > 0
           /\ AtrStop(twice, atr) = entry - room
           /\ \A level \in Int : /\ StopAt(level, twice, atr) \in Int
                                 /\ StopAt(level, twice, atr) <= entry - room
<1>1. /\ AtrWindow \in Nat \ {0} /\ Window \in Nat \ {0} /\ Today \in Nat
  BY LenProperties, WindowsAssumption DEF Today
<1>2. Latest.close \in Nat
  BY <1>1, BarFacts DEF Latest
<1>3. Unit \in Nat
  BY <1>1 DEF Unit
<1>4. entry \in Int
  BY <1>2, <1>3
<1>5. room \in Int /\ room > 0
  <2>1. twice * atr \in Nat \ {0}
    BY PositiveTimes
  <2>2. twice * atr * Window \in Nat \ {0}
    BY <1>1, <2>1, PositiveTimes
  <2> QED
    BY <2>2
<1>6. AtrStop(twice, atr) = entry - room
  BY DEF AtrStop
<1>7. ASSUME NEW level \in Int
      PROVE  StopAt(level, twice, atr) \in Int /\ StopAt(level, twice, atr) <= entry - room
  <2>1. PICK a, b \in Int : a = level * Unit /\ b = entry - room
    BY <1>3, <1>4, <1>5
  <2>2. StopAt(level, twice, atr) = Min({a, b})
    BY <1>6, <2>1 DEF StopAt
  <2>3. Min({a, b}) \in Int /\ Min({a, b}) <= b
    BY ScanExtremes
  <2> QED
    BY <2>1, <2>2, <2>3
<1> QED
  BY <1>4, <1>5, <1>6, <1>7

\* What SignalsLeaveRoom says of a signal.
Room(g) ==
    LET atrSum == IF g.strategy = "gap_and_go" THEN AtrSum(Today - 1) ELSE AtrSum(Today)
        twice == CASE g.strategy = "momentum_breakout" -> 4
                   [] g.strategy = "trend_pullback" -> 2
                   [] OTHER -> 3
    IN  /\ g.stop < g.entry /\ g.entry < g.target
        /\ g.entry - g.stop >= twice * atrSum * Window

\* A target of twice the risk is above the entry.
LEMMA LongFacts ==
    ASSUME NEW name, NEW stop \in Int, NEW entry \in Int, entry = Latest.close * Unit, stop < entry
    PROVE  /\ Long(name, stop).strategy = name
           /\ Long(name, stop).entry = entry
           /\ Long(name, stop).stop = stop
           /\ entry < Long(name, stop).target
<1>1. Long(name, stop) = [strategy |-> name, entry |-> entry, stop |-> stop, target |-> 3 * entry - 2 * stop]
  BY DEF Long
<1> QED
  BY <1>1

\* The windows of every strategy are full when it proposes.
LEMMA WindowsFull ==
    ASSUME bars \in Seq(DayBars)
    PROVE  /\ Today \in Nat /\ {AtrWindow, Window, SlowWindow, Lookback} \subseteq Nat \ {0}
           /\ AtrWindow <= Lookback + 2 /\ AtrWindow <= Window + 2
           /\ Window <= SlowWindow /\ Window <= Lookback + 1
           /\ AtrWindow <= Today => AtrSum(Today) \in Int
           /\ AtrWindow <= Today - 1 => AtrSum(Today - 1) \in Int
<1>1. /\ Today \in Nat /\ {AtrWindow, Window, SlowWindow, Lookback} \subseteq Nat \ {0}
      /\ AtrWindow <= Lookback + 2 /\ AtrWindow <= Window + 2
      /\ Window <= SlowWindow /\ Window <= Lookback + 1
  BY LenProperties, WindowsAssumption DEF Today
<1>2. ASSUME AtrWindow <= Today PROVE AtrSum(Today) \in Int
  BY <1>1, <1>2, AtrType
<1>3. ASSUME AtrWindow <= Today - 1 PROVE AtrSum(Today - 1) \in Int
  <2>1. PICK i \in Nat : i = Today - 1 /\ AtrWindow <= i /\ i <= Today
    BY <1>1, <1>3
  <2>2. AtrSum(i) \in Int
    BY <2>1, AtrType
  <2> QED
    BY <2>1, <2>2
<1> QED
  BY <1>1, <1>2, <1>3

\* Every strategy leaves its room.
LEMMA ProposalsLeaveRoom ==
    ASSUME bars \in Seq(DayBars), NEW g \in Proposed
    PROVE  Room(g)
<1> DEFINE entry == Latest.close * Unit
           atr == AtrSum(Today)
<1>1. /\ Today \in Nat /\ {AtrWindow, Window, SlowWindow, Lookback} \subseteq Nat \ {0}
      /\ AtrWindow <= Lookback + 2 /\ AtrWindow <= Window + 2 /\ Window <= SlowWindow
  BY WindowsFull
<1>2. 4 \in Nat \ {0} /\ 3 \in Nat \ {0} /\ 2 \in Nat \ {0}
  OBVIOUS
<1>3. CASE g \in MomentumBreakout
  <2>1. /\ Today >= Lookback + 2 /\ atr > 0
        /\ g = Long("momentum_breakout", AtrStop(4, atr))
    BY <1>3 DEF MomentumBreakout
  <2>2. atr \in Int /\ Today >= 1
    BY <1>1, <2>1, WindowsFull
  <2>3. PICK room : room = 4 * atr * Window
    OBVIOUS
  <2>4. entry \in Int /\ room \in Int /\ room > 0 /\ AtrStop(4, atr) = entry - room
    <3>1. entry \in Int /\ room \in Int /\ room > 0
      BY <1>2, <2>1, <2>2, <2>3, StopLeavesRoom
    <3> QED
      BY <2>3, <3>1 DEF AtrStop
  <2> HIDE DEF entry, atr
  <2>5. PICK stop \in Int : stop = AtrStop(4, atr) /\ stop = entry - room /\ stop < entry
    BY <2>4
  <2>6. /\ g.strategy = "momentum_breakout" /\ g.entry = entry /\ g.stop = stop /\ entry < g.target
    BY <2>1, <2>4, <2>5, LongFacts DEF entry
  <2>7. g.entry - g.stop >= 4 * atr * Window
    BY <2>3, <2>4, <2>5, <2>6
  <2> QED
    BY <2>5, <2>6, <2>7 DEF Room, atr
<1>4. CASE g \in GapAndGo
  <2> DEFINE past == AtrSum(Today - 1)
  <2>1. /\ Today >= AtrWindow + 2 /\ past > 0
        /\ g = Long("gap_and_go", StopAt(Latest.open, 3, past))
    BY <1>4 DEF GapAndGo
  <2>2. past \in Int /\ Today >= 1
    BY <1>1, <2>1, WindowsFull
  <2>3. PICK room : room = 3 * past * Window
    OBVIOUS
  <2>4. Latest.open \in Int
    BY <1>1, <2>2, BarFacts DEF Latest
  <2>5. /\ entry \in Int /\ room \in Int /\ room > 0
        /\ StopAt(Latest.open, 3, past) \in Int
        /\ StopAt(Latest.open, 3, past) <= entry - room
    BY <1>2, <2>1, <2>2, <2>3, <2>4, StopLeavesRoom
  <2> HIDE DEF entry, past
  <2>6. PICK stop \in Int : stop = StopAt(Latest.open, 3, past) /\ stop <= entry - room /\ stop < entry
    BY <2>5
  <2>7. g.strategy = "gap_and_go" /\ g.entry = entry /\ g.stop = stop /\ entry < g.target
    BY <2>1, <2>5, <2>6, LongFacts DEF entry
  <2>8. g.entry - g.stop >= 3 * past * Window
    BY <2>3, <2>5, <2>6, <2>7
  <2> QED
    BY <2>6, <2>7, <2>8 DEF Room, past
<1>5. CASE g \in MeanReversion
  <2> DEFINE target == SmaSum(Window) * 2 * AtrWindow
  <2>1. /\ Today >= Window + 2 /\ atr > 0 /\ target > entry
        /\ g = [Long("mean_reversion", AtrStop(3, atr)) EXCEPT !.target = target]
    BY <1>5 DEF MeanReversion
  <2>2. atr \in Int /\ Today >= 1 /\ target \in Int
    <3>1. atr \in Int /\ Today >= 1 /\ Window <= Today
      BY <1>1, <2>1, WindowsFull
    <3>2. SmaSum(Window) \in Int
      BY <1>1, <3>1, SmaType
    <3> QED
      BY <1>1, <3>1, <3>2
  <2>3. PICK room : room = 3 * atr * Window
    OBVIOUS
  <2>4. entry \in Int /\ room \in Int /\ room > 0 /\ AtrStop(3, atr) = entry - room
    <3>1. entry \in Int /\ room \in Int /\ room > 0
      BY <1>2, <2>1, <2>2, <2>3, StopLeavesRoom
    <3> QED
      BY <2>3, <3>1 DEF AtrStop
  <2> HIDE DEF entry, atr, target
  <2>5. PICK stop \in Int : stop = AtrStop(3, atr) /\ stop = entry - room /\ stop < entry
    BY <2>4
  <2>6. g.strategy = "mean_reversion" /\ g.entry = entry /\ g.stop = stop /\ g.target = target
    BY <2>1, <2>5 DEF Long, entry
  <2>7. g.entry - g.stop >= 3 * atr * Window /\ g.entry < g.target
    BY <2>1, <2>2, <2>3, <2>4, <2>5, <2>6
  <2> QED
    BY <2>5, <2>6, <2>7 DEF Room, atr
<1>6. CASE g \in VWAPReclaim
  <2>1. /\ Today >= AtrWindow + 2 /\ atr > 0
        /\ g = Long("vwap_reclaim", StopAt(Latest.low, 3, atr))
    BY <1>6 DEF VWAPReclaim
  <2>2. atr \in Int /\ Today >= 1
    BY <1>1, <2>1, WindowsFull
  <2>3. PICK room : room = 3 * atr * Window
    OBVIOUS
  <2>4. Latest.low \in Int
    BY <1>1, <2>2, BarFacts DEF Latest
  <2>5. /\ entry \in Int /\ room \in Int /\ room > 0
        /\ StopAt(Latest.low, 3, atr) \in Int
        /\ StopAt(Latest.low, 3, atr) <= entry - room
    BY <1>2, <2>1, <2>2, <2>3, <2>4, StopLeavesRoom
  <2> HIDE DEF entry, atr
  <2>6. PICK stop \in Int : stop = StopAt(Latest.low, 3, atr) /\ stop <= entry - room /\ stop < entry
    BY <2>5
  <2>7. g.strategy = "vwap_reclaim" /\ g.entry = entry /\ g.stop = stop /\ entry < g.target
    BY <2>1, <2>5, <2>6, LongFacts DEF entry
  <2>8. g.entry - g.stop >= 3 * atr * Window
    BY <2>3, <2>5, <2>6, <2>7
  <2> QED
    BY <2>6, <2>7, <2>8 DEF Room, atr
<1>7. CASE g \in TrendPullback
  <2>1. /\ Today >= SlowWindow + 2 /\ atr > 0
        /\ g = Long("trend_pullback", StopAt(Latest.low - 1, 2, atr))
    BY <1>7 DEF TrendPullback
  <2>2. atr \in Int /\ Today >= 1
    BY <1>1, <2>1, WindowsFull
  <2>3. PICK room : room = 2 * atr * Window
    OBVIOUS
  <2>4. PICK level \in Int : level = Latest.low - 1
    BY <1>1, <2>2, BarFacts DEF Latest
  <2>5. /\ entry \in Int /\ room \in Int /\ room > 0
        /\ StopAt(level, 2, atr) \in Int
        /\ StopAt(level, 2, atr) <= entry - room
    BY <1>2, <2>1, <2>2, <2>3, StopLeavesRoom
  <2> HIDE DEF entry, atr
  <2>6. PICK stop \in Int : stop = StopAt(level, 2, atr) /\ stop <= entry - room /\ stop < entry
    BY <2>5
  <2>7. g.strategy = "trend_pullback" /\ g.entry = entry /\ g.stop = stop /\ entry < g.target
    BY <2>1, <2>4, <2>5, <2>6, LongFacts DEF entry
  <2>8. g.entry - g.stop >= 2 * atr * Window
    BY <2>3, <2>5, <2>6, <2>7
  <2> QED
    BY <2>6, <2>7, <2>8 DEF Room, atr
<1> QED
  BY <1>3, <1>4, <1>5, <1>6, <1>7 DEF Proposed

\* The names of the signals tell the strategies apart.
LEMMA WhoProposed ==
    ASSUME NEW g \in Proposed
    PROVE  /\ g.strategy = "mean_reversion" => g \in MeanReversion
           /\ g.strategy = "momentum_breakout" => g \in MomentumBreakout
           /\ g.strategy = "trend_pullback" => g \in TrendPullback
<1>1. g \in MomentumBreakout => g.strategy = "momentum_breakout"
  BY DEF MomentumBreakout, Long
<1>2. g \in GapAndGo => g.strategy = "gap_and_go"
  BY DEF GapAndGo, Long
<1>3. g \in MeanReversion => g.strategy = "mean_reversion"
  BY DEF MeanReversion, Long
<1>4. g \in VWAPReclaim => g.strategy = "vwap_reclaim"
  BY DEF VWAPReclaim, Long
<1>5. g \in TrendPullback => g.strategy = "trend_pullback"
  BY DEF TrendPullback, Long
<1> QED
  BY <1>1, <1>2, <1>3, <1>4, <1>5 DEF Proposed

\* A finite set of numbers has a greatest one, by the library's Max.
LEMMA ScanGreatest ==
    ASSUME NEW S \in SUBSET Int, IsFiniteSet(S), S # {}
    PROVE  Max(S) \in S /\ \A x \in S : x <= Max(S)
<1> DEFINE A == {s \in SUBSET S : s # {} => \E x \in s : \A y \in s : y <= x}
<1>1. {} \in A
  OBVIOUS
<1>2. ASSUME NEW s \in SUBSET S, NEW r \in SUBSET S, s # {}, r = s \ {Pick(s)}, r \in A PROVE s \in A
  <2>1. PICK p \in Int : p = Pick(s) /\ p \in s
    BY <1>2, PickIn
  <2>2. CASE r = {}
    <3>1. \A y \in s : y = p /\ y <= p
      BY <1>2, <2>1, <2>2
    <3> QED
      BY <2>1, <3>1
  <2>3. CASE r # {}
    <3>1. PICK x \in r : \A y \in r : y <= x
      BY <1>2, <2>3
    <3>2. x \in Int /\ x \in s /\ \A y \in s : y \in Int /\ (y = p \/ y <= x)
      BY <1>2, <2>1, <3>1
    <3>3. CASE p <= x
      BY <3>2, <3>3
    <3>4. CASE x < p
      <4>1. \A y \in s : y <= p
        BY <3>2, <3>4
      <4> QED
        BY <2>1, <4>1
    <3> QED
      BY <3>2, <3>3, <3>4
  <2> QED
    BY <2>2, <2>3
<1> HIDE DEF A
<1>3. S \in A
  BY <1>1, <1>2, PickInduction
<1>4. \E x \in S : \A y \in S : x >= y
  BY <1>3 DEF A
<1>5. Max(S) \in S /\ \A y \in S : Max(S) >= y
  BY <1>4 DEF Max
<1> QED
  BY <1>5

\* A close above every high of the lookback is not below the mean of the shorter
\* window.
LEMMA BreakoutAboveMean ==
    ASSUME bars \in Seq(DayBars), NEW g \in MomentumBreakout
    PROVE  SmaSum(Window) <= Window * Latest.close
<1> DEFINE prior == Rolling(Today - 1, Lookback)
           highs == {bars[i].high : i \in prior}
<1>1. /\ Today \in Nat /\ Window \in Nat \ {0} /\ Lookback \in Nat \ {0}
      /\ Window <= Lookback + 1
  BY WindowsFull
<1>2. Today >= Lookback + 2 /\ Latest.close > Max(highs)
  BY DEF MomentumBreakout
<1>3. PICK last \in Nat : last = Today - 1 /\ Lookback <= last /\ last < Today /\ Today = last + 1
  BY <1>1, <1>2
<1>4. PICK close \in Nat : close = Latest.close /\ close = bars[Today].close
  BY <1>1, <1>2, BarFacts DEF Latest
<1>5. /\ IsFiniteSet(prior) /\ Cardinality(prior) = Lookback
      /\ \A i \in prior : i \in Int /\ 1 <= i /\ i <= last
  BY <1>1, <1>3, WindowFacts
<1>6. ASSUME NEW i \in prior PROVE bars[i].high \in Nat /\ bars[i].close \in Nat /\ bars[i].close <= bars[i].high
  <2>1. i \in Int /\ 1 <= i /\ i <= Today
    BY <1>3, <1>5
  <2> QED
    BY <2>1, BarFacts
<1>7. \A i \in prior : bars[i].high < close
  <2>1. IsFiniteSet(highs)
    <3> DEFINE v == [i \in prior |-> bars[i].high]
    <3>1. v \in Surjection(prior, highs)
      BY DEF Surjection
    <3> QED
      BY <1>5, <3>1, FS_Surjection
  <2>2. prior # {}
    BY <1>1, <1>5, FS_EmptySet
  <2>3. highs \in SUBSET Int /\ highs # {}
    BY <1>6, <2>2
  <2>4. \A i \in prior : bars[i].high \in highs
    OBVIOUS
  <2> HIDE DEF highs, prior
  <2>5. Max(highs) \in highs /\ \A x \in highs : x <= Max(highs)
    BY <2>1, <2>3, ScanGreatest
  <2>6. PICK m \in Int : m = Max(highs) /\ m < close
    BY <1>2, <1>4, <2>3, <2>5
  <2>7. ASSUME NEW i \in prior PROVE bars[i].high < close
    <3>1. PICK x \in Int : x = bars[i].high /\ x <= m
      BY <2>3, <2>4, <2>5, <2>6
    <3> QED
      BY <2>6, <3>1
  <2> QED
    BY <2>7
<1>8. ASSUME NEW j \in Rolling(Today, Window) PROVE bars[j].close <= close
  <2>1. j \in Int /\ j <= Today /\ j > Today - Window
    BY <1>1, <1>2, WindowFacts
  <2>2. CASE j = Today
    BY <1>4, <2>2
  <2>3. CASE j # Today
    <3>1. j \in prior
      BY <1>1, <1>3, <2>1, <2>3 DEF Rolling
    <3> HIDE DEF prior
    <3> QED
      BY <1>4, <1>6, <1>7, <3>1
  <2> QED
    BY <2>2, <2>3
<1>9. Window <= Today
  BY <1>1, <1>2
<1>10. \A c \in Int : (\A j \in Rolling(Today, Window) : bars[j].close <= c)
                          => SmaSum(Window) <= Window * c
  BY <1>1, <1>9, SmaType
<1>11. close \in Int
  OBVIOUS
<1> QED
  BY <1>4, <1>8, <1>10, <1>11

\* A symbol that is oversold closed below its mean, one that breaks out or bounces
\* did not.
LEMMA OversoldIsNotStrong ==
    ASSUME bars \in Seq(DayBars), NEW g \in Proposed, NEW h \in Proposed,
           g.strategy = "mean_reversion"
    PROVE  h.strategy # "momentum_breakout" /\ h.strategy # "trend_pullback"
<1>1. g \in MeanReversion
  BY WhoProposed
<1>2. Today >= Window + 2 /\ SmaSum(Window) - Window * Latest.close > 0
  BY <1>1 DEF MeanReversion, Oversold
<1>3. Today \in Nat /\ Window \in Nat \ {0}
  BY WindowsFull
<1>4. PICK sum, bound \in Int : sum = SmaSum(Window) /\ bound = Window * Latest.close
  <2>1. Window <= Today /\ 1 <= Today
    BY <1>2, <1>3
  <2>2. SmaSum(Window) \in Int
    BY <1>3, <2>1, SmaType
  <2>3. Latest.close \in Int
    BY <1>3, <2>1, BarFacts DEF Latest
  <2> QED
    BY <1>3, <2>2, <2>3
<1>5. sum > bound
  BY <1>2, <1>4
<1>6. ASSUME h.strategy = "momentum_breakout" PROVE FALSE
  <2>1. h \in MomentumBreakout
    BY <1>6, WhoProposed
  <2>2. sum <= bound
    BY <1>4, <2>1, BreakoutAboveMean
  <2> QED
    BY <1>5, <2>2
<1>7. ASSUME h.strategy = "trend_pullback" PROVE FALSE
  <2>1. h \in TrendPullback
    BY <1>7, WhoProposed
  <2>2. bound > sum
    BY <1>4, <2>1 DEF TrendPullback
  <2> QED
    BY <1>5, <2>2
<1> QED
  BY <1>6, <1>7

\* What the strategies make of the bars stays as it is while they do.
LEMMA SameBars ==
    ASSUME bars' = bars
    PROVE  Proposed' = Proposed
  BY DEF Proposed, MomentumBreakout, GapAndGo, MeanReversion, VWAPReclaim,
         TrendPullback, Long, StopAt, AtrStop, Oversold, BelowVwap,
         AboveVwap, Volume, VolumePrice3, AtrSum, TrueRange, SmaSum,
         Previous, Latest, Today

\* The signals are those of the bars there are.
LEMMA ScanInvariance == ScanSpec => []ScanInv
<1>1. ScanInit => ScanInv
  BY DEF ScanInit, ScanInv
<1>2. ScanInv /\ [ScanNext]_scanVars => ScanInv'
  <2> SUFFICES ASSUME ScanInv, [ScanNext]_scanVars PROVE ScanInv'
    OBVIOUS
  <2>1. bars \in Seq(DayBars) /\ signals \in {{}, Proposed}
    BY DEF ScanInv
  <2>2. ASSUME NEW b \in DayBars, NewBar(b) PROVE ScanInv'
    <3>1. bars' = Append(bars, b) /\ signals' = {}
      BY <2>2 DEF NewBar
    <3>2. bars' \in Seq(DayBars)
      BY <2>1, <3>1
    <3> QED
      BY <3>1, <3>2 DEF ScanInv
  <2>3. CASE RunStrategies
    <3>1. bars' = bars /\ signals' = Proposed
      BY <2>3 DEF RunStrategies
    <3> QED
      BY <2>1, <3>1, SameBars DEF ScanInv
  <2>4. CASE UNCHANGED scanVars
    <3>1. bars' = bars /\ signals' = signals
      BY <2>4 DEF scanVars
    <3> QED
      BY <2>1, <3>1, SameBars DEF ScanInv
  <2> QED
    BY <2>2, <2>3, <2>4 DEF ScanNext
<1> QED
  BY <1>1, <1>2, PTL DEF ScanSpec

\* Whatever the bars and the windows, the stop of a signal is below its entry by
\* the strategy's multiple of the average range and its target above it: what
\* fixed_fractional_size, the bracket and the replay take for granted.
THEOREM SignalsAlwaysLeaveRoom == ScanSpec => []SignalsLeaveRoom
<1>1. ScanInv => SignalsLeaveRoom
  <2> SUFFICES ASSUME ScanInv, NEW g \in signals PROVE Room(g)
    BY DEF SignalsLeaveRoom, Room
  <2>1. bars \in Seq(DayBars) /\ g \in Proposed
    BY DEF ScanInv
  <2> QED
    BY <2>1, ProposalsLeaveRoom
<1> QED
  BY <1>1, ScanInvariance, PTL

\* No symbol is proposed as oversold and as strong on the same bars.
THEOREM NeverBothOversoldAndStrong == ScanSpec => []NeverOversoldAndStrong
<1>1. ScanInv => NeverOversoldAndStrong
  <2> SUFFICES ASSUME ScanInv, NEW g \in signals, g.strategy = "mean_reversion", NEW h \in signals
               PROVE  h.strategy # "momentum_breakout" /\ h.strategy # "trend_pullback"
    BY DEF NeverOversoldAndStrong
  <2>1. bars \in Seq(DayBars) /\ g \in Proposed /\ h \in Proposed
    BY DEF ScanInv
  <2> QED
    BY <2>1, OversoldIsNotStrong
<1> QED
  BY <1>1, ScanInvariance, PTL
=============================================================================
