-------------------------------- MODULE Replay --------------------------------
(***************************************************************************)
(* backtest/replay.py: historical bars driven through sizing, the guard    *)
(* and a FakeBroker.  On each date the closes are marked, open trades try  *)
(* their exits, and signals of symbols without an open trade are entered   *)
(* in rank order.  The replay keeps its own table of open trades beside    *)
(* the broker's positions; no order has a parent, so nothing waits.        *)
(***************************************************************************)
EXTENDS FakeBroker, RiskChecks

CONSTANTS
    Signals,   \* what the strategies may propose: [symbol, entry, stop, target]
    Bars,      \* what a date may bring a symbol: [low, high, close]
    NoBar,     \* a date on which a symbol has no bar
    Risk,      \* risk_pct, in basis points
    MaxDates   \* bound on the dates

ASSUME ReplayAssumption ==
    /\ \A g \in Signals : /\ g.symbol \in Symbols
                          /\ g.stop \in Nat \ {0} /\ g.entry \in Nat /\ g.target \in Nat
                          /\ g.stop < g.entry /\ g.entry < g.target
    /\ \A b \in Bars : /\ {b.low, b.high, b.close} \subseteq Nat \ {0}
                       /\ b.low <= b.close /\ b.close <= b.high
    /\ NoBar \notin Bars
    /\ Risk \in 1..Whole100
    /\ MaxDates \in Nat

VARIABLES
    date,     \* dates begun
    phase,    \* which of the three loops of a date runs
    bar,      \* the bar of each symbol on this date
    todo,     \* symbols the loop has yet to look at
    trades,   \* open_trades: quantity (0 for no trade), entry, stop, target
    tried,    \* signals entered or dropped on this date
    attempt,  \* the order on its way to the guard; its signal, for an entry
    closed    \* sum of pnl over closed_trades

\* History: symbols entered while a trade of theirs was open.
VARIABLE doubled

loop == <<date, phase, bar, todo>>
table == <<trades, closed, doubled>>
vars == <<broker, loop, table, tried, attempt>>

Phases == {"mark", "exit", "entry"}

Trade == [quantity : Nat, entry : Nat, stop : Nat, target : Nat]
NoTrade == [quantity |-> 0, entry |-> 0, stop |-> 0, target |-> 0]
NoAttempt == [kind |-> "none"]

Init ==
    /\ BrokerInit
    /\ date = 0
    /\ phase = "entry"
    /\ bar = [s \in Symbols |-> NoBar]
    /\ todo = {}
    /\ trades = [s \in Symbols |-> NoTrade]
    /\ tried = {}
    /\ attempt = NoAttempt
    /\ closed = 0
    /\ doubled = {}

-----------------------------------------------------------------------------
(* Orders and their context.                                               *)

Order(s, action, quantity, price) ==
    [symbol |-> s, action |-> action, quantity |-> quantity, order_type |-> "LMT",
     limit_price |-> price, stop_price |-> 0, parent_id |-> NoParent]

\* The result summed over the positions, and the whole realized one: nothing in
\* the broker starts it afresh on a new day.
Unrealized == FoldSet(LAMBDA s, sum : Plus(sum, position[s].unrealized), Whole(0), Held)

\* Mutant of GuardContext: the results of the day are left at their defaults.
ContextWithoutPnl(isNew, notional) ==
    [Context(Equity, Cardinality(Held), isNew) EXCEPT !.current_position_notional = notional]

\* _guard_context.
GuardContext(isNew, notional) ==
    [Context(Equity, Cardinality(Held), isNew) EXCEPT
        !.day_realized_pnl = realized,
        !.day_unrealized_pnl = Unrealized,
        !.current_position_notional = notional]

\* The default contract of an order is a stock.
OfStock(o) ==
    [sec_type |-> "STK", action |-> o.action, quantity |-> o.quantity,
     order_type |-> o.order_type, limit_price |-> o.limit_price, stop_price |-> o.stop_price]

\* guard.check_order, with no kill file and a paper account.
GuardAdmits(o, ctx) == Admits(FALSE, OfStock(o), ctx)

-----------------------------------------------------------------------------
(* The date and its closes.                                                *)

NewDate ==
    /\ phase = "entry" /\ attempt = NoAttempt /\ date < MaxDates
    /\ date' = date + 1
    /\ phase' = "mark"
    /\ bar' \in [Symbols -> Bars \cup {NoBar}]
    /\ todo' = {s \in Symbols : bar'[s] # NoBar}
    /\ UNCHANGED <<broker, table, tried, attempt>>

MarkClose(s) ==
    /\ phase = "mark" /\ s \in todo
    /\ SetPrice(s, bar[s].close)
    /\ todo' = todo \ {s}
    /\ UNCHANGED <<date, phase, bar, table, tried, attempt>>

-----------------------------------------------------------------------------
(* _try_exit.                                                              *)

BeginExits ==
    /\ phase = "mark" /\ todo = {}
    /\ phase' = "exit"
    /\ todo' = {s \in Symbols : trades[s] # NoTrade /\ bar[s] # NoBar}
    /\ UNCHANGED <<broker, date, bar, table, tried, attempt>>

\* The stop if the bar reaches it, else the target if it reaches that, else 0.
ExitPrice(s) ==
    IF bar[s].low <= trades[s].stop THEN trades[s].stop
    ELSE IF bar[s].high >= trades[s].target THEN trades[s].target
    ELSE 0

KeepTrade(s) ==
    /\ phase = "exit" /\ s \in todo /\ attempt = NoAttempt
    /\ ExitPrice(s) = 0
    /\ todo' = todo \ {s}
    /\ UNCHANGED <<broker, date, phase, bar, table, tried, attempt>>

TryExit(s) ==
    /\ phase = "exit" /\ s \in todo /\ attempt = NoAttempt
    /\ ExitPrice(s) # 0
    /\ SetPrice(s, ExitPrice(s))
    /\ attempt' = [kind |-> "exit", order |-> Order(s, "SELL", trades[s].quantity, ExitPrice(s))]
    /\ todo' = todo \ {s}
    /\ UNCHANGED <<date, phase, bar, table, tried>>

ExitContext(o) == GuardContext(FALSE, o.quantity * o.limit_price)

\* Mutant of CloseTrade: the trade stays in the table.
CloseTradeKeepsIt ==
    LET o == attempt.order
    IN  /\ attempt.kind = "exit"
        /\ GuardAdmits(o, ExitContext(o))
        /\ PlaceAndFill(o)
        /\ closed' = closed + (o.limit_price - trades[o.symbol].entry) * o.quantity
        /\ attempt' = NoAttempt
        /\ UNCHANGED <<loop, trades, tried, doubled>>

\* The order trades and the trade leaves the table for closed_trades.
CloseTrade ==
    LET o == attempt.order
    IN  /\ attempt.kind = "exit"
        /\ GuardAdmits(o, ExitContext(o))
        /\ PlaceAndFill(o)
        /\ closed' = closed + (o.limit_price - trades[o.symbol].entry) * o.quantity
        /\ trades' = [trades EXCEPT ![o.symbol] = NoTrade]
        /\ attempt' = NoAttempt
        /\ UNCHANGED <<loop, tried, doubled>>

\* Mutant of RejectExit: the trade is taken for closed.
RejectExitForgets ==
    /\ attempt.kind = "exit"
    /\ ~GuardAdmits(attempt.order, ExitContext(attempt.order))
    /\ trades' = [trades EXCEPT ![attempt.order.symbol] = NoTrade]
    /\ attempt' = NoAttempt
    /\ UNCHANGED <<broker, loop, closed, doubled, tried>>

\* GuardRejection: the trade stays open for the next date.
RejectExit ==
    /\ attempt.kind = "exit"
    /\ ~GuardAdmits(attempt.order, ExitContext(attempt.order))
    /\ attempt' = NoAttempt
    /\ UNCHANGED <<broker, loop, table, tried>>

-----------------------------------------------------------------------------
(* _try_entry.                                                             *)

\* Which symbols may be entered is settled before the first entry of the date.
BeginEntries ==
    /\ phase = "exit" /\ todo = {} /\ attempt = NoAttempt
    /\ phase' = "entry"
    /\ todo' = {s \in Symbols : trades[s] = NoTrade /\ bar[s] # NoBar}
    /\ tried' = {}
    /\ UNCHANGED <<broker, date, bar, table, attempt>>

SizeOf(g) == FixedFractionalSize(Equity, Risk, g.entry, g.stop, 1)

Takes(g) ==
    /\ phase = "entry" /\ attempt = NoAttempt
    /\ g.symbol \in todo /\ g \notin tried
    /\ tried' = tried \cup {g}
    /\ UNCHANGED <<loop, table>>

SkipSignal(g) ==
    /\ Takes(g)
    /\ SizeOf(g) <= 0
    /\ UNCHANGED <<broker, attempt>>

TryEntry(g) ==
    /\ Takes(g)
    /\ SizeOf(g) > 0
    /\ SetPrice(g.symbol, g.entry)
    /\ attempt' = [kind |-> "entry", order |-> Order(g.symbol, "BUY", SizeOf(g), g.entry), signal |-> g]

EntryContext == GuardContext(TRUE, 0)

\* The order trades and the trade takes the symbol's place in the table.
OpenTrade ==
    LET o == attempt.order
        g == attempt.signal
    IN  /\ attempt.kind = "entry"
        /\ GuardAdmits(o, EntryContext)
        /\ PlaceAndFill(o)
        /\ trades' = [trades EXCEPT ![o.symbol] =
                         [quantity |-> o.quantity, entry |-> g.entry, stop |-> g.stop, target |-> g.target]]
        /\ doubled' = IF trades[o.symbol] # NoTrade THEN doubled \cup {o.symbol} ELSE doubled
        /\ attempt' = NoAttempt
        /\ UNCHANGED <<loop, tried, closed>>

RejectEntry ==
    /\ attempt.kind = "entry"
    /\ ~GuardAdmits(attempt.order, EntryContext)
    /\ attempt' = NoAttempt
    /\ UNCHANGED <<broker, loop, table, tried>>

-----------------------------------------------------------------------------

Next ==
    \/ NewDate
    \/ \E s \in Symbols : MarkClose(s)
    \/ BeginExits
    \/ \E s \in Symbols : KeepTrade(s)
    \/ \E s \in Symbols : TryExit(s)
    \/ CloseTrade
    \/ RejectExit
    \/ BeginEntries
    \/ \E g \in Signals : SkipSignal(g)
    \/ \E g \in Signals : TryEntry(g)
    \/ OpenTrade
    \/ RejectEntry

Spec == Init /\ [][Next]_vars

-----------------------------------------------------------------------------
(* Properties.                                                             *)

\* Every variable of the replay has its type, and nothing ever waits.
TypeOK ==
    /\ BrokerTypeOK
    /\ date \in 0..MaxDates
    /\ phase \in Phases
    /\ bar \in [Symbols -> Bars \cup {NoBar}]
    /\ todo \subseteq Symbols
    /\ trades \in [Symbols -> Trade]
    /\ tried \subseteq Signals
    /\ attempt.kind \in {"none", "exit", "entry"}
    /\ closed \in Int
    /\ pending = {} /\ sweep = {}

\* The replay's table and the broker's books are kept apart and agree: the
\* shares of a symbol are those of its open trade at its entry price, and the
\* closed trades add up to what the broker realized, through rejected exits and
\* skipped dates, as long as no symbol was entered twice on a date.
TradesExplainBooks ==
    /\ \A s \in Symbols \ doubled :
         /\ position[s].quantity = trades[s].quantity
         /\ trades[s] # NoTrade => position[s].avg_cost = Whole(trades[s].entry)
    /\ doubled = {} => realized = Whole(closed)

\* Whatever is entered twice, rejected or skipped, the shares an exit would sell
\* are held, so no exit opens a short.
ExitsAreCovered ==
    /\ TypeOK
    /\ \A s \in Symbols : position[s].quantity >= trades[s].quantity

\* A symbol is marked at the price of its order before the guard checks it, so
\* no fill is the one that takes the result past the loss limit.  (Of a symbol
\* entered twice an exit sells a part, and what is left keeps the unrealized
\* result of the whole until the next price.)
FillsKeepLossLimit ==
    [][(CloseTrade \/ OpenTrade) /\ Equity > 0 /\ doubled = {} =>
          DayPnl'[1] * Whole100 > -(MaxDailyLoss * Equity' * DayPnl'[2])]_vars

-----------------------------------------------------------------------------
(* The inductive invariant.                                                *)

\* A trade of the table has shares and exits; the loop over the exits looks at
\* symbols with a trade only.
TableInv ==
    /\ \A s \in Symbols : trades[s] # NoTrade =>
          trades[s].quantity > 0 /\ trades[s].stop > 0 /\ trades[s].target > 0
    /\ \A s \in todo : bar[s] \in Bars /\ (phase = "exit" => trades[s] # NoTrade)

\* The order at the guard sells the open trade of its symbol or buys shares at
\* the entry of its signal.
AttemptInv ==
    \/ attempt = NoAttempt
    \/ LET o == attempt.order
       IN  /\ attempt = [kind |-> "exit", order |-> o]
           /\ phase = "exit" /\ o.symbol \in Symbols \ todo
           /\ trades[o.symbol] # NoTrade
           /\ o = Order(o.symbol, "SELL", trades[o.symbol].quantity, o.limit_price)
           /\ o.limit_price \in Nat \ {0}
    \/ LET o == attempt.order
           g == attempt.signal
       IN  /\ attempt = [kind |-> "entry", order |-> o, signal |-> g]
           /\ phase = "entry" /\ g \in Signals
           /\ o = Order(g.symbol, "BUY", o.quantity, g.entry)
           /\ o.quantity \in Nat \ {0}

\* While an order is at the guard its symbol is marked at the order's price.
MarkedInv ==
    attempt # NoAttempt =>
        LET o == attempt.order
            pos == position[o.symbol]
        IN  pos.quantity # 0 =>
               /\ pos.market_price = o.limit_price
               /\ pos.unrealized = Times(Plus(Whole(o.limit_price), Times(pos.avg_cost, -1)), pos.quantity)

ReplayIInv ==
    /\ ExitsAreCovered
    /\ TradesExplainBooks
    /\ TableInv
    /\ AttemptInv
    /\ MarkedInv
    /\ PendingIsOpen
    /\ crossed = {}

-----------------------------------------------------------------------------
(* What the documentation says and the code does not do.                   *)

\* "exits fill at whichever of stop/target the bar's low/high reaches first": a
\* trade whose stop is reached is closed.
StopsFill ==
    [][RejectExit => attempt.order.limit_price # trades[attempt.order.symbol].stop]_vars
=============================================================================
