------------------------------ MODULE RiskChecks ------------------------------
(***************************************************************************)
(* The pure part of risk/guard.py: the checks of check_order, against the  *)
(* limits of config.py, and the sizing of positions.  Money is in whole    *)
(* units, percentages in basis points; a field a caller may leave unset is *)
(* 0, as the `or` chain of _order_notional treats None and 0 alike, except *)
(* estimated_price, which may be 0 and is NoPrice when unset.              *)
(***************************************************************************)
EXTENDS Integers, FiniteSetsExt, Functions, Ratio

CONSTANTS
    MaxDailyLoss,        \* max_daily_loss_pct_nav, basis points
    MaxPosition,         \* max_position_pct_nav, basis points
    MaxOpenPositions,    \* max_open_positions
    MaxOrderNotional,    \* max_order_notional
    MaxContracts,        \* max_options_contracts_per_order
    PatternDayNav,       \* the 25_000 of the PDT rule
    NoPrice,             \* no estimated_price
    ReadOnly             \* Settings.is_read_only

Whole100 == 10000        \* 100% in basis points

ASSUME LimitsAssumption ==
    /\ MaxDailyLoss \in 1..Whole100
    /\ MaxPosition \in 1..Whole100
    /\ MaxOpenPositions \in Nat \ {0}
    /\ MaxOrderNotional \in Nat \ {0}
    /\ MaxContracts \in Nat \ {0}
    /\ PatternDayNav \in Nat
    /\ NoPrice \notin Int
    /\ ReadOnly \in BOOLEAN

-----------------------------------------------------------------------------
(* Sizing.                                                                 *)

Abs(n) == IF n < 0 THEN -n ELSE n

\* fixed_fractional_size: floors of what the risk, the order cap and the
\* position cap allow, whichever is least.
FixedFractionalSize(nav, risk, entry, stop, multiplier) ==
    LET perUnit == Abs(entry - stop) * multiplier
        unit == entry * multiplier
        caps == { (nav * risk) \div (Whole100 * perUnit),
                  MaxOrderNotional \div unit,
                  (nav * MaxPosition) \div (Whole100 * unit) }
    IN  IF perUnit <= 0 \/ entry <= 0 THEN 0 ELSE Max({0, Min(caps)})

\* int(qty * multiplier) in main.py, for the reviewer's multiplier in percent.
Scaled(quantity, percent) == (quantity * percent) \div 100

-----------------------------------------------------------------------------
(* check_order.  An order has the fields of OrderRequest and its contract  *)
(* that the checks read; legs is a sequence of [action, right, ratio].     *)

IsOption(o) == o.sec_type \in {"OPT", "BAG"}

Ratios(legs, action) ==
    SumFunctionOnSet([i \in DOMAIN legs |-> legs[i].ratio],
                     {i \in DOMAIN legs : legs[i].action = action /\ legs[i].right = "C"})

\* _short_call_is_covered.
ShortCallCovered(o, ctx) ==
    CASE o.sec_type = "OPT" ->
           o.action = "SELL" /\ o.right = "C"
               => ctx.underlying_shares_held >= o.quantity * 100
      [] o.sec_type = "BAG" -> Ratios(o.legs, "SELL") <= Ratios(o.legs, "BUY")
      [] OTHER -> TRUE

\* The price _order_notional takes.
PriceOf(o, ctx) ==
    IF o.limit_price # 0 THEN o.limit_price
    ELSE IF o.stop_price # 0 THEN o.stop_price ELSE ctx.estimated_price

Priced(o, ctx) == PriceOf(o, ctx) # NoPrice

\* Mutant of Notional: options are counted by the share.
NotionalPerShare(o, ctx) == PriceOf(o, ctx) * o.quantity

\* _order_notional of an order that has a price.
Notional(o, ctx) == PriceOf(o, ctx) * o.quantity * (IF IsOption(o) THEN 100 ELSE 1)

\* _check_max_order_notional.
NotionalTooLarge(o, ctx) == Priced(o, ctx) /\ Notional(o, ctx) > MaxOrderNotional

\* _check_max_position_pct_nav.
PositionTooLarge(o, ctx) ==
    LET resulting == IF o.action = "BUY"
                     THEN ctx.current_position_notional + Notional(o, ctx)
                     ELSE Max({0, ctx.current_position_notional - Notional(o, ctx)})
    IN  /\ Priced(o, ctx)
        /\ ctx.nav > 0
        /\ resulting * Whole100 > MaxPosition * ctx.nav

\* _check_max_open_positions.
TooManyPositions(ctx) == ctx.is_new_position /\ ctx.open_positions >= MaxOpenPositions

\* _check_max_daily_loss; the two results are fractions.
DailyLossBreached(ctx) ==
    LET realized == ctx.day_realized_pnl
        unrealized == ctx.day_unrealized_pnl
    IN  /\ ctx.nav > 0
        /\ (realized[1] * unrealized[2] + unrealized[1] * realized[2]) * Whole100
               <= -(MaxDailyLoss * ctx.nav * (realized[2] * unrealized[2]))

\* _check_pdt.
DayTradeLimit(ctx) ==
    ctx.nav < PatternDayNav /\ ctx.is_day_trade /\ ctx.day_trades_count >= 3

\* check_order raises no GuardRejection; killed is kill_switch_active.
Admits(killed, o, ctx) ==
    /\ ~killed
    /\ ~ReadOnly
    /\ ~(IsOption(o) /\ o.order_type = "MKT")
    /\ ShortCallCovered(o, ctx)
    /\ ~(IsOption(o) /\ o.quantity > MaxContracts)
    /\ ~NotionalTooLarge(o, ctx)
    /\ ~PositionTooLarge(o, ctx)
    /\ ~TooManyPositions(ctx)
    /\ ~DailyLossBreached(ctx)
    /\ ~DayTradeLimit(ctx)

\* GuardContext(nav=..., open_positions=..., is_new_position=...) with every
\* other field left at its default.
Context(nav, open, isNew) ==
    [nav |-> nav, day_realized_pnl |-> Whole(0), day_unrealized_pnl |-> Whole(0),
     open_positions |-> open, is_new_position |-> isNew,
     current_position_notional |-> 0, underlying_shares_held |-> 0,
     estimated_price |-> NoPrice, is_day_trade |-> FALSE, day_trades_count |-> 0]
=============================================================================
