--------------------------- MODULE OptionStructures ---------------------------
(***************************************************************************)
(* The options side of omega_ib: strategies/options/*.py pick legs from a  *)
(* chain of quotes, options_builder.py filters and summarizes the          *)
(* structure and turns it into a combo order, and risk/guard.py checks     *)
(* that.  Prices, strikes and money are in cents, deltas in percent; an    *)
(* expiry is its rank in time.  The other greeks, the probability of       *)
(* profit and the score, which only order the candidates, are left out.    *)
(***************************************************************************)
EXTENDS RiskChecks, Sequences

CONSTANTS
    Chains,       \* chains the data provider may return, sets of quotes
    Wing,         \* wing_width
    MaxSpread,    \* max_spread_pct of the strategies, in percent
    RankSpread,   \* max_spread_pct of rank_structures, in percent
    MinInterest,  \* min_open_interest
    SampleSteps,  \* points of the payoff curve, less one
    Quantities,   \* combo units a caller may ask for
    Shares,       \* underlying_shares_held a caller may report
    AccountNav    \* account.nav

Quote == [expiry : Nat, strike : Nat \ {0}, right : {"C", "P"},
          bid : Nat, ask : Nat, open_interest : Nat, delta : -100..100]
Contract(q) == <<q.expiry, q.strike, q.right>>

\* A chain has a contract once; strikes are on a grid of 20 cents, so that the
\* tenth of a strike and the half of a span below are whole.
ASSUME ChainsAssumption ==
    \A quotes \in Chains :
        /\ quotes \subseteq Quote
        /\ \A q, r \in quotes : Contract(q) = Contract(r) => q = r
        /\ \A q \in quotes : q.strike % 20 = 0

\* The defaults are a wing of 500, spreads of 10 and 5, an interest of 50 and 200
\* steps.
ASSUME SettingsAssumption ==
    /\ {Wing, SampleSteps} \subseteq Nat \ {0}
    /\ {MaxSpread, RankSpread, MinInterest} \subseteq Nat
    /\ Quantities \subseteq Nat \ {0} /\ Shares \subseteq Nat /\ AccountNav \in Int

VARIABLES
    chain,     \* the quotes the strategies look at
    expiry,    \* the expiry they are asked for
    stage,     \* how far the candidate has come
    strategy,  \* the strategy that proposed it
    legs,      \* its legs: [quote, action, ratio]
    summary,   \* its PayoffSummary: max_profit and max_loss
    order,     \* its combo order
    shares     \* the shares of the underlying the caller holds

comboVars == <<chain, expiry, stage, strategy, legs, summary, order, shares>>

NoSummary == [max_profit |-> 0, max_loss |-> 0]
NoOrder == [quantity |-> 0]

ComboInit ==
    /\ chain \in Chains
    /\ expiry \in {q.expiry : q \in chain}
    /\ shares \in Shares
    /\ stage = "scan"
    /\ strategy = "none"
    /\ legs = <<>>
    /\ summary = NoSummary
    /\ order = NoOrder

-----------------------------------------------------------------------------
(* data/options.py.                                                        *)

\* Twice the mid.
Mid2(q) == q.bid + q.ask

\* is_liquid; a quote with no price has an infinite spread.
Liquid(q, maxSpread) ==
    /\ Mid2(q) > 0
    /\ 200 * (q.ask - q.bid) <= maxSpread * Mid2(q)
    /\ q.open_interest >= MinInterest

\* nearest_by_delta among the quotes of the expiry: the liquid ones closest to
\* the target, unless they are too far from it.  Of several the first in the
\* chain's order is taken, and a set has none: each of them may be.
Nearest(right, target) ==
    LET liquid == {q \in chain : q.expiry = expiry /\ q.right = right /\ Liquid(q, MaxSpread)}
        off(q) == Abs(q.delta - target)
    IN  {q \in liquid : off(q) <= 15 /\ \A r \in liquid : off(q) <= off(r)}

-----------------------------------------------------------------------------
(* strategies/options: what a strategy may propose, <<>> for None.         *)

Leg(q, action) == [quote |-> q, action |-> action, ratio |-> 1]
Opposite(action) == IF action = "BUY" THEN "SELL" ELSE "BUY"

OrNone(proposals) == IF proposals = {} THEN {<<>>} ELSE proposals

\* Mutant of Paired: the second leg is on the side of the first.
PairedOneSided(q, at, strike, action) ==
    LET others == {r \in chain : Contract(r) = <<at, strike, q.right>> /\ Liquid(r, MaxSpread)}
    IN  IF others = {} THEN <<>>
        ELSE <<Leg(q, action), Leg(CHOOSE r \in others : TRUE, action)>>

\* A quote and the liquid one chain.find gives for its other leg.
Paired(q, at, strike, action) ==
    LET others == {r \in chain : Contract(r) = <<at, strike, q.right>> /\ Liquid(r, MaxSpread)}
    IN  IF others = {} THEN <<>>
        ELSE <<Leg(q, action), Leg(CHOOSE r \in others : TRUE, Opposite(action))>>

Single(right, target) == OrNone({<<Leg(q, "SELL")>> : q \in Nearest(right, target)})

Vertical(right, target, width, action) ==
    OrNone({Paired(q, expiry, q.strike + width, action) : q \in Nearest(right, target)})

CashSecuredPut == Single("P", -30)
CoveredCall == Single("C", 30)
BullPutSpread == Vertical("P", -30, -Wing, "SELL")
BearCallSpread == Vertical("C", 30, Wing, "SELL")
LongCallDebitSpread == Vertical("C", 60, Wing, "BUY")
LongPutDebitSpread == Vertical("P", -60, -Wing, "BUY")

IronCondor ==
    {IF <<>> \in {puts, calls} THEN <<>> ELSE puts \o calls :
        puts \in BullPutSpread, calls \in BearCallSpread}

\* The same call of the next expiry in the chain, if there is one.
CalendarSpread ==
    LET later == {q.expiry : q \in {r \in chain : r.expiry > expiry}}
    IN  IF later = {} THEN {<<>>}
        ELSE OrNone({Paired(q, Min(later), q.strike, "SELL") : q \in Nearest("C", 50)})

\* ALL_OPTIONS_STRATEGIES.
Proposals ==
    [cash_secured_put |-> CashSecuredPut, covered_call |-> CoveredCall,
     bull_put_spread |-> BullPutSpread, bear_call_spread |-> BearCallSpread,
     iron_condor |-> IronCondor, calendar_spread |-> CalendarSpread,
     long_call_debit_spread |-> LongCallDebitSpread,
     long_put_debit_spread |-> LongPutDebitSpread]

-----------------------------------------------------------------------------
(* options_builder.py.                                                     *)

Side(leg) == IF leg.action = "BUY" THEN 1 ELSE -1

\* net_price, twice: positive for a debit.
NetPrice2 ==
    SumFunction([i \in DOMAIN legs |-> Side(legs[i]) * Mid2(legs[i].quote) * legs[i].ratio])

\* OptionLeg.payoff_at_expiration of a bought share, at a price in cents by
\* SampleSteps and in the same units.
Intrinsic(q, price) ==
    IF q.right = "C" THEN Max({0, price - q.strike * SampleSteps})
    ELSE Max({0, q.strike * SampleSteps - price})

\* Mutant of Payoff: the side of a leg is left out of its intrinsic value.
PayoffUnsigned(price) ==
    2 * SumFunction([i \in DOMAIN legs |-> Intrinsic(legs[i].quote, price) * legs[i].ratio])
        - SampleSteps * NetPrice2

\* payoff_at_expiration per share, in units of half a cent by SampleSteps; the
\* price is in cents by SampleSteps.
Payoff(price) ==
    2 * SumFunction([i \in DOMAIN legs |->
                        Side(legs[i]) * Intrinsic(legs[i].quote, price) * legs[i].ratio])
        - SampleSteps * NetPrice2

\* _default_price_range: half a span beyond the strikes on each side, down to a
\* cent.
PriceRange ==
    LET strikes == {legs[i].quote.strike : i \in DOMAIN legs}
        lo == Min(strikes)
        hi == Max(strikes)
        pad == Max({hi - lo, hi \div 10, 100}) \div 2
    IN  <<Max({1, lo - pad}), hi + pad>>

\* payoff_curve at steps=201.
Curve ==
    LET lo == PriceRange[1]
        hi == PriceRange[2]
    IN  {Payoff(lo * SampleSteps + i * (hi - lo)) : i \in 0..SampleSteps}

\* summarize_payoff: the extremes of the curve, per share.
Summary == LET pnls == Curve IN [max_profit |-> Max(pnls), max_loss |-> Min(pnls)]

\* round(abs(net), 2): a half cent goes to either side, as floats have it.
LimitPrices == {price \in {Abs(NetPrice2) \div 2, (Abs(NetPrice2) + 1) \div 2} :
              Abs(2 * price - Abs(NetPrice2)) <= 1}

\* build_combo_order as it is called, without a limit_price of the caller's own,
\* which no code passes: a BAG, whatever the number of legs, that is sold for a
\* credit with its legs on the sides the strategy gave them.
ComboOrder(quantity, limit) ==
    [sec_type |-> "BAG", action |-> IF NetPrice2 >= 0 THEN "BUY" ELSE "SELL",
     quantity |-> quantity, order_type |-> "LMT", limit_price |-> limit, stop_price |-> 0,
     legs |-> [i \in DOMAIN legs |-> [action |-> legs[i].action, right |-> legs[i].quote.right,
                                      ratio |-> legs[i].ratio]]]

-----------------------------------------------------------------------------
(* From the chain to the order.                                            *)

\* A strategy proposes a structure.
Generate(name) ==
    /\ stage = "scan"
    /\ legs' \in Proposals[name] \ {<<>>}
    /\ strategy' = name
    /\ stage' = "proposed"
    /\ UNCHANGED <<chain, expiry, summary, order, shares>>

\* A strategy finds nothing.
NoSetup(name) ==
    /\ stage = "scan"
    /\ <<>> \in Proposals[name]
    /\ strategy' = name
    /\ stage' = "none"
    /\ UNCHANGED <<chain, expiry, legs, summary, order, shares>>

\* rank_structures keeps the structure and summarizes it.
Rank ==
    /\ stage = "proposed"
    /\ \A i \in DOMAIN legs : Liquid(legs[i].quote, RankSpread)
    /\ summary' = Summary
    /\ stage' = "ranked"
    /\ UNCHANGED <<chain, expiry, strategy, legs, order, shares>>

\* rank_structures drops a structure with an illiquid leg.
DropIlliquid ==
    /\ stage = "proposed"
    /\ \E i \in DOMAIN legs : ~Liquid(legs[i].quote, RankSpread)
    /\ stage' = "none"
    /\ UNCHANGED <<chain, expiry, strategy, legs, summary, order, shares>>

BuildComboOrder(quantity, limit) ==
    /\ stage = "ranked"
    /\ order' = ComboOrder(quantity, limit)
    /\ stage' = "ordered"
    /\ UNCHANGED <<chain, expiry, strategy, legs, summary, shares>>

\* GuardContext(nav=..., is_new_position=True), with the shares held.
OrderContext == [Context(AccountNav, 0, TRUE) EXCEPT !.underlying_shares_held = shares]

\* guard.place_order, with no kill file.
PlaceCombo ==
    /\ stage = "ordered"
    /\ Admits(FALSE, order, OrderContext)
    /\ stage' = "placed"
    /\ UNCHANGED <<chain, expiry, strategy, legs, summary, order, shares>>

\* GuardRejection.
RejectCombo ==
    /\ stage = "ordered"
    /\ ~Admits(FALSE, order, OrderContext)
    /\ stage' = "rejected"
    /\ UNCHANGED <<chain, expiry, strategy, legs, summary, order, shares>>

ComboNext ==
    \/ \E name \in DOMAIN Proposals : Generate(name) \/ NoSetup(name)
    \/ Rank
    \/ DropIlliquid
    \/ \E quantity \in Quantities, limit \in LimitPrices : BuildComboOrder(quantity, limit)
    \/ PlaceCombo
    \/ RejectCombo

ComboSpec == ComboInit /\ [][ComboNext]_comboVars

-----------------------------------------------------------------------------
(* Properties.                                                             *)

Debits == {"long_call_debit_spread", "long_put_debit_spread"}
Credits == {"bull_put_spread", "bear_call_spread"}
Summarized == stage \in {"ranked", "ordered", "placed", "rejected"}
Ordered == stage \in {"ordered", "placed", "rejected"}

\* Every variable has its type.
ComboTypeOK ==
    /\ chain \in Chains
    /\ expiry \in Nat
    /\ stage \in {"scan", "none", "proposed", "ranked", "ordered", "placed", "rejected"}
    /\ strategy \in DOMAIN Proposals \cup {"none"}
    /\ \A i \in DOMAIN legs : legs[i].quote \in chain /\ legs[i].action \in {"BUY", "SELL"}
    /\ Len(legs) <= 4
    /\ {summary.max_profit, summary.max_loss} \subseteq Int
    /\ shares \in Shares
    /\ Ordered => order.quantity \in Quantities /\ order.limit_price \in Nat

\* The curve of 201 points finds the textbook extremes of the structures whose
\* legs expire together, whatever gaps the chain has and however its quotes are
\* skewed: a credit spread wins the credit or loses the rest of the wing, a debit
\* spread loses the debit or wins the rest.  A condor loses the rest of one
\* wing, unless its short strikes are crossed, and wins the credit, if the short
\* strikes are far enough apart for a point of the curve to fall between them.
\* (Of a calendar see CalendarCanProfit.)
TextbookRisk ==
    Summarized =>
        LET net == SampleSteps * NetPrice2
            wing == SampleSteps * 2 * Wing
            gap == legs[3].quote.strike - legs[1].quote.strike
        IN  /\ strategy \in Credits => summary = [max_profit |-> -net, max_loss |-> -net - wing]
            /\ strategy \in Debits => summary = [max_profit |-> wing - net, max_loss |-> -net]
            /\ strategy = "iron_condor" /\ gap >= 0 => summary.max_loss = -net - wing
            /\ strategy = "iron_condor" /\ SampleSteps * gap >= PriceRange[2] - PriceRange[1]
                  => summary.max_profit = -net

\* "The long call caps the loss, so this never trips the naked-short-call
\* check": of an account without shares, the guard takes the combo order of no
\* strategy but the covered call for a naked short call.
OnlyCoveredCallIsNaked ==
    /\ ComboTypeOK
    /\ Ordered /\ strategy # "covered_call" => ShortCallCovered(order, OrderContext)

\* max_order_notional and max_position_pct_nav see the limit of the combo.  Of
\* a debit spread bought for a debit that is what it can lose: a placed one
\* loses no more than either, but for the half cent a share the limit was
\* rounded by.  (An account with no value has no limit by its value.)
DebitWithinLimits ==
    stage = "placed" /\ strategy \in Debits /\ order.action = "BUY" /\ order.limit_price > 0 =>
        LET loss == -(summary.max_loss \div SampleSteps) * 100 * order.quantity
            rounding == 100 * order.quantity
        IN  /\ loss <= 2 * MaxOrderNotional + rounding
            /\ AccountNav > 0 => loss * Whole100 <= 2 * MaxPosition * AccountNav + rounding * Whole100

-----------------------------------------------------------------------------
(* The inductive invariant.                                                *)

HasLegs(n) == legs \in [1..n -> [quote : chain, action : {"BUY", "SELL"}, ratio : {1}]]

\* Two legs of opposite sides, the second a width above the first.
PairAt(i, right, width, action) ==
    /\ legs[i].quote.right = right /\ legs[i + 1].quote.right = right
    /\ legs[i + 1].quote.strike = legs[i].quote.strike + width
    /\ legs[i].action = action /\ legs[i + 1].action = Opposite(action)

SoldAlone(right) == HasLegs(1) /\ legs[1].quote.right = right /\ legs[1].action = "SELL"
OnePair(right, width, action) == HasLegs(2) /\ PairAt(1, right, width, action)

\* A candidate has the legs of its strategy.
ShapeInv ==
    stage \notin {"scan", "none"} =>
        \/ strategy = "cash_secured_put" /\ SoldAlone("P")
        \/ strategy = "covered_call" /\ SoldAlone("C")
        \/ strategy = "bull_put_spread" /\ OnePair("P", -Wing, "SELL")
        \/ strategy = "bear_call_spread" /\ OnePair("C", Wing, "SELL")
        \/ strategy = "long_call_debit_spread" /\ OnePair("C", Wing, "BUY")
        \/ strategy = "long_put_debit_spread" /\ OnePair("P", -Wing, "BUY")
        \/ strategy = "calendar_spread" /\ OnePair("C", 0, "SELL")
        \/ /\ strategy = "iron_condor" /\ HasLegs(4)
           /\ PairAt(1, "P", -Wing, "SELL") /\ PairAt(3, "C", Wing, "SELL")

\* What was summarized, ordered and let through is the candidate.
OrderInv ==
    /\ Summarized => summary = Summary
    /\ Ordered => \E quantity \in Quantities, limit \in LimitPrices : order = ComboOrder(quantity, limit)
    /\ stage = "placed" => Admits(FALSE, order, OrderContext)

ComboInv == ComboTypeOK /\ ShapeInv /\ OrderInv

-----------------------------------------------------------------------------
(* What the documentation says and the code does not do.                   *)

\* strategies/options/covered_call.py: the guard verifies that enough shares
\* are held "before letting the order through".  So with the shares held the
\* check lets it through.
SharesCoverTheCall ==
    Ordered /\ strategy = "covered_call" /\ shares >= 100 * order.quantity
        => ShortCallCovered(order, OrderContext)

\* strategies/options/calendar_spread.py: a calendar "profits from time decay
\* differential", that is, from what the later leg is still worth when the near
\* one expires.  So there is a price at which it wins.  The builder gives both
\* legs their value at expiration, at one strike: they cancel out at every price,
\* and what is left is the debit.
CalendarCanProfit ==
    Summarized /\ strategy = "calendar_spread" => summary.max_profit > 0
=============================================================================
