------------------------------ MODULE TradingDay ------------------------------
(***************************************************************************)
(* The jobs of main.py on a FakeBroker: the pre-market plan sizes signals  *)
(* and places brackets leg by leg through the guard, the end-of-day job    *)
(* flattens leveraged ETFs, prices move in between, and a kill command may *)
(* come between any two orders of a job.  guard.place_order is one step    *)
(* here, up to its audit row; KillSwitch has the steps inside it.  A call  *)
(* of a job that raises anything but GuardRejection ends the job there.    *)
(***************************************************************************)
EXTENDS FakeBroker, RiskChecks

CONSTANTS
    Signals,     \* what run_strategies may return: [symbol, entry, stop, target]
    Multipliers, \* size multipliers of the AI review, in percent
    Risk,        \* DEFAULT_RISK_PCT, in basis points
    Leveraged,   \* LEVERAGED_ETF_KEYWORDS
    MaxTroubles, \* bound on the kill commands and the calls that raise, together
    MaxDays      \* bound on the days

\* A strategy's signal is long, with its stop below and its target above it.
ASSUME SignalsAssumption ==
    /\ \A g \in Signals : /\ g.symbol \in Symbols
                          /\ g.stop \in Nat \ {0} /\ g.entry \in Nat /\ g.target \in Nat
                          /\ g.stop < g.entry /\ g.entry < g.target
    /\ Multipliers \subseteq 0..100
    /\ Risk \in 1..Whole100
    /\ Leveraged \subseteq Symbols
    /\ MaxTroubles \in Nat
    /\ MaxDays \in Nat

VARIABLES
    day,     \* plans begun
    phase,   \* the job that runs, or the market between two jobs
    nav,     \* account.nav of the plan
    seen,    \* seen_symbols of the plan
    legs,    \* legs of the bracket being placed that are still to come
    ctx,     \* the GuardContext of that bracket
    todo,    \* positions the end-of-day job has yet to look at
    killed,  \* kill_switch_active
    troubles \* kill commands and calls of the jobs that raised so far

\* History: symbols whose flatten the running end-of-day job saw rejected; those
\* that a kill, a rejected stop or an exception between the entry and its stop has
\* left without a stop.
VARIABLES blocked, exposed

job == <<day, phase, nav, seen, legs, ctx, todo>>
history == <<blocked, exposed>>
outside == <<killed, troubles>>
vars == <<broker, job, outside, history>>

Phases == {"plan", "session", "eod", "night"}
Market == {"session", "night"}

\* No bracket is being placed, and there is no plan with a summary of its own.
NoContext == Context(0, 0, FALSE)

Init ==
    /\ BrokerInit
    /\ day = 0
    /\ phase = "night"
    /\ nav = 0
    /\ seen = {}
    /\ legs = <<>>
    /\ ctx = NoContext
    /\ todo = {}
    /\ killed = FALSE
    /\ troubles = 0
    /\ blocked = {}
    /\ exposed = {}

-----------------------------------------------------------------------------
(* Orders.                                                                 *)

Order(symbol, action, quantity, type, limit, stop, parent) ==
    [symbol |-> symbol, action |-> action, quantity |-> quantity, order_type |-> type,
     limit_price |-> limit, stop_price |-> stop, parent_id |-> parent]

\* guard.check_order accepts an order for a stock.
GuardAdmits(o, c) ==
    Admits(killed,
           [sec_type |-> "STK", action |-> o.action, quantity |-> o.quantity,
            order_type |-> o.order_type, limit_price |-> o.limit_price,
            stop_price |-> o.stop_price],
           c)

\* build_bracket_order for a long signal.
Entry(g, quantity) == Order(g.symbol, "BUY", quantity, "LMT", g.entry, 0, NoParent)

\* Mutant of Exits: the bracket has no protective stop.
ExitsWithoutStop(g, quantity, parent) ==
    << Order(g.symbol, "SELL", quantity, "LMT", g.target, 0, parent) >>

\* The stop and the target of build_bracket_order.
Exits(g, quantity, parent) ==
    << Order(g.symbol, "SELL", quantity, "STP", 0, g.stop, parent),
       Order(g.symbol, "SELL", quantity, "LMT", g.target, 0, parent) >>

\* The quantity run_pre_market_plan gives a signal.
SizeOf(g, percent) == Scaled(FixedFractionalSize(nav, Risk, g.entry, g.stop, 1), percent)

PlanContext == Context(nav, Cardinality(Held), TRUE)

-----------------------------------------------------------------------------
(* run_pre_market_plan.                                                    *)

\* The job starts and takes the account summary it sizes every signal by.
StartPlan ==
    /\ phase = "night" /\ sweep = {} /\ day < MaxDays
    /\ day' = day + 1
    /\ phase' = "plan"
    /\ nav' = Equity
    /\ seen' = {}
    /\ UNCHANGED <<broker, legs, ctx, todo, outside, history>>

\* Mutant of Takes: several signals of one symbol are all taken.
TakesEvery(g) ==
    /\ phase = "plan" /\ legs = <<>>
    /\ seen' = seen \cup {g.symbol}
    /\ UNCHANGED <<day, phase, nav, todo, outside>>

\* The next signal in rank order, the first of its symbol.
Takes(g) ==
    /\ phase = "plan" /\ legs = <<>>
    /\ g.symbol \notin seen
    /\ seen' = seen \cup {g.symbol}
    /\ UNCHANGED <<day, phase, nav, todo, outside>>

\* qty <= 0: nothing to place.
SkipSignal(g, percent) ==
    /\ Takes(g)
    /\ SizeOf(g, percent) <= 0
    /\ UNCHANGED <<broker, legs, ctx, history>>

\* Mutant of PlaceEntry: the exits are checked with a context taken after the
\* entry has traded.
PlaceEntryFreshContext(g, percent) ==
    LET entry == Entry(g, SizeOf(g, percent))
    IN  /\ Takes(g)
        /\ SizeOf(g, percent) > 0
        /\ GuardAdmits(entry, PlanContext)
        /\ PlaceAndFill(entry)
        /\ ctx' = Context(nav, Cardinality(Held \cup {g.symbol}), TRUE)
        /\ legs' = Exits(g, entry.quantity, NextId)
        /\ UNCHANGED history

\* place_bracket_order places the entry; the exits get its id.
PlaceEntry(g, percent) ==
    LET entry == Entry(g, SizeOf(g, percent))
    IN  /\ Takes(g)
        /\ SizeOf(g, percent) > 0
        /\ GuardAdmits(entry, PlanContext)
        /\ PlaceAndFill(entry)
        /\ ctx' = PlanContext
        /\ legs' = Exits(g, entry.quantity, NextId)
        /\ UNCHANGED history

\* GuardRejection of the entry: the signal is dropped.
RejectEntry(g, percent) ==
    /\ Takes(g)
    /\ SizeOf(g, percent) > 0
    /\ ~GuardAdmits(Entry(g, SizeOf(g, percent)), PlanContext)
    /\ UNCHANGED <<broker, legs, ctx, history>>

\* place_bracket_order places the stop, then the target.
PlaceLeg ==
    /\ legs # <<>>
    /\ GuardAdmits(Head(legs), ctx)
    /\ PlaceChild(Head(legs))
    /\ legs' = Tail(legs)
    /\ UNCHANGED <<day, phase, nav, seen, ctx, todo, outside, history>>

\* GuardRejection of an exit: what is placed stays, the rest is dropped.
RejectLeg ==
    /\ legs # <<>>
    /\ ~GuardAdmits(Head(legs), ctx)
    /\ legs' = <<>>
    /\ exposed' = IF Head(legs).order_type = "STP" THEN exposed \cup {Head(legs).symbol} ELSE exposed
    /\ UNCHANGED <<broker, day, phase, nav, seen, ctx, todo, outside, blocked>>

\* The shares of the bracket being placed that have no stop yet.
Unplaced(s) ==
    IF legs # <<>> /\ Head(legs).symbol = s /\ Head(legs).order_type = "STP"
    THEN Head(legs).quantity ELSE 0

\* The plan is over, and what it knew is gone with it.
PlanReturns ==
    /\ phase = "plan"
    /\ phase' = "session"
    /\ nav' = 0
    /\ seen' = {}
    /\ legs' = <<>>
    /\ ctx' = NoContext
    /\ UNCHANGED <<broker, day, todo, killed>>

EndPlan ==
    /\ PlanReturns
    /\ legs = <<>>
    /\ UNCHANGED <<troubles, history>>

\* A call raises: the audit row of an order that is placed, or of one that is
\* rejected, the broker, the alert.  run_pre_market_plan catches GuardRejection
\* only: what is placed stays, and the rest of the bracket and of the plan is
\* not placed.
PlanDies ==
    /\ PlanReturns
    /\ troubles < MaxTroubles
    /\ troubles' = troubles + 1
    /\ exposed' = exposed \cup {s \in Symbols : Unplaced(s) # 0}
    /\ UNCHANGED blocked

-----------------------------------------------------------------------------
(* run_eod_management.                                                     *)

StartEod ==
    /\ phase = "session" /\ sweep = {}
    /\ phase' = "eod"
    /\ todo' = Held
    /\ UNCHANGED <<broker, day, nav, seen, legs, ctx, outside, history>>

\* Mutant of Flatten: a short position is sold as well.
FlattenSells(s) ==
    LET pos == position[s]
    IN  Order(s, "SELL", Magnitude(pos.quantity), "LMT", pos.market_price, 0, NoParent)

\* The order that closes a position at its market price.
Flatten(s) ==
    LET pos == position[s]
    IN  Order(s, IF pos.quantity > 0 THEN "SELL" ELSE "BUY", Magnitude(pos.quantity),
              "LMT", pos.market_price, 0, NoParent)

EodContext == Context(Equity, Cardinality(Held), FALSE)

Looks(s) ==
    /\ phase = "eod" /\ s \in todo
    /\ todo' = todo \ {s}
    /\ UNCHANGED <<day, phase, nav, seen, legs, ctx, outside, exposed>>

\* eod_decisions_for_position as the job calls it: with an empty earnings
\* calendar and entered_today=False only the leveraged rule can fire.
HoldPosition(s) ==
    /\ Looks(s)
    /\ s \notin Leveraged
    /\ UNCHANGED <<broker, blocked>>

FlattenPosition(s) ==
    /\ Looks(s)
    /\ s \in Leveraged
    /\ GuardAdmits(Flatten(s), EodContext)
    /\ PlaceAndFill(Flatten(s))
    /\ UNCHANGED blocked

RejectFlatten(s) ==
    /\ Looks(s)
    /\ s \in Leveraged
    /\ ~GuardAdmits(Flatten(s), EodContext)
    /\ blocked' = blocked \cup {s}
    /\ UNCHANGED broker

\* The end-of-day job is over.
EodReturns ==
    /\ phase = "eod"
    /\ phase' = "night"
    /\ todo' = {}
    /\ blocked' = {}
    /\ UNCHANGED <<broker, day, nav, seen, legs, ctx, killed, exposed>>

EndEod ==
    /\ EodReturns
    /\ todo = {}
    /\ UNCHANGED troubles

\* A call raises, before or after a closing order: run_eod_management too catches
\* GuardRejection only, so the positions it has not reached stay as they are.
EodDies ==
    /\ EodReturns
    /\ troubles < MaxTroubles
    /\ troubles' = troubles + 1

-----------------------------------------------------------------------------
(* The market between the jobs, and the kill switch.                       *)

PriceMoves(s, price) ==
    /\ phase \in Market
    /\ SetPrice(s, price)
    /\ UNCHANGED <<job, outside, history>>

ExitFills ==
    /\ FillChild
    /\ UNCHANGED <<job, outside, history>>

\* engage_kill_switch: every waiting exit goes with the other open orders.
Kill ==
    /\ troubles < MaxTroubles
    /\ CancelAll
    /\ killed' = TRUE
    /\ troubles' = troubles + 1
    /\ exposed' = exposed \cup Held
    /\ UNCHANGED <<job, blocked>>

\* reset_kill_switch.
Resume ==
    /\ killed
    /\ killed' = FALSE
    /\ UNCHANGED <<broker, job, troubles, history>>

-----------------------------------------------------------------------------

Plan ==
    \/ StartPlan
    \/ \E g \in Signals, percent \in Multipliers : SkipSignal(g, percent)
    \/ \E g \in Signals, percent \in Multipliers : PlaceEntry(g, percent)
    \/ \E g \in Signals, percent \in Multipliers : RejectEntry(g, percent)
    \/ PlaceLeg
    \/ RejectLeg
    \/ PlanDies
    \/ EndPlan

Eod ==
    \/ StartEod
    \/ \E s \in Symbols : HoldPosition(s)
    \/ \E s \in Symbols : FlattenPosition(s)
    \/ \E s \in Symbols : RejectFlatten(s)
    \/ EodDies
    \/ EndEod

Next ==
    \/ Plan
    \/ Eod
    \/ \E s \in Symbols, price \in Quotes : PriceMoves(s, price)
    \/ ExitFills
    \/ Kill
    \/ Resume

Spec == Init /\ [][Next]_vars

-----------------------------------------------------------------------------
(* Properties.                                                             *)

\* Every variable of the jobs has its type, and the broker's too.
TypeOK ==
    /\ BrokerTypeOK
    /\ day \in 0..MaxDays
    /\ phase \in Phases
    /\ nav \in Int
    /\ seen \subseteq Symbols
    /\ legs \in Seq(OrderRequest) /\ Len(legs) <= 2
    /\ legs # <<>> => phase = "plan"
    /\ todo \subseteq Symbols
    /\ killed \in BOOLEAN
    /\ troubles \in 0..MaxTroubles
    /\ blocked \cup exposed \subseteq Symbols

\* Shares the waiting orders of a type would sell.
Quantities == [i \in Ids |-> requests[i].quantity]
Exiting(s, type) ==
    SumFunctionOnSet(Quantities,
                     {i \in pending : requests[i].symbol = s /\ requests[i].order_type = type})

\* Whatever brackets overlap in a symbol and whichever exits have filled, the
\* stops still waiting are for exactly the shares held, until a kill or a
\* rejected stop takes them away or an exception ends the plan between an entry
\* and its stop: otherwise a position is never part naked, and a fill never
\* leaves a stop behind that would open a short.
StopsMatchShares ==
    \A s \in Symbols \ exposed :
        s \notin Leveraged
            => position[s].quantity = Exiting(s, "STP") + Unplaced(s)

\* Brackets are long, so without the flattening of leveraged symbols no order of
\* the jobs, whatever is cancelled or rejected, leaves a position short.
NeverShort ==
    /\ TypeOK
    /\ \A s \in Symbols \ Leveraged : position[s].quantity >= 0

\* Each plan adds one entry a symbol at most, within max_order_notional, so what
\* a position cost is bounded by the number of plans run, as long as no order has
\* carried it through zero with the average of its other side.
CostBoundedByPlans ==
    \A s \in Symbols \ crossed :
        LET cost == Times(position[s].avg_cost, position[s].quantity)
        IN  cost[1] <= day * MaxOrderNotional * cost[2]

\* Sizing agrees with the guard: an entry is dropped only for the kill switch, a
\* read-only account or the count of open positions, never for its size.  Nor is
\* the stop of a bracket refused but for the kill switch, since the context taken
\* before the entry is the one the stop is checked with: whatever takes the stops
\* of a symbol is a kill or a call that raises.
DroppedOnlyByCountOrKill ==
    [][/\ \A g \in Signals, percent \in Multipliers :
             RejectEntry(g, percent)
                 => killed \/ ReadOnly \/ Cardinality(Held) >= MaxOpenPositions
       /\ RejectLeg /\ Head(legs).order_type = "STP" => killed
       /\ exposed' # exposed => killed' \/ PlanDies]_vars

\* When the end-of-day job ends, a leveraged symbol it did not see rejected is
\* flat; if an exception ends it, all it leaves are the positions it had yet to
\* look at.
EodFlattens ==
    [][phase = "eod" /\ phase' = "night"
           => \A s \in Leveraged : position[s].quantity = 0 \/ s \in blocked \cup todo]_vars

-----------------------------------------------------------------------------
(* The inductive invariant.                                                *)

\* An exit of an entry the broker has: it sells what the entry bought, at a stop
\* below the price of the entry or at a limit above it.
IsExit(o) ==
    LET entry == requests[o.parent_id]
    IN  /\ o.parent_id \in Ids
        /\ o.symbol = entry.symbol /\ o.quantity = entry.quantity
        /\ o.action = "SELL"
        /\ \/ o.order_type = "STP" /\ o.stop_price < entry.limit_price
           \/ o.order_type = "LMT" /\ o.limit_price > entry.limit_price

\* Only exits wait, and of one bracket at most a stop and a target.
ExitsInv ==
    /\ \A i \in pending : IsExit(requests[i])
    /\ \A i, k \in pending :
          /\ requests[i].parent_id = requests[k].parent_id
          /\ requests[i].order_type = requests[k].order_type
          => i = k

\* The bracket being placed is that of a signal as the plan sized it, only its
\* stop may be waiting, and its context is the one its entry was admitted with.
LegsInv ==
    legs # <<>> =>
        LET parent == Head(legs).parent_id
        IN  /\ \E g \in Signals, percent \in Multipliers :
                  LET quantity == SizeOf(g, percent)
                      exits == Exits(g, quantity, parent)
                  IN  /\ quantity > 0
                      /\ parent \in Ids /\ requests[parent] = Entry(g, quantity)
                      /\ legs = exits \/ legs = Tail(exits)
            /\ \A i \in pending : requests[i].parent_id = parent
                                      => Len(legs) = 1 /\ requests[i].order_type = "STP"
            /\ ctx = Context(nav, ctx.open_positions, TRUE)
            /\ ctx.open_positions \in Nat /\ ctx.open_positions < MaxOpenPositions
            /\ ~ReadOnly

\* The children that a price has triggered wait until they trade: set_price never
\* meets one that a sibling has cancelled, for no price is at both exits.
SweepInv ==
    /\ sweep \subseteq pending
    /\ sweep # {} => phase \in Market
    /\ \A i \in sweep : Triggered(requests[i], prices[requests[i].symbol])

\* The entries whose exits wait, or are still to be placed.
OpenEntries(s) ==
    {p \in Ids : /\ requests[p].symbol = s
                 /\ \/ \E i \in pending : requests[i].parent_id = p
                    \/ legs # <<>> /\ Head(legs).parent_id = p}

\* What they bought is still held.
OpenIsHeld ==
    \A s \in Symbols \ Leveraged :
        position[s].quantity >= SumFunctionOnSet(Quantities, OpenEntries(s))

Stopped(p) == \E i \in pending : requests[i].parent_id = p /\ requests[i].order_type = "STP"

\* A target waits, or is placed, next to its stop.
TargetsHaveStops ==
    \A s \in Symbols \ (Leveraged \cup exposed) :
        /\ \A i \in pending : /\ requests[i].symbol = s
                              /\ requests[i].order_type = "LMT"
                              => Stopped(requests[i].parent_id)
        /\ legs # <<>> /\ Head(legs).symbol = s /\ Head(legs).order_type = "LMT"
               => Stopped(Head(legs).parent_id)

\* The end-of-day job has positions left to look at; a leveraged one that it has
\* looked at is flat, or was rejected.
EodInv ==
    phase = "eod" =>
        /\ \A s \in todo : position[s].quantity # 0
        /\ \A s \in Leveraged : position[s].quantity = 0 \/ s \in todo \cup blocked

IInv ==
    /\ TypeOK /\ PendingIsOpen
    /\ ExitsInv /\ LegsInv /\ SweepInv
    /\ OpenIsHeld
    /\ StopsMatchShares /\ TargetsHaveStops
    /\ EodInv

\* Plans that may have placed an entry of a symbol so far.
PlansFor(s) == IF phase = "plan" /\ s \notin seen THEN day - 1 ELSE day

\* A position cost at most what the entries of those plans may cost, and its
\* average cost is never negative, so a sale never adds to what it cost.
CostInv ==
    /\ phase = "plan" => day > 0
    /\ \A s \in Symbols \ crossed :
          LET cost == Times(position[s].avg_cost, position[s].quantity)
          IN  /\ position[s].avg_cost[1] >= 0
              /\ cost[1] <= PlansFor(s) * MaxOrderNotional * cost[2]

-----------------------------------------------------------------------------
(* What the documentation says and the code does not do.                   *)

\* place_bracket_order, of a rejected leg: "treat the whole bracket as not
\* placed".  So no bracket may be given up once its entry is in the market.
BracketAllOrNone == [][~RejectLeg]_vars

\* run_eod_management "flattens anything" its rules flag, so that it is not held
\* overnight: a leveraged symbol that is flat in the night stays flat.
FlattenedStaysFlat ==
    [][phase = "night" => \A s \in Leveraged :
           position[s].quantity = 0 => position'[s].quantity = 0]_vars

\* "Every hard limit" is checked before an order: no entry is placed on an
\* account whose summary shows the daily loss past max_daily_loss_pct_nav.
DailyLossStopsEntries ==
    [][phase = "plan" /\ cash' < cash
           => DayPnl[1] * Whole100 > -(MaxDailyLoss * Equity * DayPnl[2])]_vars
=============================================================================
