# TLA+ models of omega_ib

omega_ib is a small Python trading system for Interactive Brokers: a scheduler
runs a pre-market plan, a mid-session review and an end-of-day job; every order
passes a risk guard; a kill switch stops everything; a fake broker stands in for
IB Gateway in dry runs, tests and backtests. This directory holds TLA+ modules
translated from that code, the TLC configurations that check them, and proofs
that TLAPS checks.

    tlc -config MCKillSwitch.cfg MCKillSwitch      # any run of the table below
    tlapm KillSwitchProofs.tla                     # any *Proofs module

## 1. Inventory of the system

| Component | State it keeps | Operations | Meets others through |
|---|---|---|---|
| Risk guard, `risk/guard.py` | an in-memory kill flag; the KILL file; rows in the audit table | `check_order`, `place_order`, `engage_kill_switch`, `reset_kill_switch`, `fixed_fractional_size` | called by the jobs, Telegram, the web app; calls the broker and the store |
| Fake broker, `broker/fake.py` | orders, waiting bracket children, prices, positions, cash, realized result | `place_order`, `set_price`, `cancel_order`, `cancel_all`, summaries | called by the guard, the engine, the replay |
| IB broker, `broker/ib.py` | the connection, the rate limiter, whatever IB holds | the same calls, asynchronous; connect, reconnect, heartbeat | called like the fake one; the Gateway of `docker-compose.yml` |
| Pacing, `broker/pacing.py` | times of the last calls, a lock | `acquire` | every call of the IB broker |
| Engine, `execution/engine.py` | the fills recorded | brackets, price walk, fill tracker | guard, broker |
| Jobs, `main.py` | none of their own between runs | plan, mid-session review, end-of-day | everything above, the reviewer |
| AI reviewer, `ai/reviewer.py` | rows in two tables | `review`, `apply_reviews_to_signals` | the plan; the model; the store |
| End-of-day rules, `lifecycle/eod.py` | none | decisions for a position | the end-of-day job |
| Scheduler, `scheduler.py` | APScheduler's jobs | cron triggers, the trading-day guard | the jobs |
| Web app, `web/app.py`, and Telegram, `notify/telegram.py` | a guard each (the web app builds one of its own; Telegram has the jobs') | kill, resume, read-only views | guard, broker |
| Store, `store/db.py` | SQLite tables | one transaction per row or group of rows | guard, reviewer, engine |
| Replay, `backtest/replay.py` | a table of open trades, closed trades | dates, exits, entries | guard, fake broker, strategies |
| Equity strategies, `strategies/equity` | none | five strategies, indicators, `run_strategies` | the plan and the replay |
| Market data, `data/market.py` | the IB object of the broker | `get_bars` | the plan; past the limiter |
| Portfolio risk, `risk/portfolio.py` | none | read-only sums | nothing yet |
| Options: `strategies/options`, `options_builder.py`, `data/options.py` | none | structures from a chain of quotes, payoff, ranking, combo orders | the guard; no job calls them yet |

What is hard in it:

* *Interleaving.* Jobs, web requests and Telegram run in threads of one process
  and share guard flags, a file and a broker without a lock. Checking an order
  and placing it are two steps. Jobs, kills and the market meet between any two
  legs of a bracket.
* *Crashes and failing calls.* The in-memory flag dies with the process, the file
  does not. The Gateway restarts every night and forgets what it holds
  untransmitted; a lost link stays lost. A store or a broker call may raise between any two steps.
* *Ordering.* The fills of a bracket's children, price moves, cancels and the legs
  still to be placed come in any order. IB answers a placed or cancelled order
  with a snapshot.
* *Sequences of legal calls.* Plans of successive days stack brackets on one
  symbol; the end-of-day job closes positions whose exits still wait; the replay
  enters a symbol twice on one date.
* *Boundaries.* Sizing floors three quotients and the guard compares products; the
  window of the limiter is half open.

What makes each part correct is stated by the properties in section 3.

## 2. Modules

| Module | Models | Uses |
|---|---|---|
| `KillSwitch` | the guard's flag and file, `place_order`, engage, reset, crash, shell | |
| `RateLimiter` | `pacing.py` and the call sent after `acquire` | |
| `Ratio` | exact fractions, for average costs and results | |
| `RiskChecks` | the checks of `check_order` and the sizing, as operators | `Ratio` |
| `OrderBook` | the life of an order's status (`broker/base.py`): the abstract specification | |
| `FakeBroker` | `broker/fake.py` | `Ratio`; implements `OrderBook` |
| `TradingDay` | the plan, the brackets and the end-of-day job of `main.py` | composes `FakeBroker` and `RiskChecks` |
| `Replay` | `backtest/replay.py` | composes `FakeBroker` and `RiskChecks` |
| `Bracket` | what `execution/engine.py` promises of a bracket: an abstract specification | |
| `IBSession` | the process on a real Gateway: startup, link, restarts, trigger, plan, legs on IB, kill, market | implements `Bracket` |
| `EquitySignals` | the five equity strategies and their indicators | |
| `PriceWalk` | `submit_with_price_walk` and `FillTracker` over the asynchronous IB broker | `RiskChecks` |
| `AIReview` | `AIReviewer.review`, `_log`, `apply_reviews_to_signals` | |
| `OptionStructures` | the option strategies, the payoff summary, the combo order and its check | `RiskChecks` |
| `MC*` | symbols, signals, bars and requests for TLC | the module they are named after |
| `*Proofs` | the theorems | the module they are named after; `TradingDayProofs` and `ReplayProofs` also `FakeBrokerProofs`, which holds the theorems on `RiskChecks`; `PriceWalkProofs` also `OptionStructures`, whose combos a walk works, and `ReplayProofs` also `EquitySignals`, whose signals a replay enters |

How state and actions correspond to the code is in PROJECT.json's "map", line by
line; the conventions are:

* A definition called "Mutant of X" is a plausible bug in X. It is never part of
  a specification; replacing X by it breaks a property.
* The specifications of `EquitySignals` and `OptionStructures` are `ScanSpec` and
  `ComboSpec`, so that the proofs can extend them beside the module that consumes what they produce.
* A history variable is named as such; it is only read by properties.
* Money is in whole units, a percentage in basis points, a field left at `None`
  is 0 where the code treats the two alike. Average costs and unrealized results
  are exact fractions (`Ratio`), where the code has floats.
* A rejected order writes an audit row and logs. Neither is read by anything, so a
  rejection changes no state but the job's.

**KillSwitch.** `flag[g]` is `_kill_switch_engaged_manually` of guard g, `file` the
KILL file. A job runs `CheckFile`, `CheckFlag`, `Place`, `Audit`: the two halves
of `kill_switch_active`, `broker.place_order`, `write_audit`. A command runs
`Engage`, `Touch`, `CancelAll`, or `Reset`, `Exists`, `Unlink`. Any call may fail
(`PlaceFails`, `AuditFails`, `EngageFails`), `Crash` is a restart by systemd.
`fence` marks the time from a touch of KILL to the next reset or deletion, whatever
runs at that moment; `contested` says that a reset was under way at the touch, and
may still unlink the file. Telegram's `handle_command` is modelled as a command thread;
`main.py` starts no poller that would call it, the web routes are mounted.

**RateLimiter.** Time is an integer clock. `Acquire` takes the lock, prunes, and
either grants or sleeps *with the lock*; the clock ticks on. `Send` is the message
to the Gateway after the grant. `Unpaced` is a scan of `data/market.py`, which asks
without one; it is a step of `WithScans` only. The grants are numbered, so that properties can
talk about windows.

**FakeBroker.** An order without a parent trades inside `place_order`; a child
waits. The loop of `set_price` is one step per triggered child (`FillChild`), with
every other call kept out until it ends; `SweepRaises` is the `KeyError` of a
child its sibling has cancelled. It implements `OrderBook` by INSTANCE: status by
id, the parent as group. `transmit` is ignored, as in the code: on IB the entry of
a bracket is held until its last leg, here it trades at once. `day_pnl` is never
started afresh, as in the code.

**TradingDay.** One step per order: sized, checked and placed (`PlaceEntry`,
`PlaceLeg`, `FlattenPosition`), or rejected. `guard.place_order` is one step here,
`KillSwitch` has the steps inside it. A kill, a resume come between any two
orders. A call may raise there too, as the audit row of an entry that has traded does
when the store fails: the jobs catch `GuardRejection` only, so `PlanDies` and `EodDies`
end them at once, with whatever was placed left as it is. `Multipliers` stands for the review, `AIReview` shows why they lie in
0..100. Prices move between the jobs only (`tests/test_main.py` and the replay
are the callers of `set_price`). What eod.py decides with the arguments
the job passes (an empty earnings calendar, `entered_today=False`) is that a
leveraged symbol is flattened and any other held. `SweepRaises` of the broker is no
step here: `SweptStillWait` proves that no bracket of the plan gets there.

**Replay.** The three loops of a date are three phases. `TryExit` and `TryEntry`
mark the price, the next step places the order or sees it rejected. The broker's
result is handed to the guard as the day's, whole.

**IBSession.** The same plan on IB, where a leg sent with `transmit` False is "held"
and the last leg sends the whole. `Boot` is `build_broker`: connected, or the fake
broker for as long as the process lives. `Fire` is the cron trigger through
`_guarded`; a process that is not there at the time misses it. `Qualify`, `Check`
and the three `Send`s are a bracket, `Reject` is a `GuardRejection`, `Abort` any
other exception, `Exit` a crash or the end of `main`. `GatewayStops` drops what was
never transmitted. `Engage` and `CancelAll` are a kill of the web thread. Orders are
cancelled and children accepted at once (`PriceWalk` has these as messages), and an
order trades whole. `Phase` is what a bracket looks like from its three legs; it
maps to `Bracket`, whose `bare` is a position that a kill or the close has left
without exits.

**EquitySignals.** Bars come one by one, `RunStrategies` looks at them. Means are kept
as sums and z-scores compared squared, so all is exact; a comparison with NaN is
the conjunct that is false. Windows are parameters, two to four bars in the run.

**PriceWalk.** `orders` is what the exchange holds; `status` is the snapshot
`place_order` returned. `asked` says that `cancel_order` or `cancel_all` was called
on an order, not that it is gone: `Trade` and `CancelArrives` race. Guard check and
send are two steps. No job calls the walk yet; options_builder.py names it as its
way of placing combos.

**AIReview.** One call of `review`: answer, validation, the audit transaction, the
decisions transaction, and the `except` branch that all of them share. A failure
while the fallback is logged leaves `review`.

**OptionStructures.** The strategies are operators over a chain, a set of quotes;
what a strategy may return is a set of sequences of legs, `<<>>` for `None`, with
more than one member where the order of the chain's list breaks a tie. `Generate`,
`Rank` or `DropIlliquid`, `BuildComboOrder`, `PlaceCombo` or `RejectCombo` follow one candidate
to the guard. Prices are in cents, nets in half cents, the payoff in half cents by
the number of sample points, so that all is whole; `round` takes a half cent to
either side, as floats do. `build_combo_order` takes a `limit_price` of the caller's own,
which no caller passes and the model leaves out. A credit combo is sold
(options_builder.py:53) with its legs on the sides the strategy gave them, as modelled.

## 3. Runs

| Run | Bounds | Shows |
|---|---|---|
| `kill_switch` | 2 jobs, 2 orders, 2 guards and commands, 1 failing call, 1 crash, a shell | below |
| `kill_by_shell`* | 1 job, 1 order, the same guards and commands, no fault or crash | `touch KILL` cancels nothing, README.md:9-12 says it does |
| `rate_limiter` | 2 threads, 2 calls per 3 ticks, 5 calls, clock to 5 | below |
| `fake_broker` | 1 symbol, 2 quotes, 4 orders, exits with meeting triggers | below |
| `trading_day` | a stock with two setups and a leveraged ETF, 2 days, 1 kill or 1 call that raises | below |
| `loss_ignored`* | one stock | the plan enters on an account past its daily loss |
| `replay` | 2 symbols, 3 dates, 4 signals, 4 kinds of bar | below |
| `ib_session` | 2 symbols, 2 days, 1 open position allowed, no bound on faults, kills or restarts | below |
| `equity_signals` | 7 kinds of bar, histories of up to 6, windows 2, 3 and 4 | below |
| `price_walk` | 3 steps, quantity 2, a limit the walk may reach, 1 kill, 1 failing call | below |
| `ai_review` | 2 symbols, answers of 0 to 3 reviews, 3 multipliers (one out of range), 2 failing transactions | below |
| `options` | 5 strikes, any contract missing, a dear and a wide wing, 2 expiries, 1 to 3 units, 0 or 100 shares | below |

A run with * checks one property that a document, docstring or message of the
repository states and the code does not keep; PROJECT.json's "findings" quote the
line. All other runs pass.

*kill_switch.* `FenceHolds`: once KILL is touched every guard blocks until a reset
begins or the file is deleted by hand, through further kills, failures and a crash,
unless a reset was already under way at the touch. That one case does lose the kill
(section 5). `StragglerBound`: a job that had checked its order when the kill came places
that one, also if a reset is about to unlink the file. `IInv`, the inductive invariant, holds `SweptClean`: after a completed kill
nothing else works.
`AuditGap`: an order misses its row only through a failure or a crash.
`CommandCancels` (liveness): a kill that has touched KILL, is not lifted and meets no
failure ends in its `cancel_all`.

*rate_limiter.* `WindowBound`: no half-open window of `per_seconds` has more grants
than slots. `JustLongEnough`: a sleep ends at the first moment a slot is free.
`MessageBound`: messages, sent after the grant, exceed a window by one per thread
at most. `EveryCallGranted` (liveness).

*fake_broker.* `PendingIsOpen`, `BooksBalance`: waiting children and statuses,
shares and cash and fills, realized result and average cost agree (the last until a
trade crosses zero: the code then keeps the old side's average).
`IsOrderBook`: the refinement.

*trading_day.* `StopsMatchShares`: whatever brackets overlap in a symbol, the stops
waiting are for the shares held, unless a kill, a rejected stop or an exception between
an entry and its stop took one away (`exposed`). `NeverShort`; `CostBoundedByPlans`: what a position
cost is within `max_order_notional` for each plan, unless a trade crossed zero.
`DroppedOnlyByCountOrKill`: sizing and guard agree, for the entry and for the stop, and
nothing but a kill or a call that raises takes a symbol's stops away.
`EodFlattens`: when the job ends the leveraged symbol is flat, or its order was seen
rejected, or an exception ended the job before its turn.

*replay.* `TradesExplainBooks`: the replay's table and the broker's books agree
through rejected exits and skipped dates. `ExitsAreCovered`: even of a symbol
entered twice an exit sells no more than is held. `FillsKeepLossLimit`: no fill is
the one that passes the limit.

*ib_session.* `IsBracket`: wherever the link, the Gateway, the process, a kill or the
guard cuts a bracket off, it works as a whole or not at all; no entry
trades before its exits wait (the refinement). `SweptStaysQuiet`: no leg that was
checked before a kill and sent after its `cancel_all` ever works. `OneEntryPerSession`:
over crashes, missed triggers, holidays and days a symbol never has two entries in
the market. `IInv` is the strengthening of both.

*equity_signals.* `SignalsLeaveRoom`: what is proposed is a long bracket whose stop is
at least the strategy's multiple of the average range away, so nothing is sized by
a risk of next to nothing. `NeverOversoldAndStrong`: no symbol is bought as oversold
and as strong on the same bars.

*price_walk.* `OneOrderUnasked`: at most the last order of a walk is in the market
without a request to cancel, so whatever trades beyond the quantity lost a race
with a cancel. That this happens is what IB allows: `place_order` returns
"pendingsubmit" and the walk goes on at once. `RejectedLeavesNothing`,
`EveryStepChecked`, `KillStopsWalk`, `FillsRecordedOnce`.

*ai_review.* `NeverSizesUp`, `VetoCounts` (a veto is overruled
only by a failing store), `UsedIsRecorded`, `ReviewReturns` (liveness: unless the
store fails, the plan goes on. The docstring's
"always returns" does not hold when the store fails under the fallback).

*options.* `TextbookRisk`: the 201 sampled points of the payoff give the textbook
extremes of every vertical spread, and of a condor whose short strikes are apart, whatever
gaps the chain has and however its quotes are skewed (a spread whose far wing is dearer
than the near one is still summarized correctly). It says nothing of the calendar, whose
summary is wrong (section 5). `OnlyCoveredCallIsNaked`: the guard takes
no other strategy's combo for a naked call. `DebitWithinLimits`: a placed debit
spread cannot lose more than `max_order_notional` or `max_position_pct_nav` allow,
up to the half cent its limit was rounded by.

**Why the bounds are enough.** Two jobs and two commands give every pair of
threads, on one guard and on two; a second crash or failure repeats the first,
and the theorems of section 4 cover any number. Two threads and two slots make a
thread wait for another that sleeps with the lock. In the trading runs the prices
are chosen so that entries, stops and targets lie on both sides of each other, of
the limits, and exactly on them; two plans are needed for brackets to overlap, and
a third shows nothing that a second does not in the properties stated. One trouble, a
kill or an exception, comes at each point of the two days; the theorems cover any number
and mix of them. Three dates
let a trade be stopped, the loss limit be reached by two trades and the next exit
be tried. Three reviews let one symbol be named twice and the other once. Two days and two symbols give
`ib_session` a position that fills up `max_open_positions` and a bracket of yesterday
beside one of today; its faults are not counted, so any number of them is covered.
Six bars let the slow window fill and slide, and every one of the five strategies
propose something. The chains hold every combination of gaps around the
money, so each strategy finds its legs, misses the first and misses the second.

**Deadlock.** It is checked wherever the cfg does not say otherwise. The limiter,
the walk, the review, the replay and the options run end when their calls, steps,
dates or candidates are used up, so their runs switch it off.

**Fairness.** `KillSwitch`: a command thread that has begun runs on (weak fairness of
its steps; a failing call is one of them). Jobs, the shell and the market owe
nothing. `RateLimiter`: a thread that can step does, the clock ticks while somebody
sleeps, and a waiter is sure of the lock only once nobody else wants it (weak
fairness, over a bounded number of calls). `AIReview`: the one thread runs on. `IBSession!FairSpec` is used by
`LinkLost.cfg` only: the Gateway comes back, systemd starts the process, the trigger
fires and a plan goes on. That is what the threads of a live process do; no run assumes that a broker fills, a
command comes or a failure ends.

## 4. Proofs

| Module | Theorems | Rests on |
|---|---|---|
| `KillSwitchProofs` | `Invariance`, `TypeCorrect`, `FenceIsHeld`, `KillBoundsOrders`, `AuditGapBounded` | guards, jobs, commands, orders arbitrary sets; `GuardOf` maps into the guards; `None` is new |
| `RateLimiterProofs` | `Invariance`, `WindowIsBounded`, `SleepsJustLongEnough`, `MessagesAreBounded` | positive numbers of slots and ticks, finitely many threads |
| `FakeBrokerProofs` | `BrokerInvariance`, `WaitingIsOpen`, `ImplementsOrderBook`, `BooksAlwaysBalance` | finitely many symbols; prices and quantities are natural numbers |
| | of `RiskChecks`: `SizeIsSafe`, `SizedEntryAdmitted`, `SizedStopAdmitted` | the ranges config.py gives the limits |
| `TradingDayProofs` | `DayInvariance`, `StopsCoverShares`, `JobsNeverShort`, `CostsAreBounded`, `DropsAreKillOrCount`, `LeveragedIsFlat`, `DayBooksBalance`, `SweptStillWait` | of a signal 0 < stop < entry < target; multipliers of 0 to 100 percent; the two rows above |
| `ReplayProofs` | `ReplayInvariance`, `ExitsCovered`, `TableExplainsBooks`, `FillsStayWithinLoss`, `OverwrittenStaysHeld`, `ReplayBooksBalance` | positive stops below the entry, targets above; the rows of `FakeBrokerProofs` |
| | of `EquitySignals`: `SignalsAlwaysLeaveRoom`, `NeverBothOversoldAndStrong` | of a bar the low is least and the high greatest, prices are positive; windows of any lengths in the order of the defaults |
| `PriceWalkProofs` | `Invariance`, `TypeCorrect`, `OneOrderAtATime`, `WalkStaysWithinLimits`, `KillBoundsWalk`, `RejectionIsClean`, `FillsAreRecordedOnce` | positive quantity and increment, limits that stay positive over the walk |
| | of `OptionStructures`: `ComboInvariance`, `OnlyTheCoveredCallIsNaked`, `SummaryIsTextbook`, `DebitLosesWithinLimits` | a chain has each contract once and strikes on a grid of 20 cents; wing, number of points and quantities are positive, NAV any integer; limits as above |
| `AIReviewProofs` | `Invariance`, `AIIsAdvisory`, `VetoesCount`, `AppliedIsRecorded` | signals, answers and bounds arbitrary |
| `IBSessionProofs` | `Invariance`, `TypeCorrect`, `KillSilencesBrackets`, `EntriesAreSingle`, `SessionKeepsBrackets` | positive numbers of days and positions; symbols arbitrary; `None` is new |

*Kill switch.* The fence alone is not inductive. `FenceInv` adds that inside one that is
not contested the file is there and nobody is resetting (so nobody can unlink), since a
reset that begins ends the fence. While the file is there a job past the file check has
no late order, contested or not: a second late order of a job would need a check in that
time, which the file refuses. `AuditInv` adds that a job about to write a row holds an
order of its own without one, which is what lets each row close a gap.

*Rate limiter.* `IInv` says that the list the limiter keeps is a tail of all
grants in order, that what was pruned is older than the window, and that a
sleeper's wake-up time is the expiry of the oldest call kept. The window bound
then follows for windows that end at any grant. For the messages `SendInv` says that
each goes out after as many grants and that at most one grant a thread is without its
message; `MessagesApart` puts two of them on either side of a window of grants.

*Sizing.* `FloorTimes` and `TimesMonotone` turn the floor of a quotient into the
product the guard compares; `LeastOfThree` picks the cap; `ScaledShrinks` carries
the result over the reviewer's multiplier. `DropsAreKillOrCount` carries the two
theorems about the guard into the plan: the context of the entry is the one its stop
is checked with.

*Fake broker.* `PendingIsOpen` is inductive with the types (`BrokerIInv`), one lemma
a call; `BookStep` takes each call to a step of `OrderBook`. The books need sums over
the filled orders and over the positions, which the community modules define by
recursion over sets. `FakeBrokerProofs` first shows that such a fold exists and is
unique, by induction on the subsets of a finite set (`PickInduction`, from the
library's least element of a well-founded order, as its induction theorems take an
operator), and then how a sum changes with one member. The averages are fractions in lowest
terms; `At(D, a, v)` says that `a` is `v / D`, and over a common denominator the books
become an equation between integers (`CostMoves`, `TradeCosts`). It excludes trades that
cross zero: there it is false of the code, which keeps the average of the old side.

*Trading day.* `NeverShort` and `StopsMatchShares` follow from what waits. `ExitsInv`
and `LegsInv` say that the waiting orders are exits of entries the broker has,
one stop and one target each at most, the stop below the entry's price and the target
above. So no price triggers both (`SweepInv`), an exit that trades sells what its entry
bought and leaves nothing of it waiting, and `OpenIsHeld` counts that what the open
entries bought is still held. `TargetsHaveStops` is there so that a target that trades
takes a stop away for as many shares as it sells. `EodInv` says that a position the
job has yet to flatten is not empty, so `FlattenPosition` sends a quantity that the
broker takes. `Kinds` splits the steps of the jobs into the calls of the broker and
those that leave it alone; each part of `IInv` has one lemma over these. An exception changes the job only
(`PlanDies`, `EodDies`): it drops the legs still to come, and `exposed` takes the
symbol whose entry has no stop yet. `CostInv` is
an invariant of its own: averages are never negative, and the plan that runs counts
for a symbol from the moment it takes it. The proof showed that the property holds only
of symbols no trade has carried through zero, as stated now: a short of a leveraged
symbol that an entry turns long keeps the average of the short side, which can be
any price.

*Replay.* `ExitsAreCovered` and `TradesExplainBooks` are inductive only together with
what waits at the guard: `AttemptInv` says that an exit sells the open trade of its
symbol and an entry buys at the entry of its signal, `TableInv` that a trade of the
table has shares and exits. `MarkedInv` says that the symbol of that order is marked at
the order's price, which is what the loss limit needs: `DayAfterFill` shows that a fill
there moves a result from the position to the realized one and leaves the sum as it
was, so what the guard compared before the fill is what the property compares after
it. The sum is a fold of fractions over the positions; `PnlAnyOrder` and `PnlBase` make
it independent of the order of the positions and of where it starts, up to `Equals`.

*Equity signals.* `ScanInv` says that the signals are those of the bars there are.
`StopLeavesRoom` is arithmetic on one strategy's stop, `WindowsFull` that a strategy
which proposes has the bars its averages are over. `BreakoutAboveMean`: a close above
every high of the lookback is not below the mean of a window no longer than that, as
`SumAtMost` bounds the sum of its closes; a bounce is above the mean by its own guard.

*Options.* `ShapeInv` says which legs a candidate of each strategy has; everything is
read off these. The payoff is the sum of what the legs are worth (`LegSum` and
`PayoffIs` write the library's sum out), `PairWorth` gives that of two legs of
opposite sides: nothing on one side of both strikes, the wing on the other, between
them something between. `RangeCovers` says that the curve begins and ends beyond the strikes, so
the extremes of a pair are among its sampled points, whatever their number. A condor is two pairs.
It loses one wing if its short strikes are not crossed, and the credit is won at a
point between them, which `PointBetween` finds if a step of the curve is not longer
than the gap; points that all miss it need not show the credit, so the property asks for
the gap. `CallsAreCovered` counts bought
and sold calls from the ratios as the guard does. `WholeShare` bounds what the
rounding of the limit hides from the guard. The division by the NAV in the guard is
skipped at a NAV of zero or less, where the property claims nothing.

*AI review.* `ReviewInv` is that a used outcome is the valid answer or a fallback with a
cause, and that each outcome has left its audit row last; the multiplier of a symbol
is found by its last review.

*Price walk.* `WalkInv` ties the place in the loop to the orders: between the
cancel and the next send nothing is left unasked and the steps count the orders;
what the guard has just admitted is within the limits; once an order went out
after the kill no other is past the check. `InPlace` and `OneOrderChanges` deal
with every step that changes orders where they are.

*IB session.* Neither property is inductive. `CurrentInv` says which legs the bracket
being placed has, all of them or, after a sweep or a restart of the Gateway, none;
`AheadInv` that the brackets still to come have none, which `UntouchedStays` carries
over every step that is not the plan's own. From these follow `LegInv` (no bracket is
torn, what is in the market is of today) and with it `OneEntryPerSession`.
`SweptInv` says that after a sweep the bracket being placed has lost its entry, so its
last leg transmits nothing. `StepRefines` takes each step to one of `Bracket`;
`Phases` and `SweptLeg` compute the phase before and after.

TLC has checked each inductive invariant before it was proved; those of `KillSwitch`, `RateLimiter`,
`PriceWalk` and `IBSession` are invariants of a run, those of `FakeBroker`, `TradingDay`,
`AIReview`, `Replay`, `EquitySignals` and `OptionStructures` are checked by adding
`INVARIANT BrokerIInv`, `IInv`, `CostInv`, `ReplayIInv`, `ScanInv` or `ComboInv` to the cfg (`TradingDay`:
1.5 million states).

Every safety property of the passing runs has its theorem. Left to TLC are the
liveness properties (`CommandCancels`, `EveryCallGranted`, `ReviewReturns`; TLAPS 1.4.5
has no ENABLED) and the properties of the runs that fail, of which a counterexample is
the point. `Ratio` keeps fractions in lowest terms by a `CHOOSE` of the greatest divisor; what the
proofs use of it is proved in `FakeBrokerProofs`.

## 5. Found on the way

Besides the two findings of PROJECT.json. A cfg named here is no run of the table:
TLC finds its one property violated, which is what the item says.

* A kill that touches KILL while a reset of the other guard is between its flag and its
  unlink is lost: the file is gone, the jobs' guard was never flagged, and orders pass
  after a kill that cancelled and answered as always; guard.py:113 says that new ones
  are blocked "until reset_kill_switch() is called" (`KillSwitch!KillStands`,
  `KillLost.cfg`).
* When the audit row of an entry that has traded, or a call for its stop, raises, the
  plan ends and nothing places the stop: main.py:125-128 catches `GuardRejection` only.
  On IB the entry is still held then (`TradingDay!PlanDies`, `IBSession!Abort`).
* A calendar is summarized as a sure loss of its debit, as payoff_at_expiration lets both
  legs expire together; calendar_spread.py:1-3 says that it profits from the
  "time decay differential" (`OptionStructures!CalendarCanProfit`, `CalendarFlat.cfg`).
* The end-of-day flatten leaves the exits of the closed position waiting; one of them
  later opens a short (`TradingDay!FlattenedStaysFlat`, `FlattenLeavesExits.cfg`). The job
  would send a stock order for a position that is an option (main.py:161).
* The guard refuses the covered call whatever shares are held
  (`OptionStructures!SharesCoverTheCall`, `CoveredCall.cfg`).
* All legs have tif DAY: a position held overnight has no stop, while eod.py:64-65
  speaks of the risk "against the stop overnight" (`IBSession!HeldIsProtected`,
  `StopsExpire.cfg`).
* In a process that started as a dry run a kill answers as always and cancels nothing
  at IB, whatever an earlier process left there (`IBSession!CompletedKillCancels`,
  `KillDryRun.cfg`).
* A lost link stays lost: nothing calls `reconnect_with_backoff`, while DEPLOY.md:89-91
  calls the daily restart of the Gateway "handled" (`IBSession!LinkComesBack`,
  `LinkLost.cfg`).
* Historical and option data are requested past the limiter, while DEPLOY.md:78-81 says
  that it paces every call (`RateLimiter!WithScans`, `UnpacedScan.cfg`).
* The stop of a cheap symbol with a wide range is zero or less, and nothing checks it
  (`EquitySignals!StopsArePrices`, `StopBelowZero.cfg`). `TradingDay` and `Replay` take
  stops to be positive.
* On IB the count that is compared with `max_open_positions` is that of positions;
  entries of the same plan that wait for the market are not in it.
* `IBOptionsData` fills in no open interest, so `is_liquid`, which asks for 50 or 100,
  rejects every quote of a live chain.
* `options_management_decision` takes the profit of a debit position from
  `-current_net_price`, the sign of a closing order; its docstring gives both prices
  the sign of the position, by which the profit is never taken.
* A bracket whose target exceeds `max_order_notional` is given up after its entry and
  stop are placed (engine.py:67; the docstring at 59-61 says "treat the whole
  bracket as not placed"): `TradingDay!BracketAllOrNone`, `BracketHalfPlaced.cfg`.
  On IB the entry would still be held, as `transmit` is False.
* Two strategies on one symbol and date make the replay overwrite its trade; the
  shares of the first are never sold (`Replay!doubled`, proved as `OverwrittenStaysHeld`). main.py removes such
  duplicates, the replay does not. After a partial sale the position's unrealized
  result is that of the whole until the next price.
* Past its daily limit a replay never exits again: the realized result of the whole
  replay is handed to the guard as the day's and the stop is refused on every later
  date (`Replay!StopsFill`, `ReplayStuck.cfg`).
* A resume on one guard leaves the flag of the other set: after /kill on Telegram the
  web's resume deletes KILL and answers "kill_switch_active: false", and the jobs stay
  blocked (`KillSwitch!ResumeUnblocks`, `KillResume.cfg`).
* `max_loss` of a cash-secured put is what a fall of 5% loses, as the payoff curve
  ends half a span below the strike; cash_secured_put.py:3-4 gives it as strike less
  premium. A covered call's combo is summarized without the shares.
* For a credit spread the guard compares the credit with `max_order_notional`, not
  the wing less the credit, which is what it can lose.
* `is_new_position` is always True in the plan, so adding to a position counts
  against `max_open_positions` like a new one.
* The price walk sends the whole quantity again after a partial fill.

## 6. Not modelled, and why

The scores of the strategies and the options' probability of profit, breakevens and
other greeks rank candidates and decide no property. `risk/portfolio.py` sums floats
for a report. `options_management_decision` is a pure decision nobody calls;
`reconnect_with_backoff` and the Telegram poller have no caller either. The
end-of-day job is modelled on the fake broker only. Prompts, HTML and formatting, the
statistics of the replay, the audit rows of kills, resets and rejections, heartbeat
and `market_data_degraded` (they report), and the conversions of contracts and account
rows are left out. The fake broker is called by one thread at a time; a kill whose
`cancel_all` meets an insertion and raises is `KillSwitch!EngageFails`. Misfires and
two runs of one job at once are APScheduler's, whose default of one instance the code
keeps.

## 7. Plan

What would come next, in this order:

1. `BooksBalance` past a trade that crosses zero, once fake.py starts a new average
   there.
2. Nothing calls the options and the price walk yet: when a job does, a module that
   composes `OptionStructures`, `PriceWalk` and the commands of `KillSwitch`.
3. Should `reconnect_with_backoff` get a caller, its retries as actions of `IBSession` in
   place of the lost link.
