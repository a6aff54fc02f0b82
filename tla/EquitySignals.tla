----------------------------- MODULE EquitySignals -----------------------------
(***************************************************************************)
(* strategies/equity: the five strategies that look at the bars of one     *)
(* symbol and propose at most one long signal each, and the indicators     *)
(* they are made of.  Bars come one by one and run_strategies looks at     *)
(* what there is.                                                          *)
(*                                                                         *)
(* Prices are in cents.  A mean is exact: signals are in Units, of which a *)
(* cent has as many as the means and the halves below need.  A comparison  *)
(* with pandas' NaN is that of a window that is not full or has no volume. *)
(* The scores, which only rank the signals, are left out.                  *)
(***************************************************************************)
EXTENDS Integers, SequencesExt

CONSTANTS
    DayBars,      \* what a day may bring: [open, high, low, close, volume]
    MaxBars,      \* bound on the days of a behaviour
    AtrWindow,    \* window of atr
    Window,       \* window of MeanReversion and fast_window of TrendPullback
    SlowWindow,   \* slow_window of TrendPullback
    Lookback,     \* lookback of MomentumBreakout
    EntryZ2       \* the square of entry_zscore

ASSUME BarsAssumption ==
    \A b \in DayBars :
        /\ {b.open, b.high, b.low, b.close} \subseteq Nat \ {0} /\ b.volume \in Nat
        /\ b.low <= b.open /\ b.low <= b.close /\ b.open <= b.high /\ b.close <= b.high

\* The defaults are 14, 20, 50, 20 and 4.
ASSUME WindowsAssumption ==
    /\ {AtrWindow, Window, SlowWindow, Lookback, MaxBars, EntryZ2} \subseteq Nat \ {0}
    /\ AtrWindow <= Lookback + 2 /\ AtrWindow <= Window + 2
    /\ Window <= SlowWindow /\ Window <= Lookback + 1

VARIABLES
    bars,      \* the bars of the symbol so far
    signals    \* what run_strategies made of them

scanVars == <<bars, signals>>

ScanInit == bars = <<>> /\ signals = {}

-----------------------------------------------------------------------------
(* indicators.py, at the last bar of a series; sums stand for means.       *)

Today == Len(bars)
Latest == bars[Today]
Previous == bars[Today - 1]

\* The absolute value of a difference.
Distance(a, b) == IF a < b THEN b - a ELSE a - b

\* The last n bars up to bar i.
Rolling(i, n) == (i - n + 1)..i

\* window times sma of the closes.
SmaSum(n) == SumFunction([i \in Rolling(Today, n) |-> bars[i].close])

\* The first bar has no previous close and skips what needs one.
TrueRange(i) ==
    LET b == bars[i]
        gaps == IF i = 1 THEN {} ELSE {Distance(b.high, bars[i - 1].close), Distance(b.low, bars[i - 1].close)}
    IN  Max({b.high - b.low} \cup gaps)

\* window times atr at bar i.
AtrSum(i) == SumFunction([j \in Rolling(i, AtrWindow) |-> TrueRange(j)])

\* Three times the volume-weighted sum of the typical prices up to bar i, and
\* the volume that vwap divides it by.
VolumePrice3(i) ==
    SumFunction([j \in 1..i |-> (bars[j].high + bars[j].low + bars[j].close) * bars[j].volume])
Volume(i) == SumFunction([j \in 1..i |-> bars[j].volume])
BelowVwap(i) == Volume(i) > 0 /\ 3 * bars[i].close * Volume(i) < VolumePrice3(i)
AboveVwap(i) == Volume(i) > 0 /\ 3 * bars[i].close * Volume(i) > VolumePrice3(i)

\* zscore <= entry_zscore, a negative one.  Equal closes have no deviation and
\* a NaN for a score.
Oversold ==
    LET sum == SmaSum(Window)
        squares == SumFunction([i \in Rolling(Today, Window) |-> bars[i].close * bars[i].close])
        below == sum - Window * Latest.close
    IN  /\ below > 0
        /\ below * below * (Window - 1) >= EntryZ2 * Window * (Window * squares - sum * sum)

-----------------------------------------------------------------------------
(* Signals.                                                                *)

Unit == 2 * AtrWindow * Window

\* atr_stop_price(entry, atr, twice / 2) below the latest close.
AtrStop(twice, atrSum) == Latest.close * Unit - twice * atrSum * Window

\* Mutant of StopAt: the nearer of the two levels.
StopAtNearest(level, twice, atrSum) == Max({level * Unit, AtrStop(twice, atrSum)})

\* The lower of a level of the bar and of the stop by the average range.
StopAt(level, twice, atrSum) == Min({level * Unit, AtrStop(twice, atrSum)})

\* target_r_multiple is 2 wherever there is one.
Long(strategy, stop) ==
    LET entry == Latest.close * Unit
    IN  [strategy |-> strategy, entry |-> entry, stop |-> stop, target |-> 3 * entry - 2 * stop]

MomentumBreakout ==
    LET prior == Rolling(Today - 1, Lookback)
        volume == SumFunction([i \in prior |-> bars[i].volume])
    IN  IF /\ Today >= Lookback + 2
           /\ AtrSum(Today) > 0
           /\ volume > 0
           /\ Latest.close > Max({bars[i].high : i \in prior})
           /\ 2 * Lookback * Latest.volume >= 3 * volume
        THEN {Long("momentum_breakout", AtrStop(4, AtrSum(Today)))}
        ELSE {}

\* A gap of 2%; the range is that up to the day before.
GapAndGo ==
    LET stop == StopAt(Latest.open, 3, AtrSum(Today - 1))
    IN  IF /\ Today >= AtrWindow + 2
           /\ 100 * (Latest.open - Previous.close) >= 2 * Previous.close
           /\ Latest.close >= Latest.open
           /\ AtrSum(Today - 1) > 0
           /\ stop < Latest.close * Unit
        THEN {Long("gap_and_go", stop)}
        ELSE {}

\* Mutant of MeanReversion: the sign of the z-score is lost.
MeanReversionEitherWay ==
    LET stop == AtrStop(3, AtrSum(Today))
    IN  IF /\ Today >= Window + 2
           /\ SmaSum(Window) # Window * Latest.close
           /\ Latest.close > Latest.open
           /\ AtrSum(Today) > 0
        THEN {[Long("mean_reversion", stop) EXCEPT !.target = SmaSum(Window) * 2 * AtrWindow]}
        ELSE {}

\* The target is the mean.
MeanReversion ==
    LET stop == AtrStop(3, AtrSum(Today))
        target == SmaSum(Window) * 2 * AtrWindow
    IN  IF /\ Today >= Window + 2
           /\ Oversold
           /\ Latest.close > Latest.open
           /\ AtrSum(Today) > 0
           /\ target > Latest.close * Unit
           /\ stop < Latest.close * Unit
        THEN {[Long("mean_reversion", stop) EXCEPT !.target = target]}
        ELSE {}

VWAPReclaim ==
    LET stop == StopAt(Latest.low, 3, AtrSum(Today))
    IN  IF /\ Today >= AtrWindow + 2
           /\ BelowVwap(Today - 1) /\ AboveVwap(Today)
           /\ AtrSum(Today) > 0
           /\ stop < Latest.close * Unit
        THEN {Long("vwap_reclaim", stop)}
        ELSE {}

\* The low is within 1.5% of the fast mean.
TrendPullback ==
    LET fast == SmaSum(Window)
        stop == StopAt(Latest.low - 1, 2, AtrSum(Today))
    IN  IF /\ Today >= SlowWindow + 2
           /\ SlowWindow * Latest.close > SmaSum(SlowWindow)
           /\ 1000 * Distance(Window * Latest.low, fast) < 15 * fast
           /\ Latest.close > Latest.open
           /\ Window * Latest.close > fast
           /\ AtrSum(Today) > 0
           /\ stop < Latest.close * Unit
        THEN {Long("trend_pullback", stop)}
        ELSE {}

-----------------------------------------------------------------------------
(* From day to day.                                                        *)

\* The market brings a bar; what was made of the earlier ones is gone.
NewBar(b) ==
    /\ Today < MaxBars
    /\ bars' = Append(bars, b)
    /\ signals' = {}

\* What ALL_STRATEGIES make of the bars.
Proposed == MomentumBreakout \cup GapAndGo \cup MeanReversion \cup VWAPReclaim \cup TrendPullback

\* run_strategies(ALL_STRATEGIES, symbol, bars); an empty frame is skipped.
RunStrategies ==
    /\ bars # <<>>
    /\ signals' = Proposed
    /\ UNCHANGED bars

ScanNext ==
    \/ \E b \in DayBars : NewBar(b)
    \/ RunStrategies

ScanSpec == ScanInit /\ [][ScanNext]_scanVars

-----------------------------------------------------------------------------
(* Properties.                                                             *)

\* What sizing, the bracket and both of their callers take for granted of a
\* signal, whatever the bars: the stop is below the entry and the target above
\* it, and the stop leaves the strategy's multiple of the average range as room,
\* so no flat, gapping or idle stretch sizes a position by a risk of next to
\* nothing.
SignalsLeaveRoom ==
    \A g \in signals :
        LET atrSum == IF g.strategy = "gap_and_go" THEN AtrSum(Today - 1) ELSE AtrSum(Today)
            twice == CASE g.strategy = "momentum_breakout" -> 4
                       [] g.strategy = "trend_pullback" -> 2
                       [] OTHER -> 3
        IN  /\ g.stop < g.entry /\ g.entry < g.target
            /\ g.entry - g.stop >= twice * atrSum * Window

\* No symbol is bought as oversold and as strong on the same bars: a z-score
\* below zero excludes a breakout and a bounce off the same mean, so of two
\* signals of one symbol the plan keeps the better of two that agree.
NeverOversoldAndStrong ==
    LET proposed == {g.strategy : g \in signals}
    IN  "mean_reversion" \in proposed =>
            "momentum_breakout" \notin proposed /\ "trend_pullback" \notin proposed

-----------------------------------------------------------------------------
(* The inductive invariant.                                                *)

\* The signals are those of the bars there are.
ScanInv == bars \in Seq(DayBars) /\ signals \in {{}, Proposed}

-----------------------------------------------------------------------------
(* What other modules assume and the strategies do not guarantee.          *)

\* Replay takes a stop to be a price.  That of a cheap symbol with a wide range
\* is not one.
StopsArePrices == \A g \in signals : g.stop > 0
=============================================================================
