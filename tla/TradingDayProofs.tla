---------------------------- MODULE TradingDayProofs ----------------------------
(***************************************************************************)
(* Theorems about the jobs of main.py on the in-memory broker, for every   *)
(* set of signals, quotes and multipliers, every number of days, kills and *)
(* calls that raise.                                                       *)
(*                                                                         *)
(* IInv says which orders wait: exits of entries the broker has filled, one*)
(* stop and one target at most for an entry (ExitsInv, LegsInv).  So a     *)
(* price can trigger one of the two only, and the child that set_price has *)
(* found still waits when it is filled (SweepInv).  So every exit sells    *)
(* what one entry bought, and takes its sibling with it: what the open     *)
(* entries bought is still held (OpenIsHeld), and the stops that wait are  *)
(* for all of it (StopsMatchShares, TargetsHaveStops).  Each step is one   *)
(* call of the broker or leaves it alone (Kinds), and each part of the     *)
(* invariant is carried over those calls in a lemma of its own.            *)
(***************************************************************************)
EXTENDS TradingDay, FakeBrokerProofs

-----------------------------------------------------------------------------
(* The orders of the jobs.                                                 *)

\* An account that is under water is given no size.
LEMMA NoSizeUnderWater ==
    ASSUME NEW n \in Int, n < 0, NEW risk \in Nat \ {0}, NEW entry \in Nat, NEW stop \in Nat
    PROVE  FixedFractionalSize(n, risk, entry, stop, 1) = 0
<1> DEFINE perUnit == Abs(entry - stop) * 1
           unit == entry * 1
           byRisk == (n * risk) \div (Whole100 * perUnit)
           byOrder == MaxOrderNotional \div unit
           byPosition == (n * MaxPosition) \div (Whole100 * unit)
<1>1. CASE perUnit <= 0 \/ entry <= 0
  BY <1>1 DEF FixedFractionalSize
<1>2. CASE ~(perUnit <= 0 \/ entry <= 0)
  <2>1. PICK p, u \in Nat \ {0} : p = Whole100 * perUnit /\ u = unit
    <3>1. perUnit \in Nat \ {0} /\ unit \in Nat \ {0}
      BY <1>2 DEF Abs
    <3> QED
      BY <3>1 DEF Whole100
  <2>2. PICK a \in Int : a = n * risk /\ a < 0
    OBVIOUS
  <2>3. byRisk \in Int /\ byRisk < 0
    <3>1. a \div p \in Int /\ a \div p < 0
      BY <2>1, <2>2
    <3> QED
      BY <2>1, <2>2, <3>1
  <2>4. byOrder \in Int
    BY <2>1, LimitsAssumption
  <2>5. byPosition \in Int
    <3>1. n * MaxPosition \in Int /\ Whole100 * unit \in Nat \ {0}
      BY <2>1, LimitsAssumption DEF Whole100
    <3> HIDE DEF unit
    <3> QED
      BY <3>1
  <2>6. FixedFractionalSize(n, risk, entry, stop, 1) = Max({0, Min({byRisk, byOrder, byPosition})})
    BY <1>2 DEF FixedFractionalSize
  <2> HIDE DEF byRisk, byOrder, byPosition
  <2> DEFINE m == Min({byRisk, byOrder, byPosition})
  <2>7. m \in Int /\ m < 0
    <3>1. PICK x \in {byRisk, byOrder, byPosition} : \A y \in {byRisk, byOrder, byPosition} : x <= y
      BY <2>3, <2>4, <2>5
    <3>2. m \in {byRisk, byOrder, byPosition} /\ m <= byRisk
      BY <3>1 DEF Min
    <3> QED
      BY <2>3, <2>4, <2>5, <3>2
  <2> HIDE DEF m
  <2>8. Max({0, m}) = 0
    <3>1. 0 \in {0, m} /\ \A y \in {0, m} : 0 >= y
      BY <2>7
    <3>2. \A x \in {0, m} : (\A y \in {0, m} : x >= y) => x = 0
      BY <2>7
    <3> QED
      BY <3>1, <3>2 DEF Max
  <2> QED
    BY <2>6, <2>8 DEF m
<1> QED
  BY <1>1, <1>2

\* What run_pre_market_plan places for a signal is a number of shares, and it
\* places nothing unless the account has money.
LEMMA SizeType ==
    ASSUME nav \in Int, NEW g \in Signals, NEW percent \in Multipliers
    PROVE  /\ SizeOf(g, percent) \in Nat
           /\ SizeOf(g, percent) > 0 => nav \in Nat
<1>1. g.entry \in Nat /\ g.stop \in Nat /\ percent \in 0..100 /\ Risk \in Nat \ {0}
  BY SignalsAssumption DEF Whole100
<1> DEFINE size == FixedFractionalSize(nav, Risk, g.entry, g.stop, 1)
<1>2. CASE nav \in Nat
  <2>1. size \in Nat
    <3>1. Risk \in Nat /\ 1 \in Nat \ {0}
      BY <1>1
    <3> QED
      BY <1>1, <1>2, <3>1, SizeIsSafe
  <2> HIDE DEF size
  <2>2. Scaled(size, percent) \in Nat
    BY <1>1, <2>1, ScaledShrinks
  <2> QED
    BY <1>2, <2>2 DEF SizeOf, size
<1>3. CASE nav \notin Nat
  <2>1. nav < 0
    BY <1>3
  <2>2. size = 0
    BY <1>1, <2>1, NoSizeUnderWater
  <2>3. SizeOf(g, percent) = (0 * percent) \div 100
    BY <2>2 DEF SizeOf, Scaled
  <2>4. (0 * percent) \div 100 = 0
    BY <1>1
  <2> QED
    BY <2>3, <2>4
<1> QED
  BY <1>2, <1>3

\* The orders of a bracket are well formed.
LEMMA BracketTypes ==
    ASSUME NEW g \in Signals, NEW quantity \in Nat \ {0}, NEW parent \in Nat
    PROVE  /\ Entry(g, quantity) \in OrderRequest
           /\ Exits(g, quantity, parent)[1] \in OrderRequest
           /\ Exits(g, quantity, parent)[2] \in OrderRequest
<1>1. g.symbol \in Symbols /\ g.stop \in Nat /\ g.entry \in Nat /\ g.target \in Nat
  BY SignalsAssumption
<1> QED
  BY <1>1 DEF Entry, Exits, Order, OrderRequest, NoParent

\* The order that flattens a position is well formed.
LEMMA FlattenType ==
    ASSUME BrokerTypeOK, NEW s \in Symbols, position[s].quantity # 0
    PROVE  Flatten(s) \in OrderRequest /\ Signed(Flatten(s)) = -position[s].quantity
<1>1. position[s].quantity \in Int /\ position[s].market_price \in Nat
  BY DEF BrokerTypeOK, Position
<1> QED
  BY <1>1 DEF Flatten, Order, OrderRequest, Magnitude, NoParent, Signed

-----------------------------------------------------------------------------
(* What the calls do to the orders and the shares.                         *)

\* An order that trades at once.
LEMMA Trades ==
    ASSUME BrokerTypeOK, NEW o \in OrderRequest, PlaceAndFill(o)
    PROVE  /\ NextId \in Nat \ {0} /\ NextId \notin Ids /\ Ids' = Ids \cup {NextId}
           /\ requests'[NextId] = o /\ \A i \in Ids : requests'[i] = requests[i]
           /\ \A s \in Symbols :
                position'[s].quantity = position[s].quantity + (IF s = o.symbol THEN Signed(o) ELSE 0)
           /\ sweep = {} /\ UNCHANGED <<pending, sweep, prices>>
<1> DEFINE price == IF o.limit_price # 0 THEN o.limit_price ELSE prices[o.symbol]
<1>1. price \in Nat
  BY DEF BrokerTypeOK, OrderRequest
<1>2. /\ requests' = Append(requests, o)
      /\ status' = Append(status, "filled")
      /\ fillPrice' = Append(fillPrice, price)
      /\ ApplyFill(o, price)
      /\ sweep = {} /\ UNCHANGED <<pending, sweep, prices>>
  BY DEF PlaceAndFill
<1> HIDE DEF price
<1>3. "filled" \in Statuses
  BY DEF Statuses
<1>4. Ids' = Ids \cup {NextId} /\ requests'[NextId] = o /\ \A i \in Ids : requests'[i] = requests[i]
  BY <1>1, <1>2, <1>3, PlacedAppends
<1>5. \A s \in Symbols :
         position'[s].quantity = position[s].quantity + (IF s = o.symbol THEN Signed(o) ELSE 0)
  BY <1>1, <1>2, FillMoves
<1>6. NextId \in Nat \ {0} /\ NextId \notin Ids
  BY IdsType DEF NextId
<1> QED
  BY <1>2, <1>4, <1>5, <1>6

\* A child that starts to wait.
LEMMA Waits ==
    ASSUME BrokerTypeOK, NEW o \in OrderRequest, PlaceChild(o)
    PROVE  /\ NextId \in Nat \ {0} /\ NextId \notin Ids /\ Ids' = Ids \cup {NextId}
           /\ requests'[NextId] = o /\ \A i \in Ids : requests'[i] = requests[i]
           /\ pending' = pending \cup {NextId}
           /\ sweep = {} /\ UNCHANGED <<position, sweep, prices>>
<1>1. /\ requests' = Append(requests, o)
      /\ status' = Append(status, "submitted")
      /\ fillPrice' = Append(fillPrice, 0)
      /\ pending' = pending \cup {NextId}
      /\ sweep = {} /\ UNCHANGED <<position, sweep, prices>>
  BY DEF PlaceChild
<1>2. "submitted" \in Statuses /\ 0 \in Nat
  BY DEF Statuses
<1>3. Ids' = Ids \cup {NextId} /\ requests'[NextId] = o /\ \A i \in Ids : requests'[i] = requests[i]
  BY <1>1, <1>2, PlacedAppends
<1>4. NextId \in Nat \ {0} /\ NextId \notin Ids
  BY IdsType DEF NextId
<1> QED
  BY <1>1, <1>3, <1>4

\* A nonempty set of ids has a least one: the child set_price fills next.
LEMMA LeastOfSweep ==
    ASSUME BrokerTypeOK, sweep # {}
    PROVE  Min(sweep) \in sweep
<1>1. sweep \subseteq Nat
  BY IdsType DEF BrokerTypeOK
<1> DEFINE A == {n \in Nat : n \notin sweep}
<1>2. ASSUME NEW n \in Nat, \A m \in Nat : m < n => m \in A,
             \A x \in sweep : \E y \in sweep : ~ (x <= y)
      PROVE  n \in A
  BY <1>1, <1>2
<1>3. CASE \A x \in sweep : \E y \in sweep : ~ (x <= y)
  <2>1. \A n \in Nat : (\A m \in Nat : m < n => m \in A) => n \in A
    BY <1>2, <1>3
  <2> HIDE DEF A
  <2>2. \A n \in Nat : n \in A
    BY <2>1, NatComplete
  <2> QED
    BY <1>1, <2>2 DEF A
<1>4. CASE \E x \in sweep : \A y \in sweep : x <= y
  BY <1>4 DEF Min
<1> QED
  BY <1>3, <1>4

\* The child of a bracket that a price has triggered: its shares are traded, and
\* nothing that belongs to its entry waits any more.
LEMMA ChildTrades ==
    ASSUME BrokerTypeOK, FillChild
    PROVE  \E i \in sweep \cap pending :
              /\ requests[i] \in OrderRequest
              /\ pending' = {k \in pending : requests[k].parent_id # requests[i].parent_id}
              /\ sweep' = sweep \ {i}
              /\ Ids' = Ids /\ UNCHANGED <<requests, prices>>
              /\ \A s \in Symbols :
                   position'[s].quantity = position[s].quantity
                       + (IF s = requests[i].symbol THEN Signed(requests[i]) ELSE 0)
<1> DEFINE i == Min(sweep)
           price == prices[requests[i].symbol]
<1>1. i \in sweep /\ i \in pending
  BY LeastOfSweep DEF FillChild
<1>2. i \in Ids /\ requests[i] \in OrderRequest
  BY <1>1, IdsType DEF BrokerTypeOK
<1>3. price \in Nat
  BY <1>2 DEF BrokerTypeOK, OrderRequest
<1>4. /\ ApplyFill(requests[i], price)
      /\ pending' = pending \ (Siblings(i) \cup {i})
      /\ sweep' = sweep \ {i}
      /\ UNCHANGED <<requests, prices>>
  BY DEF FillChild
<1> HIDE DEF i, price
<1>5. \A s \in Symbols :
         position'[s].quantity = position[s].quantity
             + (IF s = requests[i].symbol THEN Signed(requests[i]) ELSE 0)
  BY <1>2, <1>3, <1>4, FillMoves
<1>6. pending' = {k \in pending : requests[k].parent_id # requests[i].parent_id}
  BY <1>1, <1>4 DEF Siblings
<1>7. Ids' = Ids
  BY <1>4 DEF Ids
<1> QED
  BY <1>1, <1>2, <1>4, <1>5, <1>6, <1>7

-----------------------------------------------------------------------------
(* The jobs as clients of the broker.                                      *)

\* The legs that are still to be placed: the two exits of an entry, or only its
\* target.
LEMMA LegsAre ==
    ASSUME TypeOK, LegsInv, legs # <<>>
    PROVE  \E g \in Signals, percent \in Multipliers, q \in Nat \ {0}, p \in Ids, e, f \in OrderRequest :
              /\ q = SizeOf(g, percent) /\ requests[p] = Entry(g, q)
              /\ e = Exits(g, q, p)[1] /\ f = Exits(g, q, p)[2]
              /\ \/ legs = <<e, f>>
                 \/ legs = <<f>>
<1>1. PICK g \in Signals, percent \in Multipliers :
         LET q == SizeOf(g, percent)
             p == Head(legs).parent_id
         IN  /\ q > 0 /\ p \in Ids /\ requests[p] = Entry(g, q)
             /\ legs = Exits(g, q, p) \/ legs = Tail(Exits(g, q, p))
  BY DEF LegsInv
<1>2. PICK q \in Nat \ {0}, p \in Ids :
         /\ q = SizeOf(g, percent) /\ requests[p] = Entry(g, q)
         /\ legs = Exits(g, q, p) \/ legs = Tail(Exits(g, q, p))
  BY <1>1, SizeType DEF TypeOK
<1>3. p \in Nat
  BY IdsType DEF TypeOK
<1>4. PICK e, f \in OrderRequest : e = Exits(g, q, p)[1] /\ f = Exits(g, q, p)[2]
  BY <1>3, BracketTypes
<1>5. Exits(g, q, p) = <<e, f>>
  BY <1>4 DEF Exits
<1>6. legs = <<e, f>> \/ legs = <<f>>
  BY <1>2, <1>5
<1> QED
  BY <1>2, <1>4, <1>6

\* Only the stop of the bracket being placed may wait, and the context is that
\* of its entry.
LEMMA LegsFacts ==
    ASSUME LegsInv, legs # <<>>, NEW p, Head(legs).parent_id = p
    PROVE  /\ \A i \in pending : requests[i].parent_id = p
                                     => Len(legs) = 1 /\ requests[i].order_type = "STP"
           /\ ctx = Context(nav, ctx.open_positions, TRUE)
           /\ ctx.open_positions \in Nat /\ ctx.open_positions < MaxOpenPositions
           /\ ~ReadOnly
  BY DEF LegsInv

\* The fields of the orders of a bracket.
LEMMA BracketFields ==
    ASSUME NEW g \in Signals, NEW q, NEW p
    PROVE  /\ Entry(g, q).symbol = g.symbol /\ Entry(g, q).quantity = q
           /\ Entry(g, q).action = "BUY" /\ Entry(g, q).limit_price = g.entry
           /\ Entry(g, q).parent_id = NoParent
           /\ Exits(g, q, p)[1].symbol = g.symbol /\ Exits(g, q, p)[1].quantity = q
           /\ Exits(g, q, p)[1].action = "SELL" /\ Exits(g, q, p)[1].parent_id = p
           /\ Exits(g, q, p)[1].order_type = "STP" /\ Exits(g, q, p)[1].stop_price = g.stop
           /\ Exits(g, q, p)[1].limit_price = 0
           /\ Exits(g, q, p)[2].symbol = g.symbol /\ Exits(g, q, p)[2].quantity = q
           /\ Exits(g, q, p)[2].action = "SELL" /\ Exits(g, q, p)[2].parent_id = p
           /\ Exits(g, q, p)[2].order_type = "LMT" /\ Exits(g, q, p)[2].limit_price = g.target
  BY DEF Entry, Exits, Order

\* A job ends, at its end or by an exception.
Returns == EndPlan \/ PlanDies \/ EndEod \/ EodDies

LEMMA Ending ==
    Returns => PlanReturns \/ EodReturns
BY DEF Returns, EndPlan, PlanDies, EndEod, EodDies

\* Whatever a job does, the broker sees a well-formed call or nothing.
LEMMA JobCalls ==
    ASSUME IInv, [Next]_vars
    PROVE  [BrokerCall]_broker
<1>1. BrokerTypeOK /\ nav \in Int
  BY DEF IInv, TypeOK
<1>2. ASSUME NEW g \in Signals, NEW percent \in Multipliers, PlaceEntry(g, percent)
      PROVE  BrokerCall
  <2>1. PICK q \in Nat \ {0} : q = SizeOf(g, percent)
    BY <1>1, <1>2, SizeType DEF PlaceEntry
  <2>2. PlaceAndFill(Entry(g, q)) /\ Entry(g, q) \in OrderRequest
    BY <1>2, <2>1, BracketTypes DEF PlaceEntry
  <2> QED
    BY <2>2 DEF BrokerCall, PlaceOrder
<1>3. CASE PlaceLeg
  <2>1. legs # <<>> /\ PlaceChild(Head(legs))
    BY <1>3 DEF PlaceLeg
  <2>2. Head(legs) \in OrderRequest
    BY <2>1 DEF IInv, TypeOK
  <2> QED
    BY <2>1, <2>2 DEF BrokerCall, PlaceOrder
<1>4. ASSUME NEW s \in Symbols, FlattenPosition(s) PROVE BrokerCall
  <2>1. position[s].quantity # 0 /\ PlaceAndFill(Flatten(s))
    BY <1>4 DEF FlattenPosition, Looks, IInv, EodInv
  <2>2. Flatten(s) \in OrderRequest
    BY <1>1, <2>1, FlattenType
  <2> QED
    BY <2>1, <2>2 DEF BrokerCall, PlaceOrder
<1>5. ASSUME NEW s \in Symbols, NEW price \in Quotes, PriceMoves(s, price) PROVE BrokerCall
  BY <1>5, BrokerAssumption DEF PriceMoves, BrokerCall
<1>6. CASE ExitFills \/ Kill
  BY <1>6 DEF ExitFills, Kill, BrokerCall
<1>7. CASE StartPlan \/ RejectLeg \/ Returns \/ StartEod \/ Resume \/ UNCHANGED vars
  BY <1>7, Ending DEF StartPlan, RejectLeg, PlanReturns, EodReturns, StartEod, Resume, vars
<1>8. ASSUME NEW g \in Signals, NEW percent \in Multipliers,
             SkipSignal(g, percent) \/ RejectEntry(g, percent)
      PROVE  UNCHANGED broker
  BY <1>8 DEF SkipSignal, RejectEntry
<1>9. ASSUME NEW s \in Symbols, HoldPosition(s) \/ RejectFlatten(s)
      PROVE  UNCHANGED broker
  BY <1>9 DEF HoldPosition, RejectFlatten
<1> QED
  BY <1>2, <1>3, <1>4, <1>5, <1>6, <1>7, <1>8, <1>9 DEF Next, Plan, Eod, Returns

\* Every step keeps the types of the jobs' variables.
LEMMA TypesStep ==
    ASSUME IInv, [Next]_vars
    PROVE  TypeOK' /\ PendingIsOpen'
<1>1. BrokerTypeOK' /\ PendingIsOpen'
  <2>1. BrokerIInv
    BY DEF IInv, TypeOK, BrokerIInv
  <2> QED
    BY <2>1, JobCalls, BrokerStep DEF BrokerIInv
<1> USE DEF IInv, TypeOK
<1>2. CASE StartPlan
  <2>1. day' \in 0..MaxDays
    BY <1>2, SignalsAssumption DEF StartPlan
  <2> QED
    BY <1>1, <1>2, <2>1, EquityType DEF StartPlan, Phases, outside, history
<1>3. ASSUME NEW g \in Signals, NEW percent \in Multipliers,
             SkipSignal(g, percent) \/ PlaceEntry(g, percent) \/ RejectEntry(g, percent)
      PROVE  TypeOK'
  <2>1. seen' \subseteq Symbols /\ phase = "plan" /\ legs = <<>>
        /\ UNCHANGED <<day, phase, nav, todo, killed, troubles, blocked, exposed>>
    BY <1>3, SignalsAssumption DEF SkipSignal, PlaceEntry, RejectEntry, Takes, outside, history
  <2>2. legs' \in Seq(OrderRequest) /\ Len(legs') <= 2
    <3>1. CASE SkipSignal(g, percent) \/ RejectEntry(g, percent)
      BY <3>1 DEF SkipSignal, RejectEntry
    <3>2. CASE PlaceEntry(g, percent)
      <4>1. PICK q \in Nat \ {0} : q = SizeOf(g, percent)
        BY <3>2, SizeType DEF PlaceEntry
      <4>2. legs' = Exits(g, q, NextId)
        BY <3>2, <4>1, BracketFields DEF PlaceEntry
      <4>3. PICK e, f \in OrderRequest : e = Exits(g, q, NextId)[1] /\ f = Exits(g, q, NextId)[2]
        BY IdsType, BracketTypes
      <4>4. legs' = <<e, f>>
        BY <4>2, <4>3 DEF Exits
      <4> QED
        BY <4>4
    <3> QED
      BY <1>3, <3>1, <3>2
  <2> QED
    BY <1>1, <2>1, <2>2
<1>4. CASE PlaceLeg \/ RejectLeg
  <2>1. legs # <<>> /\ Head(legs) \in OrderRequest /\ Head(legs).symbol \in Symbols
    <3>1. legs # <<>> /\ legs \in Seq(OrderRequest)
      BY <1>4 DEF PlaceLeg, RejectLeg
    <3>2. Head(legs) \in OrderRequest
      BY <3>1
    <3> QED
      BY <3>1, <3>2 DEF OrderRequest
  <2>2. legs' \in Seq(OrderRequest) /\ Len(legs') <= 2
    <3>1. legs' = <<>> \/ legs' = Tail(legs)
      BY <1>4 DEF PlaceLeg, RejectLeg
    <3>2. Tail(legs) \in Seq(OrderRequest) /\ Len(Tail(legs)) <= 2
      <4>1. Tail(legs) \in Seq(OrderRequest) /\ Len(Tail(legs)) = Len(legs) - 1
        BY <2>1, HeadTailProperties
      <4>2. Len(legs) \in Nat /\ Len(legs) <= 2
        OBVIOUS
      <4> QED
        BY <4>1, <4>2
    <3>3. <<>> \in Seq(OrderRequest) /\ Len(<<>>) <= 2
      OBVIOUS
    <3> QED
      BY ONLY <3>1, <3>2, <3>3
  <2>3. exposed' \subseteq Symbols
    BY <1>4, <2>1 DEF PlaceLeg, RejectLeg, history
  <2>4. UNCHANGED <<day, phase, nav, seen, todo, killed, troubles, blocked>>
    BY <1>4 DEF PlaceLeg, RejectLeg, outside, history
  <2> QED
    BY <1>1, <2>1, <2>2, <2>3, <2>4
<1>5. CASE Returns \/ StartEod
  <2>1. troubles' \in 0..MaxTroubles
    BY <1>5, SignalsAssumption DEF Returns, EndPlan, PlanDies, EndEod, EodDies, StartEod, outside
  <2>2. blocked' \cup exposed' \subseteq Symbols
    BY <1>5 DEF Returns, EndPlan, PlanDies, EndEod, EodDies, PlanReturns, EodReturns,
                StartEod, history
  <2>3. CASE PlanReturns
    <3>1. legs' \in Seq(OrderRequest) /\ Len(legs') <= 2 /\ legs' = <<>>
      BY <2>3 DEF PlanReturns
    <3> QED
      BY <1>1, <2>1, <2>2, <2>3, <3>1 DEF PlanReturns, Phases
  <2>4. CASE EodReturns
    <3>1. legs' = legs /\ legs = <<>>
      BY <2>4 DEF EodReturns
    <3> QED
      BY <1>1, <2>1, <2>2, <2>4, <3>1 DEF EodReturns, Phases
  <2>5. CASE StartEod
    BY <1>1, <2>1, <2>2, <2>5 DEF StartEod, Phases, Held, outside
  <2> QED
    BY <1>5, <2>3, <2>4, <2>5, Ending
<1>6. ASSUME NEW s \in Symbols, HoldPosition(s) \/ FlattenPosition(s) \/ RejectFlatten(s)
      PROVE  TypeOK'
  BY <1>1, <1>6 DEF HoldPosition, FlattenPosition, RejectFlatten, Looks, outside
<1>7. ASSUME NEW s \in Symbols, NEW price \in Quotes, PriceMoves(s, price) PROVE TypeOK'
  BY <1>1, <1>7 DEF PriceMoves, job, outside, history
<1>8. CASE ExitFills \/ Resume \/ UNCHANGED vars
  BY <1>1, <1>8 DEF ExitFills, Resume, job, outside, history, vars
<1>9. CASE Kill
  <2>1. troubles' \in 0..MaxTroubles
    BY <1>9, SignalsAssumption DEF Kill
  <2> QED
    BY <1>1, <1>9, <2>1 DEF Kill, job, Held
<1> QED
  BY <1>1, <1>2, <1>3, <1>4, <1>5, <1>6, <1>7, <1>8, <1>9 DEF Next, Plan, Eod, Returns

-----------------------------------------------------------------------------
(* The exits that wait, the legs to come, and the children of a price.     *)

\* A step that leaves the broker alone, and the bracket too or gives it up with
\* its symbol exposed.
Quiet ==
    /\ UNCHANGED broker
    /\ legs' = <<>> \/ UNCHANGED <<legs, nav, ctx>>
    /\ sweep = {} \/ phase' \in Market \/ UNCHANGED phase
    /\ exposed \subseteq exposed'
    /\ \A s \in Symbols \ exposed' : Unplaced(s)' = Unplaced(s)

\* Every step is such a step or one of the calls of the broker.
LEMMA Kinds ==
    ASSUME IInv, [Next]_vars
    PROVE  \/ Quiet
           \/ \E g \in Signals, percent \in Multipliers : PlaceEntry(g, percent)
           \/ PlaceLeg
           \/ \E s \in Symbols : FlattenPosition(s)
           \/ \E s \in Symbols, price \in Quotes : PriceMoves(s, price)
           \/ ExitFills
           \/ Kill
<1>1. legs # <<>> => phase = "plan"
  BY DEF IInv, TypeOK
<1>2. ASSUME UNCHANGED <<legs, exposed>>
      PROVE  exposed \subseteq exposed' /\ \A s \in Symbols : Unplaced(s)' = Unplaced(s)
  BY <1>2 DEF Unplaced
<1>3. CASE StartPlan \/ StartEod \/ Resume \/ UNCHANGED vars
  BY <1>1, <1>2, <1>3 DEF StartPlan, StartEod, Resume, vars, job, outside,
                          history, Quiet, Market
<1>r. CASE Returns
  <2>1. EndPlan \/ EndEod \/ EodDies => UNCHANGED <<legs, exposed>>
    BY DEF EndPlan, EndEod, EodDies, PlanReturns, EodReturns, history
  <2>2. PlanDies => /\ exposed \subseteq exposed'
                    /\ \A s \in Symbols \ exposed' : Unplaced(s)' = Unplaced(s)
    BY DEF PlanDies, PlanReturns, Unplaced
  <2>3. exposed \subseteq exposed' /\ \A s \in Symbols \ exposed' : Unplaced(s)' = Unplaced(s)
    BY <1>r, <1>2, <2>1, <2>2 DEF Returns
  <2>4. CASE PlanReturns
    BY <2>3, <2>4 DEF PlanReturns, Quiet, Market
  <2>5. CASE EodReturns
    BY <2>3, <2>5 DEF EodReturns, Quiet, Market
  <2> QED
    BY <1>r, <2>4, <2>5, Ending
<1>4. CASE RejectLeg
  <2>1. ASSUME NEW s \in Symbols \ exposed' PROVE Unplaced(s)' = Unplaced(s)
    BY <1>4, <2>1 DEF RejectLeg, Unplaced
  <2> QED
    BY <1>4, <2>1 DEF RejectLeg, Quiet
<1>5. ASSUME NEW g \in Signals, NEW percent \in Multipliers,
             SkipSignal(g, percent) \/ RejectEntry(g, percent)
      PROVE  Quiet
  BY <1>2, <1>5 DEF SkipSignal, RejectEntry, Takes, Quiet, history
<1>6. ASSUME NEW s \in Symbols, HoldPosition(s) \/ RejectFlatten(s)
      PROVE  Quiet
  BY <1>2, <1>6 DEF HoldPosition, RejectFlatten, Looks, Quiet
<1> QED
  BY <1>3, <1>r, <1>4, <1>5, <1>6 DEF Next, Plan, Eod, Returns

\* The orders the broker knows never change.
Stay == Ids \subseteq Ids' /\ \A i \in Ids : requests'[i] = requests[i]

\* Exits go on waiting, or no longer wait, for the entries they belong to.
LEMMA ExitsStay ==
    ASSUME ExitsInv, pending \subseteq Ids, Stay, pending' \subseteq pending
    PROVE  ExitsInv'
  BY DEF ExitsInv, IsExit, Stay

\* The bracket being placed stays as it is while its orders do.
LEMMA LegsStay ==
    ASSUME LegsInv, pending \subseteq Ids, Stay, pending' \subseteq pending,
           UNCHANGED <<legs, nav, ctx>>
    PROVE  LegsInv'
<1> SUFFICES ASSUME legs # <<>> PROVE LegsInv'
  BY DEF LegsInv
<1> DEFINE parent == Head(legs).parent_id
<1>1. PICK g \in Signals, percent \in Multipliers :
         LET quantity == SizeOf(g, percent)
             exits == Exits(g, quantity, parent)
         IN  /\ quantity > 0
             /\ parent \in Ids /\ requests[parent] = Entry(g, quantity)
             /\ legs = exits \/ legs = Tail(exits)
  BY DEF LegsInv
<1>2. SizeOf(g, percent)' = SizeOf(g, percent)
  BY DEF SizeOf
<1>3. parent \in Ids' /\ requests'[parent] = requests[parent]
  BY <1>1 DEF Stay
<1>4. /\ \A i \in pending : requests[i].parent_id = parent
                                => Len(legs) = 1 /\ requests[i].order_type = "STP"
      /\ ctx = Context(nav, ctx.open_positions, TRUE)
      /\ ctx.open_positions \in Nat /\ ctx.open_positions < MaxOpenPositions
      /\ ~ReadOnly
  BY DEF LegsInv
<1>5. \A i \in pending' : requests'[i].parent_id = parent
                              => Len(legs) = 1 /\ requests'[i].order_type = "STP"
  BY <1>4 DEF Stay
<1> HIDE DEF parent
<1> QED
  BY <1>1, <1>2, <1>3, <1>4, <1>5 DEF LegsInv, parent

\* Placing the entry of a bracket: its two exits are still to come.
LEMMA EntryPlaced ==
    ASSUME IInv, NEW g \in Signals, NEW percent \in Multipliers, PlaceEntry(g, percent)
    PROVE  \E q \in Nat \ {0}, N \in Nat \ {0} :
              /\ q = SizeOf(g, percent) /\ N = NextId /\ N \notin Ids
              /\ Ids' = Ids \cup {N} /\ Stay
              /\ requests'[N] = Entry(g, q)
              /\ legs = <<>> /\ legs' = Exits(g, q, N)
              /\ \A s \in Symbols :
                   position'[s].quantity = position[s].quantity + (IF s = g.symbol THEN q ELSE 0)
              /\ sweep = {} /\ UNCHANGED <<phase, nav, pending, sweep, exposed>>
<1>1. BrokerTypeOK /\ nav \in Int
  BY DEF IInv, TypeOK
<1>2. PICK q \in Nat \ {0} : q = SizeOf(g, percent)
  BY <1>1, SizeType DEF PlaceEntry
<1>3. PICK N \in Nat \ {0} : N = NextId
  BY <1>1, IdsType DEF NextId
<1> DEFINE o == Entry(g, q)
<1>4. o.symbol = g.symbol /\ o.quantity = q /\ o.action = "BUY"
  BY BracketFields
<1>5. PlaceAndFill(o) /\ o \in OrderRequest
  BY <1>2, BracketTypes DEF PlaceEntry
<1>6. legs' = Exits(g, q, N)
  BY <1>2, <1>3, <1>4 DEF PlaceEntry
<1>7. Signed(o) = q
  BY <1>4 DEF Signed
<1>8. legs = <<>> /\ UNCHANGED <<phase, nav, exposed>>
  BY DEF PlaceEntry, Takes, history
<1> HIDE DEF o
<1>9. /\ N \notin Ids /\ Ids' = Ids \cup {N}
      /\ requests'[N] = o /\ Stay
      /\ sweep = {} /\ UNCHANGED <<pending, sweep>>
  BY <1>1, <1>3, <1>5, Trades DEF Stay
<1>10. ASSUME NEW s \in Symbols
       PROVE  position'[s].quantity = position[s].quantity + (IF s = g.symbol THEN q ELSE 0)
  <2>1. position'[s].quantity = position[s].quantity + (IF s = o.symbol THEN Signed(o) ELSE 0)
    BY <1>1, <1>5, Trades
  <2> QED
    BY <1>4, <1>7, <2>1 DEF o
<1> QED
  BY <1>2, <1>3, <1>6, <1>8, <1>9, <1>10 DEF o

\* Placing a leg: the next exit of the entry waits.
LEMMA LegPlaced ==
    ASSUME IInv, PlaceLeg
    PROVE  \E g \in Signals, percent \in Multipliers, q \in Nat \ {0}, p \in Ids,
              e, f \in OrderRequest, N \in Nat \ {0} :
              /\ q = SizeOf(g, percent) /\ requests[p] = Entry(g, q)
              /\ e = Exits(g, q, p)[1] /\ f = Exits(g, q, p)[2]
              /\ \/ legs = <<e, f>> /\ legs' = <<f>> /\ requests'[N] = e
                 \/ legs = <<f>> /\ legs' = <<>> /\ requests'[N] = f
              /\ N \notin Ids /\ Ids' = Ids \cup {N} /\ Stay
              /\ pending' = pending \cup {N}
              /\ sweep = {} /\ UNCHANGED <<phase, nav, ctx, position, sweep, exposed>>
<1>1. BrokerTypeOK /\ legs # <<>> /\ PlaceChild(Head(legs))
  BY DEF IInv, TypeOK, PlaceLeg
<1>2. PICK g \in Signals, percent \in Multipliers, q \in Nat \ {0}, p \in Ids, e, f \in OrderRequest :
         /\ q = SizeOf(g, percent) /\ requests[p] = Entry(g, q)
         /\ e = Exits(g, q, p)[1] /\ f = Exits(g, q, p)[2]
         /\ \/ legs = <<e, f>>
            \/ legs = <<f>>
  BY <1>1, LegsAre DEF IInv
<1>3. PICK o \in OrderRequest : o = Head(legs)
  BY <1>2
<1>4. PICK N \in Nat \ {0} : N = NextId
  BY <1>1, IdsType DEF NextId
<1>5. /\ N \notin Ids /\ Ids' = Ids \cup {N} /\ requests'[N] = o /\ Stay
      /\ pending' = pending \cup {N}
      /\ sweep = {} /\ UNCHANGED <<position, sweep>>
  BY <1>1, <1>3, <1>4, Waits DEF Stay
<1>6. legs' = Tail(legs) /\ UNCHANGED <<phase, nav, ctx, exposed>>
  BY DEF PlaceLeg, history
<1>7. \/ legs = <<e, f>> /\ legs' = <<f>> /\ o = e
      \/ legs = <<f>> /\ legs' = <<>> /\ o = f
  <2>1. Head(<<e, f>>) = e /\ Tail(<<e, f>>) = <<f>> /\ Head(<<f>>) = f /\ Tail(<<f>>) = <<>>
    OBVIOUS
  <2> QED
    BY ONLY <1>2, <1>3, <1>6, <2>1
<1> QED
  BY <1>2, <1>5, <1>6, <1>7

\* Flattening a position: its shares are traded, nothing waits for the order.
LEMMA FlattenPlaced ==
    ASSUME IInv, NEW s \in Symbols, FlattenPosition(s)
    PROVE  /\ s \in Leveraged /\ s \in todo /\ Stay /\ \A i \in Ids' \ Ids : i \in Nat
           /\ \A u \in Symbols :
                position'[u].quantity = IF u = s THEN 0 ELSE position[u].quantity
           /\ sweep = {}
           /\ UNCHANGED <<phase, legs, nav, ctx, pending, sweep, blocked, exposed>>
<1>1. BrokerTypeOK
  BY DEF IInv, TypeOK
<1>2. position[s].quantity # 0 /\ PlaceAndFill(Flatten(s)) /\ s \in Leveraged
  BY DEF FlattenPosition, Looks, IInv, EodInv
<1>3. Flatten(s) \in OrderRequest /\ Signed(Flatten(s)) = -position[s].quantity
  BY <1>1, <1>2, FlattenType
<1>4. Flatten(s).symbol = s
  BY DEF Flatten, Order
<1>5. /\ Ids' = Ids \cup {NextId} /\ NextId \in Nat /\ Stay
      /\ sweep = {} /\ UNCHANGED <<pending, sweep>>
  BY <1>1, <1>2, <1>3, Trades DEF Stay
<1>6. ASSUME NEW u \in Symbols
      PROVE  position'[u].quantity = IF u = s THEN 0 ELSE position[u].quantity
  <2>1. position'[u].quantity
           = position[u].quantity + (IF u = s THEN -position[s].quantity ELSE 0)
    BY <1>1, <1>2, <1>3, <1>4, Trades
  <2>2. position[u].quantity \in Int
    BY <1>1 DEF BrokerTypeOK, Position
  <2> QED
    BY <2>1, <2>2
<1>7. s \in todo /\ UNCHANGED <<phase, legs, nav, ctx, blocked, exposed>>
  BY DEF FlattenPosition, Looks
<1> QED
  BY <1>2, <1>5, <1>6, <1>7

\* A price: the children it triggers are found, no share moves.
LEMMA PriceMoved ==
    ASSUME IInv, NEW s \in Symbols, NEW price \in Quotes, PriceMoves(s, price)
    PROVE  /\ phase \in Market
           /\ prices'[s] = price
           /\ sweep' = {i \in pending : requests[i].symbol = s /\ Triggered(requests[i], price)}
           /\ \A u \in Symbols : position'[u].quantity = position[u].quantity
           /\ Ids' = Ids
           /\ UNCHANGED <<phase, legs, nav, ctx, blocked, exposed, requests, pending, todo>>
<1>1. BrokerIInv /\ price \in Nat /\ SetPrice(s, price)
  BY BrokerAssumption DEF IInv, TypeOK, BrokerIInv, PriceMoves
<1>2. \A u \in Symbols : position'[u].quantity = position[u].quantity
  BY <1>1, PriceSet
<1>3. prices'[s] = price
  BY <1>1 DEF SetPrice, BrokerIInv, BrokerTypeOK
<1> QED
  BY <1>1, <1>2, <1>3 DEF PriceMoves, SetPrice, Ids, job, history

\* Every step keeps the exits in order.
LEMMA ExitsStep ==
    ASSUME IInv, [Next]_vars
    PROVE  ExitsInv'
<1>1. ExitsInv /\ LegsInv /\ pending \subseteq Ids /\ BrokerTypeOK
  BY DEF IInv, TypeOK, BrokerTypeOK
<1>2. CASE Quiet
  <2>1. Stay /\ pending' = pending
    BY <1>2 DEF Quiet, broker, Stay, Ids
  <2> QED
    BY <1>1, <2>1, ExitsStay
<1>3. ASSUME NEW g \in Signals, NEW percent \in Multipliers, PlaceEntry(g, percent) PROVE ExitsInv'
  <2>1. Stay /\ pending' = pending
    BY <1>3, EntryPlaced
  <2> QED
    BY <1>1, <2>1, ExitsStay
<1>4. CASE PlaceLeg
  <2>1. PICK g \in Signals, percent \in Multipliers, q \in Nat \ {0}, p \in Ids,
             e, f \in OrderRequest, N \in Nat \ {0} :
           /\ requests[p] = Entry(g, q)
           /\ e = Exits(g, q, p)[1] /\ f = Exits(g, q, p)[2]
           /\ \/ legs = <<e, f>> /\ legs' = <<f>> /\ requests'[N] = e
              \/ legs = <<f>> /\ legs' = <<>> /\ requests'[N] = f
           /\ N \notin Ids /\ Ids' = Ids \cup {N} /\ Stay
           /\ pending' = pending \cup {N}
    BY <1>4, LegPlaced
  <2>2. /\ requests[p].symbol = g.symbol /\ requests[p].quantity = q /\ requests[p].limit_price = g.entry
        /\ e.symbol = g.symbol /\ e.quantity = q /\ e.action = "SELL" /\ e.parent_id = p
        /\ e.order_type = "STP" /\ e.stop_price = g.stop
        /\ f.symbol = g.symbol /\ f.quantity = q /\ f.action = "SELL" /\ f.parent_id = p
        /\ f.order_type = "LMT" /\ f.limit_price = g.target
    BY <2>1, BracketFields
  <2>3. g.stop < g.entry /\ g.target > g.entry
    BY SignalsAssumption
  <2>4. p \in Ids' /\ requests'[p] = requests[p]
    BY <2>1 DEF Stay
  <2>5. IsExit(requests[N])'
    BY <2>1, <2>2, <2>3, <2>4 DEF IsExit
  <2>6. ASSUME NEW i \in pending PROVE IsExit(requests[i])'
    BY <1>1, <2>1 DEF ExitsInv, IsExit, Stay
  <2>7. ASSUME NEW i \in pending, requests[i].parent_id = p
        PROVE  requests'[N] = f /\ requests[i].order_type = "STP"
    <3>1. Head(legs).parent_id = p
      BY <2>1, <2>2
    <3>2. Len(legs) = 1 /\ requests[i].order_type = "STP"
      <4>1. legs # <<>>
        BY <2>1
      <4> QED
        BY <1>1, <2>7, <3>1, <4>1, LegsFacts
    <3>3. Len(<<e, f>>) = 2
      OBVIOUS
    <3> QED
      BY <2>1, <3>2, <3>3
  <2>8. \A i \in pending : requests'[i] = requests[i]
    BY <1>1, <2>1 DEF Stay
  <2>9. \A i \in pending : \/ requests'[i].parent_id # requests'[N].parent_id
                           \/ requests'[i].order_type # requests'[N].order_type
    BY <2>1, <2>2, <2>7, <2>8
  <2>10. \A i, k \in pending : /\ requests'[i].parent_id = requests'[k].parent_id
                               /\ requests'[i].order_type = requests'[k].order_type
                               => i = k
    BY <1>1, <2>8 DEF ExitsInv
  <2> QED
    BY <2>1, <2>5, <2>6, <2>9, <2>10 DEF ExitsInv
<1>5. ASSUME NEW s \in Symbols, FlattenPosition(s) PROVE ExitsInv'
  <2>1. Stay /\ pending' = pending
    BY <1>5, FlattenPlaced
  <2> QED
    BY <1>1, <2>1, ExitsStay
<1>6. ASSUME NEW s \in Symbols, NEW price \in Quotes, PriceMoves(s, price) PROVE ExitsInv'
  <2>1. Stay /\ pending' = pending
    BY <1>6, PriceMoved DEF Stay
  <2> QED
    BY <1>1, <2>1, ExitsStay
<1>7. CASE ExitFills
  <2>1. Stay /\ pending' \subseteq pending
    BY <1>1, <1>7, ChildTrades DEF Stay, ExitFills
  <2> QED
    BY <1>1, <2>1, ExitsStay
<1>8. CASE Kill
  <2>1. Stay /\ pending' \subseteq pending
    BY <1>8 DEF Kill, CancelAll, Stay, Ids
  <2> QED
    BY <1>1, <2>1, ExitsStay
<1> QED
  BY <1>2, <1>3, <1>4, <1>5, <1>6, <1>7, <1>8, Kinds

\* Every step keeps the bracket being placed that of one signal.
LEMMA LegsStep ==
    ASSUME IInv, [Next]_vars
    PROVE  LegsInv'
<1>1. ExitsInv /\ LegsInv /\ pending \subseteq Ids /\ BrokerTypeOK
  BY DEF IInv, TypeOK, BrokerTypeOK
<1>2. CASE Quiet
  <2>1. Stay /\ pending' = pending
    BY <1>2 DEF Quiet, broker, Stay, Ids
  <2>2. CASE legs' = <<>>
    BY <2>2 DEF LegsInv
  <2>3. CASE UNCHANGED <<legs, nav, ctx>>
    BY <1>1, <2>1, <2>3, LegsStay
  <2> QED
    BY <1>2, <2>2, <2>3 DEF Quiet
<1>3. ASSUME NEW g \in Signals, NEW percent \in Multipliers, PlaceEntry(g, percent) PROVE LegsInv'
  <2>1. PICK q \in Nat \ {0}, N \in Nat \ {0} :
              /\ q = SizeOf(g, percent) /\ N \notin Ids
              /\ Ids' = Ids \cup {N} /\ Stay
              /\ requests'[N] = Entry(g, q)
              /\ legs = <<>> /\ legs' = Exits(g, q, N)
              /\ UNCHANGED <<phase, nav, pending, sweep>>
    BY <1>3, EntryPlaced
  <2>2. Head(legs').parent_id = N /\ legs' # <<>>
    BY <2>1 DEF Exits, Order
  <2>3. q > 0 /\ N \in Ids' /\ q = SizeOf(g, percent)'
    BY <2>1 DEF SizeOf
  <2>4. \A i \in pending' : requests'[i].parent_id # N
    BY <1>1, <2>1 DEF ExitsInv, IsExit, Stay
  <2>5. PICK n \in Nat : n = Cardinality(Held)
    <3>1. IsFiniteSet(Held)
      BY BrokerAssumption, FS_Subset DEF Held
    <3> QED
      BY <3>1, FS_CardinalityType
  <2>6. ctx' = Context(nav, n, TRUE) /\ ~ReadOnly /\ ~TooManyPositions(Context(nav, n, TRUE))
    BY <1>3, <2>5 DEF PlaceEntry, PlanContext, GuardAdmits, Admits
  <2>7. ctx'.open_positions = n /\ n < MaxOpenPositions
    BY <2>6, LimitsAssumption DEF TooManyPositions, Context
  <2>8. ctx' = Context(nav', ctx'.open_positions, TRUE)
    BY <2>1, <2>6, <2>7
  <2> QED
    BY <2>1, <2>2, <2>3, <2>4, <2>6, <2>7, <2>8 DEF LegsInv
<1>4. CASE PlaceLeg
  <2>1. PICK g \in Signals, percent \in Multipliers, q \in Nat \ {0}, p \in Ids,
             e, f \in OrderRequest, N \in Nat \ {0} :
           /\ q = SizeOf(g, percent) /\ requests[p] = Entry(g, q)
           /\ e = Exits(g, q, p)[1] /\ f = Exits(g, q, p)[2]
           /\ \/ legs = <<e, f>> /\ legs' = <<f>> /\ requests'[N] = e
              \/ legs = <<f>> /\ legs' = <<>> /\ requests'[N] = f
           /\ N \notin Ids /\ Ids' = Ids \cup {N} /\ Stay
           /\ pending' = pending \cup {N}
           /\ UNCHANGED <<nav, ctx>>
    BY <1>4, LegPlaced
  <2>2. CASE legs' = <<>>
    BY <2>2 DEF LegsInv
  <2>3. CASE legs = <<e, f>> /\ legs' = <<f>> /\ requests'[N] = e
    <3>1. e.parent_id = p /\ f.parent_id = p /\ e.order_type = "STP"
      BY <2>1, BracketFields
    <3>2. Head(legs) = e /\ Head(legs') = f /\ Len(legs) = 2 /\ Len(legs') = 1
      BY <2>3
    <3>3. /\ \A i \in pending : requests[i].parent_id # p
          /\ ctx = Context(nav, ctx.open_positions, TRUE)
          /\ ctx.open_positions \in Nat /\ ctx.open_positions < MaxOpenPositions
          /\ ~ReadOnly
      <4>1. legs # <<>> /\ Head(legs).parent_id = p
        BY <2>3, <3>1, <3>2
      <4>2. /\ \A i \in pending : requests[i].parent_id = p
                                      => Len(legs) = 1 /\ requests[i].order_type = "STP"
            /\ ctx = Context(nav, ctx.open_positions, TRUE)
            /\ ctx.open_positions \in Nat /\ ctx.open_positions < MaxOpenPositions
            /\ ~ReadOnly
        BY ONLY <1>1, <4>1, LegsFacts
      <4>3. Len(legs) # 1
        BY <3>2
      <4>4. \A i \in pending : requests[i].parent_id # p
        BY ONLY <4>2, <4>3
      <4> QED
        BY ONLY <4>2, <4>4
    <3>4. \A i \in pending' : requests'[i].parent_id = p => requests'[i].order_type = "STP"
      BY <1>1, <2>1, <2>3, <3>1, <3>3 DEF Stay
    <3>5. legs' = Tail(Exits(g, q, p))
      <4>1. Exits(g, q, p) = <<e, f>>
        BY <2>1 DEF Exits
      <4> QED
        BY <2>3, <4>1
    <3>6. p \in Ids' /\ requests'[p] = Entry(g, q) /\ SizeOf(g, percent)' = q
      BY <2>1 DEF Stay, SizeOf
    <3>7. legs' # <<>> /\ Head(legs').parent_id = p
      BY <2>3, <3>1, <3>2
    <3>8. \E gg \in Signals, pp \in Multipliers :
             LET quantity == SizeOf(gg, pp)'
                 exits == Exits(gg, quantity, p)
             IN  /\ quantity > 0
                 /\ p \in Ids' /\ requests'[p] = Entry(gg, quantity)
                 /\ legs' = exits \/ legs' = Tail(exits)
      BY <2>1, <3>5, <3>6
    <3> QED
      BY <2>1, <3>2, <3>3, <3>4, <3>7, <3>8 DEF LegsInv
  <2> QED
    BY <2>1, <2>2, <2>3
<1>5. ASSUME NEW s \in Symbols, FlattenPosition(s) PROVE LegsInv'
  <2>1. Stay /\ pending' = pending /\ UNCHANGED <<legs, nav, ctx>>
    BY <1>5, FlattenPlaced
  <2> QED
    BY <1>1, <2>1, LegsStay
<1>6. ASSUME NEW s \in Symbols, NEW price \in Quotes, PriceMoves(s, price) PROVE LegsInv'
  <2>1. Stay /\ pending' = pending /\ UNCHANGED <<legs, nav, ctx>>
    BY <1>6, PriceMoved DEF Stay
  <2> QED
    BY <1>1, <2>1, LegsStay
<1>7. CASE ExitFills
  <2>1. Stay /\ pending' \subseteq pending /\ UNCHANGED <<legs, nav, ctx>>
    BY <1>1, <1>7, ChildTrades DEF Stay, ExitFills, job
  <2> QED
    BY <1>1, <2>1, LegsStay
<1>8. CASE Kill
  <2>1. Stay /\ pending' \subseteq pending /\ UNCHANGED <<legs, nav, ctx>>
    BY <1>8 DEF Kill, CancelAll, Stay, Ids, job
  <2> QED
    BY <1>1, <2>1, LegsStay
<1> QED
  BY <1>2, <1>3, <1>4, <1>5, <1>6, <1>7, <1>8, Kinds

\* No price is at the stop and at the target of a bracket.
LEMMA OneExitTriggers ==
    ASSUME IInv, NEW i \in sweep, NEW k \in sweep, requests[i].parent_id = requests[k].parent_id
    PROVE  i = k
<1>1. i \in pending /\ k \in pending /\ i \in Ids /\ k \in Ids
  BY DEF IInv, SweepInv, TypeOK, BrokerTypeOK
<1>2. IsExit(requests[i]) /\ IsExit(requests[k])
  BY <1>1 DEF IInv, ExitsInv
<1>3. PICK p \in Ids : p = requests[i].parent_id
  BY <1>2 DEF IsExit
<1>4. PICK price, limit \in Nat : price = prices[requests[p].symbol] /\ limit = requests[p].limit_price
  <2>1. requests[p] \in OrderRequest
    BY <1>3, IdsType DEF IInv, TypeOK
  <2> QED
    BY <2>1 DEF OrderRequest, IInv, TypeOK, BrokerTypeOK
<1>5. Triggered(requests[i], price) /\ Triggered(requests[k], price)
  BY <1>2, <1>3, <1>4 DEF IInv, SweepInv, IsExit
<1>6. PICK o, r \in OrderRequest : o = requests[i] /\ r = requests[k]
  BY <1>1, IdsType DEF IInv, TypeOK
<1>7. o.stop_price \in Nat /\ o.limit_price \in Nat /\ r.stop_price \in Nat /\ r.limit_price \in Nat
  BY DEF OrderRequest
<1>8. o.order_type = r.order_type
  <2>1. /\ o.action = "SELL" /\ r.action = "SELL"
        /\ \/ o.order_type = "STP" /\ o.stop_price < limit
           \/ o.order_type = "LMT" /\ o.limit_price > limit
        /\ \/ r.order_type = "STP" /\ r.stop_price < limit
           \/ r.order_type = "LMT" /\ r.limit_price > limit
    BY <1>2, <1>3, <1>4, <1>6 DEF IsExit
  <2>2. /\ o.order_type = "STP" => price <= o.stop_price
        /\ o.order_type = "LMT" => price >= o.limit_price
        /\ r.order_type = "STP" => price <= r.stop_price
        /\ r.order_type = "LMT" => price >= r.limit_price
    BY <1>5, <1>6, <2>1 DEF Triggered
  <2> QED
    BY <1>7, <2>1, <2>2
<1> QED
  BY <1>1, <1>6, <1>8 DEF IInv, ExitsInv

\* Every step leaves the children a price has triggered waiting until they trade.
LEMMA SweepStep ==
    ASSUME IInv, [Next]_vars
    PROVE  SweepInv'
<1>1. SweepInv /\ BrokerTypeOK
  BY DEF IInv, TypeOK
<1>2. CASE Quiet
  BY <1>1, <1>2 DEF Quiet, broker, SweepInv
<1>3. ASSUME sweep' = {} PROVE SweepInv'
  BY <1>3 DEF SweepInv
<1>4. ASSUME NEW g \in Signals, NEW percent \in Multipliers, PlaceEntry(g, percent) PROVE SweepInv'
  BY <1>3, <1>4, EntryPlaced
<1>5. CASE PlaceLeg
  BY <1>3, <1>5, LegPlaced
<1>6. ASSUME NEW s \in Symbols, FlattenPosition(s) PROVE SweepInv'
  BY <1>3, <1>6, FlattenPlaced
<1>7. ASSUME NEW s \in Symbols, NEW price \in Quotes, PriceMoves(s, price) PROVE SweepInv'
  <2>1. /\ phase \in Market /\ prices'[s] = price
        /\ sweep' = {i \in pending : requests[i].symbol = s /\ Triggered(requests[i], price)}
        /\ UNCHANGED <<phase, requests, pending>>
    BY <1>7, PriceMoved
  <2> QED
    BY <2>1 DEF SweepInv
<1>8. CASE ExitFills
  <2>1. PICK i \in sweep \cap pending :
           /\ pending' = {k \in pending : requests[k].parent_id # requests[i].parent_id}
           /\ sweep' = sweep \ {i}
           /\ UNCHANGED <<requests, prices>>
    BY <1>1, <1>8, ChildTrades DEF ExitFills
  <2>2. sweep' \subseteq pending'
    BY <1>1, <2>1, OneExitTriggers DEF SweepInv
  <2>3. UNCHANGED phase
    BY <1>8 DEF ExitFills, job
  <2> QED
    BY <1>1, <2>1, <2>2, <2>3 DEF SweepInv
<1>9. CASE Kill
  BY <1>3, <1>9 DEF Kill, CancelAll
<1> QED
  BY <1>2, <1>4, <1>5, <1>6, <1>7, <1>8, <1>9, Kinds

-----------------------------------------------------------------------------
(* What the open entries bought is still held.                             *)

\* The quantities of the orders, and their sums over any of them.
LEMMA QuantityType ==
    ASSUME BrokerTypeOK
    PROVE  /\ IsFiniteSet(Ids)
           /\ \A i \in Ids : Quantities[i] = requests[i].quantity /\ Quantities[i] \in Nat \ {0}
           /\ \A S \in SUBSET Ids : IsFiniteSet(S) /\ SumFunctionOnSet(Quantities, S) \in Nat
<1>1. Ids = 1..Len(requests) /\ Len(requests) \in Nat /\ requests \in [1..Len(requests) -> OrderRequest]
  BY IdsType
<1>2. IsFiniteSet(Ids)
  BY <1>1, FS_Interval
<1>3. ASSUME NEW i \in Ids
      PROVE  Quantities[i] = requests[i].quantity /\ Quantities[i] \in Nat \ {0}
  <2>1. requests[i] \in OrderRequest
    BY <1>1
  <2> QED
    BY <2>1 DEF Quantities, OrderRequest
<1>4. ASSUME NEW S \in SUBSET Ids PROVE IsFiniteSet(S) /\ SumFunctionOnSet(Quantities, S) \in Nat
  <2>1. IsFiniteSet(S)
    BY <1>2, FS_Subset
  <2>2. \A i \in Ids : Quantities[i] \in Nat
    BY <1>3
  <2> HIDE DEF Quantities
  <2>3. SumFunctionOnSet(Quantities, S) \in Nat
    BY <1>2, <2>2, SumGrows
  <2> QED
    BY <2>1, <2>3
<1> QED
  BY <1>2, <1>3, <1>4

\* Orders that stay keep their sums; fewer of them have no greater one.
LEMMA SumStays ==
    ASSUME BrokerTypeOK, BrokerTypeOK', Stay, NEW S \in SUBSET Ids
    PROVE  SumFunctionOnSet(Quantities', S) = SumFunctionOnSet(Quantities, S)
<1>1. IsFiniteSet(S) /\ \A i \in S : Quantities[i] = requests[i].quantity /\ Quantities[i] \in Int
  BY QuantityType
<1>2. S \subseteq Ids' /\ \A i \in S : requests'[i] = requests[i]
  BY DEF Stay
<1>3. \A i \in Ids' : Quantities'[i] = requests'[i].quantity
  BY DEF Quantities
<1> DEFINE f == Quantities
           e == Quantities'
<1>4. \A i \in S : f[i] \in Int /\ e[i] = f[i]
  BY <1>1, <1>2, <1>3
<1> HIDE DEF f, e
<1>5. SumFunctionOnSet(e, S) = SumFunctionOnSet(f, S)
  BY <1>1, <1>4, SumEqual
<1> QED
  BY <1>5 DEF f, e

\* Fewer orders are for fewer shares.
LEMMA SumShrinks ==
    ASSUME BrokerTypeOK, NEW S \in SUBSET Ids, NEW T \in SUBSET S
    PROVE  SumFunctionOnSet(Quantities, T) <= SumFunctionOnSet(Quantities, S)
<1>1. IsFiniteSet(S) /\ \A i \in S : Quantities[i] \in Nat
  BY QuantityType
<1> HIDE DEF Quantities
<1> QED
  BY <1>1, SumGrows

\* The same after a step.
LEMMA NextQuantityType ==
    BrokerTypeOK' =>
        /\ IsFiniteSet(Ids')
        /\ \A i \in Ids' : Quantities'[i] = requests'[i].quantity /\ Quantities'[i] \in Nat \ {0}
        /\ \A S \in SUBSET Ids' : IsFiniteSet(S) /\ SumFunctionOnSet(Quantities', S) \in Nat
<1> DEFINE P == /\ IsFiniteSet(Ids)
                /\ \A i \in Ids : Quantities[i] = requests[i].quantity /\ Quantities[i] \in Nat \ {0}
                /\ \A S \in SUBSET Ids : IsFiniteSet(S) /\ SumFunctionOnSet(Quantities, S) \in Nat
<1>1. BrokerTypeOK => P
  <2> SUFFICES ASSUME BrokerTypeOK PROVE P
    OBVIOUS
  <2> QED
    BY QuantityType
<1>2. BrokerTypeOK' => P'
  BY <1>1, PTL
<1> QED
  BY <1>2

\* The same of the orders after a step.
LEMMA NextSumShrinks ==
    ASSUME BrokerTypeOK', NEW S \in SUBSET Ids', NEW T \in SUBSET S
    PROVE  SumFunctionOnSet(Quantities', T) <= SumFunctionOnSet(Quantities', S)
<1>1. IsFiniteSet(S) /\ \A i \in S : Quantities'[i] \in Nat
  BY NextQuantityType
<1> HIDE DEF Quantities
<1> QED
  BY <1>1, SumGrows

\* The holding of a symbol that a step leaves alone, its brackets no more open
\* than before, is still what they bought or more.
LEMMA HeldStays ==
    ASSUME BrokerTypeOK, BrokerTypeOK', Stay, NEW s \in Symbols,
           position[s].quantity >= SumFunctionOnSet(Quantities, OpenEntries(s)),
           position'[s].quantity = position[s].quantity,
           OpenEntries(s)' \subseteq OpenEntries(s)
    PROVE  position'[s].quantity >= SumFunctionOnSet(Quantities, OpenEntries(s))'
<1> DEFINE S == OpenEntries(s)
           T == OpenEntries(s)'
<1>1. S \in SUBSET Ids /\ T \in SUBSET S /\ T \in SUBSET Ids
  BY DEF OpenEntries
<1> HIDE DEF S, T
<1>2. PICK m, n \in Nat : m = SumFunctionOnSet(Quantities, S) /\ n = SumFunctionOnSet(Quantities, T)
  BY <1>1, QuantityType
<1>3. n <= m
  BY <1>1, <1>2, SumShrinks
<1>4. SumFunctionOnSet(Quantities', T) = n
  BY <1>1, <1>2, SumStays
<1>5. position[s].quantity \in Int
  BY DEF BrokerTypeOK, Position
<1>6. position'[s].quantity >= n
  BY <1>2, <1>3, <1>5 DEF S
<1> QED
  BY <1>4, <1>6 DEF T

\* No entry opens, unless a step places one.
LEMMA OpenShrinks ==
    ASSUME IInv, Stay, pending' \subseteq pending, legs' = <<>> \/ legs' = legs, NEW s
    PROVE  OpenEntries(s)' \subseteq OpenEntries(s)
<1> SUFFICES ASSUME NEW p \in OpenEntries(s)' PROVE p \in OpenEntries(s)
  OBVIOUS
<1>1. /\ p \in Ids' /\ requests'[p].symbol = s
      /\ \/ \E i \in pending' : requests'[i].parent_id = p
         \/ legs' # <<>> /\ Head(legs').parent_id = p
  BY DEF OpenEntries
<1>2. CASE \E i \in pending' : requests'[i].parent_id = p
  <2>1. PICK i \in pending : requests'[i].parent_id = p
    BY <1>2
  <2>2. i \in Ids /\ requests[i].parent_id = p
    BY <2>1 DEF Stay, IInv, TypeOK, BrokerTypeOK
  <2>3. p \in Ids
    BY <2>1, <2>2 DEF IInv, ExitsInv, IsExit
  <2> QED
    BY <1>1, <2>1, <2>2, <2>3 DEF Stay, OpenEntries
<1>3. CASE legs' # <<>> /\ Head(legs').parent_id = p
  <2>1. legs # <<>> /\ Head(legs).parent_id = p
    BY <1>3
  <2>2. p \in Ids
    BY <2>1 DEF IInv, LegsInv
  <2> QED
    BY <1>1, <2>1, <2>2 DEF Stay, OpenEntries
<1> QED
  BY <1>1, <1>2, <1>3

\* A new entry opens, with the shares it bought.
LEMMA EntryIsHeld ==
    ASSUME IInv, TypeOK', NEW g \in Signals, NEW percent \in Multipliers, PlaceEntry(g, percent)
    PROVE  OpenIsHeld'
<1>1. BrokerTypeOK /\ BrokerTypeOK'
  BY DEF IInv, TypeOK
<1>2. PICK q \in Nat \ {0}, N \in Nat \ {0} :
              /\ N \notin Ids
              /\ Ids' = Ids \cup {N} /\ Stay
              /\ requests'[N] = Entry(g, q)
              /\ legs = <<>> /\ legs' = Exits(g, q, N)
              /\ \A s \in Symbols :
                   position'[s].quantity = position[s].quantity + (IF s = g.symbol THEN q ELSE 0)
              /\ UNCHANGED pending
  BY EntryPlaced
<1>3. Head(legs').parent_id = N /\ legs' # <<>>
  BY <1>2 DEF Exits, Order
<1>4. requests'[N].symbol = g.symbol /\ requests'[N].quantity = q
  BY <1>2, BracketFields
<1>5. ASSUME NEW p \in Ids', NEW s \in Symbols, p \in OpenEntries(s)'
      PROVE  p \in OpenEntries(s) \/ (p = N /\ s = g.symbol)
  <2>1. CASE p = N
    BY <1>4, <1>5, <2>1 DEF OpenEntries
  <2>2. CASE p # N
    <3>1. p \in Ids /\ requests[p].symbol = s /\ \E i \in pending : requests'[i].parent_id = p
      BY <1>2, <1>3, <1>5, <2>2 DEF OpenEntries, Stay
    <3>2. \A i \in pending : requests'[i] = requests[i]
      BY <1>1, <1>2 DEF Stay, BrokerTypeOK
    <3> QED
      BY <3>1, <3>2 DEF OpenEntries
  <2> QED
    BY <2>1, <2>2
<1>6. ASSUME NEW s \in Symbols \ Leveraged, s # g.symbol
      PROVE  position'[s].quantity >= SumFunctionOnSet(Quantities, OpenEntries(s))'
  <2>1. position'[s].quantity = position[s].quantity
    BY <1>1, <1>2, <1>6 DEF BrokerTypeOK, Position
  <2>2. OpenEntries(s)' \subseteq OpenEntries(s)
    BY <1>5, <1>6 DEF OpenEntries
  <2>3. position[s].quantity >= SumFunctionOnSet(Quantities, OpenEntries(s))
    BY DEF IInv, OpenIsHeld
  <2> QED
    BY <1>1, <1>2, <2>1, <2>2, <2>3, HeldStays
<1>7. ASSUME NEW s \in Symbols \ Leveraged, s = g.symbol
      PROVE  position'[s].quantity >= SumFunctionOnSet(Quantities, OpenEntries(s))'
  <2> DEFINE S == OpenEntries(s)
             T == OpenEntries(s)'
  <2>1. S \in SUBSET Ids /\ T \in SUBSET (S \cup {N}) /\ S \cup {N} \in SUBSET Ids' /\ N \notin S
        /\ T \in SUBSET Ids'
    BY <1>2, <1>5, <1>7 DEF OpenEntries, Stay
  <2>2. position[s].quantity >= SumFunctionOnSet(Quantities, S)
    BY DEF IInv, OpenIsHeld
  <2> HIDE DEF S, T
  <2>3. PICK m, n, k \in Nat : /\ m = SumFunctionOnSet(Quantities, S)
                               /\ n = SumFunctionOnSet(Quantities', T)
                               /\ k = SumFunctionOnSet(Quantities', S \cup {N})
    <3>1. SumFunctionOnSet(Quantities, S) \in Nat
      BY <1>1, <2>1, QuantityType
    <3>2. /\ SumFunctionOnSet(Quantities', T) \in Nat
          /\ SumFunctionOnSet(Quantities', S \cup {N}) \in Nat
      BY <1>1, <2>1, NextQuantityType
    <3> QED
      BY <3>1, <3>2
  <2>4. SumFunctionOnSet(Quantities', S) = m
    BY <1>1, <1>2, <2>1, <2>3, SumStays
  <2>5. k = m + q
    <3>1. IsFiniteSet(S) /\ S \cup {N} \subseteq Ids'
      BY <1>1, <2>1, QuantityType
    <3>2. Quantities'[N] = q /\ \A i \in S \cup {N} : Quantities'[i] \in Int
      BY <1>1, <1>2, <1>4, <3>1, NextQuantityType
    <3> HIDE DEF Quantities
    <3>3. SumFunctionOnSet(Quantities', S \cup {N}) = SumFunctionOnSet(Quantities', S) + Quantities'[N]
      BY <2>1, <3>1, <3>2, SumWith
    <3> QED
      BY <2>3, <2>4, <3>2, <3>3
  <2>6. n <= k
    BY <1>1, <2>1, <2>3, NextSumShrinks
  <2>7. position'[s].quantity = position[s].quantity + q /\ position[s].quantity \in Int
    BY <1>1, <1>2, <1>7 DEF BrokerTypeOK, Position
  <2>8. position'[s].quantity >= n
    BY <2>2, <2>3, <2>5, <2>6, <2>7
  <2> QED
    BY <2>3, <2>8 DEF T
<1> QED
  BY <1>6, <1>7 DEF OpenIsHeld

\* An exit sells what its entry bought, and the entry is no longer open.
LEMMA ExitLeavesHeld ==
    ASSUME IInv, TypeOK', ExitFills
    PROVE  OpenIsHeld'
<1>1. BrokerTypeOK /\ BrokerTypeOK' /\ pending \subseteq Ids
  BY DEF IInv, TypeOK, BrokerTypeOK
<1>2. PICK i \in sweep \cap pending :
              /\ requests[i] \in OrderRequest
              /\ pending' = {k \in pending : requests[k].parent_id # requests[i].parent_id}
              /\ Ids' = Ids /\ UNCHANGED <<requests, prices>>
              /\ \A s \in Symbols :
                   position'[s].quantity = position[s].quantity
                       + (IF s = requests[i].symbol THEN Signed(requests[i]) ELSE 0)
  BY <1>1, ChildTrades DEF ExitFills
<1>3. legs = <<>> /\ legs' = <<>>
  <2>1. sweep # {} /\ phase # "plan"
    BY <1>2 DEF IInv, SweepInv, Market
  <2> QED
    BY <2>1 DEF IInv, TypeOK, ExitFills, job
<1>4. PICK p \in Ids : /\ p = requests[i].parent_id
                       /\ requests[i].symbol = requests[p].symbol
                       /\ requests[i].quantity = requests[p].quantity
                       /\ requests[i].action = "SELL"
  BY <1>2 DEF IInv, ExitsInv, IsExit
<1>5. Signed(requests[i]) = -requests[p].quantity
  BY <1>4 DEF Signed
<1>6. Stay
  BY <1>2 DEF Stay
<1>7. \A s : OpenEntries(s)' \subseteq OpenEntries(s) \ {p}
  BY <1>2, <1>3, <1>4 DEF OpenEntries
<1>8. p \in OpenEntries(requests[p].symbol)
  BY <1>2, <1>4 DEF OpenEntries
<1>9. ASSUME NEW s \in Symbols \ Leveraged, s # requests[p].symbol
      PROVE  position'[s].quantity >= SumFunctionOnSet(Quantities, OpenEntries(s))'
  <2>1. position'[s].quantity = position[s].quantity
    <3>1. position[s].quantity \in Int
      BY <1>1 DEF BrokerTypeOK, Position
    <3>2. s # requests[i].symbol
      BY <1>4, <1>9
    <3> QED
      BY <1>2, <3>1, <3>2
  <2>2. OpenEntries(s)' \subseteq OpenEntries(s)
    BY <1>7
  <2>3. position[s].quantity >= SumFunctionOnSet(Quantities, OpenEntries(s))
    BY DEF IInv, OpenIsHeld
  <2> QED
    BY <1>1, <1>6, <2>1, <2>2, <2>3, HeldStays
<1>10. ASSUME NEW s \in Symbols \ Leveraged, s = requests[p].symbol
       PROVE  position'[s].quantity >= SumFunctionOnSet(Quantities, OpenEntries(s))'
  <2> DEFINE S == OpenEntries(s)
             T == OpenEntries(s)'
  <2>1. S \in SUBSET Ids /\ p \in S /\ T \in SUBSET (S \ {p}) /\ T \in SUBSET Ids
        /\ S \ {p} \in SUBSET Ids
    BY <1>2, <1>7, <1>8, <1>10 DEF OpenEntries
  <2>2. position[s].quantity >= SumFunctionOnSet(Quantities, S)
    BY DEF IInv, OpenIsHeld
  <2> HIDE DEF S, T
  <2>3. PICK q, m, n, k \in Nat : /\ q = requests[p].quantity
                                  /\ m = SumFunctionOnSet(Quantities, S)
                                  /\ n = SumFunctionOnSet(Quantities, T)
                                  /\ k = SumFunctionOnSet(Quantities, S \ {p})
    <3>1. /\ SumFunctionOnSet(Quantities, S) \in Nat
          /\ SumFunctionOnSet(Quantities, T) \in Nat
          /\ SumFunctionOnSet(Quantities, S \ {p}) \in Nat
      BY <1>1, <2>1, QuantityType
    <3>2. requests[p].quantity \in Nat
      BY <1>1, <1>4, QuantityType
    <3> QED
      BY <3>1, <3>2
  <2>4. m = k + q
    <3>1. IsFiniteSet(S) /\ \A j \in S : Quantities[j] \in Int
      BY <1>1, <2>1, QuantityType
    <3>2. Quantities[p] = q
      BY <1>1, <2>3, QuantityType
    <3> HIDE DEF Quantities
    <3>3. SumFunctionOnSet(Quantities, S) = SumFunctionOnSet(Quantities, S \ {p}) + Quantities[p]
      BY <2>1, <3>1, SumWithout
    <3> QED
      BY <2>3, <3>2, <3>3
  <2>5. n <= k
    BY <1>1, <2>1, <2>3, SumShrinks
  <2>6. SumFunctionOnSet(Quantities', T) = n
    BY <1>1, <1>6, <2>1, <2>3, SumStays
  <2>7. position'[s].quantity = position[s].quantity - q /\ position[s].quantity \in Int
    BY <1>1, <1>2, <1>4, <1>5, <1>10, <2>3 DEF BrokerTypeOK, Position
  <2>8. position'[s].quantity >= n
    BY <2>2, <2>3, <2>4, <2>5, <2>7
  <2> QED
    BY <2>6, <2>8 DEF T
<1> QED
  BY <1>9, <1>10 DEF OpenIsHeld

\* A leg that is placed waits for the entry its bracket has open already.
LEMMA LegOpensNothing ==
    ASSUME IInv, PlaceLeg, NEW s
    PROVE  OpenEntries(s)' \subseteq OpenEntries(s)
<1>1. PICK g \in Signals, q \in Nat \ {0}, p \in Ids, e, f \in OrderRequest, N \in Nat \ {0} :
         /\ e = Exits(g, q, p)[1] /\ f = Exits(g, q, p)[2]
         /\ \/ legs = <<e, f>> /\ legs' = <<f>> /\ requests'[N] = e
            \/ legs = <<f>> /\ legs' = <<>> /\ requests'[N] = f
         /\ N \notin Ids /\ Ids' = Ids \cup {N} /\ Stay
         /\ pending' = pending \cup {N}
  BY LegPlaced
<1>2. e.parent_id = p /\ f.parent_id = p
  BY <1>1, BracketFields
<1>3. legs # <<>> /\ Head(legs).parent_id = p /\ (legs' # <<>> => Head(legs').parent_id = p)
  <2>1. Head(<<e, f>>) = e /\ Head(<<f>>) = f /\ <<e, f>> # <<>> /\ <<f>> # <<>>
    OBVIOUS
  <2>2. (legs = <<e, f>> /\ legs' = <<f>>) \/ (legs = <<f>> /\ legs' = <<>>)
    BY <1>1
  <2> QED
    BY ONLY <1>2, <2>1, <2>2
<1>4. ASSUME NEW i \in pending PROVE i \in Ids /\ requests'[i] = requests[i] /\ requests[i].parent_id \in Ids
  BY <1>1 DEF Stay, IInv, TypeOK, BrokerTypeOK, ExitsInv, IsExit
<1> SUFFICES ASSUME NEW r \in OpenEntries(s)' PROVE r \in OpenEntries(s)
  OBVIOUS
<1>5. /\ requests'[r].symbol = s
      /\ r = p \/ \E i \in pending : requests[i].parent_id = r
  BY <1>1, <1>2, <1>3, <1>4 DEF OpenEntries
<1>6. r \in Ids /\ requests[r].symbol = s
  BY <1>1, <1>4, <1>5 DEF Stay
<1> QED
  BY <1>3, <1>5, <1>6 DEF OpenEntries

\* Every step leaves what the open entries bought in the account.
LEMMA HeldStep ==
    ASSUME IInv, TypeOK', [Next]_vars
    PROVE  OpenIsHeld'
<1>1. BrokerTypeOK /\ BrokerTypeOK'
  BY DEF IInv, TypeOK
<1>2. ASSUME Stay,
             \A s \in Symbols \ Leveraged : /\ position'[s].quantity = position[s].quantity
                                            /\ OpenEntries(s)' \subseteq OpenEntries(s)
      PROVE  OpenIsHeld'
  <2>1. ASSUME NEW s \in Symbols \ Leveraged
        PROVE  position'[s].quantity >= SumFunctionOnSet(Quantities, OpenEntries(s))'
    <3>1. position[s].quantity >= SumFunctionOnSet(Quantities, OpenEntries(s))
      BY DEF IInv, OpenIsHeld
    <3> QED
      BY <1>1, <1>2, <3>1, HeldStays
  <2> QED
    BY <2>1 DEF OpenIsHeld
<1>3. CASE Quiet
  <2>1. Stay /\ pending' = pending /\ position' = position /\ (legs' = <<>> \/ legs' = legs)
    BY <1>3 DEF Quiet, broker, Stay, Ids
  <2> QED
    BY <1>2, <2>1, OpenShrinks
<1>4. ASSUME NEW g \in Signals, NEW percent \in Multipliers, PlaceEntry(g, percent) PROVE OpenIsHeld'
  BY <1>4, EntryIsHeld
<1>5. CASE PlaceLeg
  <2>1. Stay /\ UNCHANGED position
    BY <1>5, LegPlaced
  <2> QED
    BY <1>2, <1>5, <2>1, LegOpensNothing
<1>6. ASSUME NEW u \in Symbols, FlattenPosition(u) PROVE OpenIsHeld'
  <2>1. /\ u \in Leveraged /\ Stay /\ UNCHANGED <<legs, pending>>
        /\ \A s \in Symbols : position'[s].quantity = IF s = u THEN 0 ELSE position[s].quantity
    BY <1>6, FlattenPlaced
  <2> QED
    BY <1>2, <2>1, OpenShrinks
<1>7. ASSUME NEW u \in Symbols, NEW price \in Quotes, PriceMoves(u, price) PROVE OpenIsHeld'
  <2>1. /\ Stay /\ UNCHANGED <<legs, pending>>
        /\ \A s \in Symbols : position'[s].quantity = position[s].quantity
    BY <1>7, PriceMoved DEF Stay
  <2> QED
    BY <1>2, <2>1, OpenShrinks
<1>8. CASE ExitFills
  BY <1>8, ExitLeavesHeld
<1>9. CASE Kill
  <2>1. Stay /\ pending' \subseteq pending /\ UNCHANGED <<legs, position>>
    BY <1>9 DEF Kill, CancelAll, Stay, Ids, job
  <2> QED
    BY <1>2, <2>1, OpenShrinks
<1> QED
  BY <1>3, <1>4, <1>5, <1>6, <1>7, <1>8, <1>9, Kinds

-----------------------------------------------------------------------------
(* The stops that wait are for the shares held.                            *)

\* The stops that wait in a symbol.
WaitingStops(s) == {i \in pending : requests[i].symbol = s /\ requests[i].order_type = "STP"}

\* A symbol with an open entry is held.
LEMMA OpenMeansHeld ==
    ASSUME IInv, NEW s \in Symbols \ Leveraged, NEW p \in OpenEntries(s)
    PROVE  position[s].quantity > 0
<1>1. BrokerTypeOK /\ position[s].quantity \in Int
  BY DEF IInv, TypeOK, BrokerTypeOK, Position
<1>2. position[s].quantity >= SumFunctionOnSet(Quantities, OpenEntries(s))
  BY DEF IInv, OpenIsHeld
<1>3. OpenEntries(s) \in SUBSET Ids /\ {p} \in SUBSET OpenEntries(s) /\ p \in Ids
  BY DEF OpenEntries
<1>4. PICK q \in Nat \ {0} : q = Quantities[p]
  BY <1>1, <1>3, QuantityType
<1>5. SumFunctionOnSet(Quantities, {p}) = q
  <2>1. \A y \in {} \cup {p} : Quantities[y] \in Int
    BY <1>4
  <2> HIDE DEF Quantities
  <2>2. SumFunctionOnSet(Quantities, {} \cup {p}) = SumFunctionOnSet(Quantities, {}) + Quantities[p]
    BY <2>1, FS_EmptySet, SumWith
  <2>3. {} \cup {p} = {p} /\ SumFunctionOnSet(Quantities, {}) = 0
    BY SumEmpty
  <2> QED
    BY <1>4, <2>2, <2>3
<1>6. PICK m \in Nat : m = SumFunctionOnSet(Quantities, OpenEntries(s))
  BY <1>1, <1>3, QuantityType
<1>7. q <= m
  BY <1>1, <1>3, <1>5, <1>6, SumShrinks
<1> QED
  BY <1>1, <1>2, <1>6, <1>7

\* While the same stops wait for the same shares, they match.
LEMMA StopsStay ==
    ASSUME BrokerTypeOK, BrokerTypeOK', Stay, NEW s,
           position[s].quantity = Exiting(s, "STP") + Unplaced(s),
           position'[s].quantity = position[s].quantity,
           Unplaced(s)' = Unplaced(s), WaitingStops(s)' = WaitingStops(s)
    PROVE  position'[s].quantity = Exiting(s, "STP")' + Unplaced(s)'
<1> DEFINE S == WaitingStops(s)
<1>1. S \in SUBSET Ids
  BY DEF WaitingStops, BrokerTypeOK
<1>2. SumFunctionOnSet(Quantities', S) = SumFunctionOnSet(Quantities, S)
  BY <1>1, SumStays
<1>3. Exiting(s, "STP") = SumFunctionOnSet(Quantities, S)
  BY DEF Exiting, WaitingStops
<1>4. Exiting(s, "STP")' = SumFunctionOnSet(Quantities', S)
  BY DEF Exiting, WaitingStops
<1> QED
  BY <1>2, <1>3, <1>4

\* The shares the waiting stops are for.
LEMMA ExitingType ==
    ASSUME BrokerTypeOK, NEW s
    PROVE  /\ Exiting(s, "STP") = SumFunctionOnSet(Quantities, WaitingStops(s))
           /\ Exiting(s, "STP") \in Nat /\ WaitingStops(s) \in SUBSET Ids
<1>1. Exiting(s, "STP") = SumFunctionOnSet(Quantities, WaitingStops(s))
  BY DEF Exiting, WaitingStops
<1>2. WaitingStops(s) \in SUBSET Ids
  BY DEF WaitingStops, BrokerTypeOK
<1> QED
  BY <1>1, <1>2, QuantityType

\* Placing an entry: its shares are unplaced.
LEMMA EntryStops ==
    ASSUME IInv, TypeOK', NEW g \in Signals, NEW percent \in Multipliers, PlaceEntry(g, percent)
    PROVE  StopsMatchShares' /\ TargetsHaveStops'
<1>1. BrokerTypeOK /\ BrokerTypeOK' /\ pending \subseteq Ids
  BY DEF IInv, TypeOK, BrokerTypeOK
<1>2. PICK q \in Nat \ {0}, N \in Nat \ {0} :
              /\ Stay
              /\ legs = <<>> /\ legs' = Exits(g, q, N)
              /\ \A s \in Symbols :
                   position'[s].quantity = position[s].quantity + (IF s = g.symbol THEN q ELSE 0)
              /\ UNCHANGED <<pending, exposed>>
  BY EntryPlaced
<1>3. PICK e : e = Exits(g, q, N)[1]
  OBVIOUS
<1>4. e.symbol = g.symbol /\ e.quantity = q /\ e.order_type = "STP"
  BY <1>3, BracketFields
<1>5. legs' # <<>> /\ Head(legs') = e
  BY <1>2, <1>3 DEF Exits
<1>6. \A i \in pending : i \in Ids /\ requests'[i] = requests[i]
  BY <1>1, <1>2 DEF Stay
<1>7. ASSUME NEW s \in Symbols \ exposed', s \notin Leveraged
      PROVE  position'[s].quantity = Exiting(s, "STP")' + Unplaced(s)'
  <2>1. WaitingStops(s)' = WaitingStops(s) /\ WaitingStops(s) \in SUBSET Ids
    BY <1>2, <1>6 DEF WaitingStops
  <2>2. position[s].quantity = Exiting(s, "STP") + Unplaced(s)
    BY <1>2, <1>7 DEF IInv, StopsMatchShares
  <2>3. Unplaced(s) = 0 /\ Unplaced(s)' = IF s = g.symbol THEN q ELSE 0
    BY <1>2, <1>4, <1>5 DEF Unplaced
  <2>4. PICK m \in Nat : m = Exiting(s, "STP") /\ m = SumFunctionOnSet(Quantities, WaitingStops(s))
    BY <1>1, ExitingType
  <2>5. Exiting(s, "STP")' = SumFunctionOnSet(Quantities', WaitingStops(s)')
    BY DEF Exiting, WaitingStops
  <2>6. SumFunctionOnSet(Quantities', WaitingStops(s)) = m
    BY <1>1, <1>2, <2>1, <2>4, SumStays
  <2>7. position'[s].quantity = m + (IF s = g.symbol THEN q ELSE 0)
    BY <1>2, <2>2, <2>3, <2>4
  <2> QED
    BY <2>1, <2>3, <2>5, <2>6, <2>7
<1>8. TargetsHaveStops'
  BY <1>2, <1>4, <1>5, <1>6 DEF IInv, TargetsHaveStops, Stopped
<1> QED
  BY <1>7, <1>8 DEF StopsMatchShares

\* Placing a leg: a stop takes its shares over, a target has its stop.
LEMMA LegStops ==
    ASSUME IInv, TypeOK', PlaceLeg
    PROVE  StopsMatchShares' /\ TargetsHaveStops'
<1>1. BrokerTypeOK /\ BrokerTypeOK' /\ pending \subseteq Ids
  BY DEF IInv, TypeOK, BrokerTypeOK
<1>2. PICK g \in Signals, q \in Nat \ {0}, p \in Ids, e, f \in OrderRequest, N \in Nat \ {0} :
         /\ e = Exits(g, q, p)[1] /\ f = Exits(g, q, p)[2]
         /\ \/ legs = <<e, f>> /\ legs' = <<f>> /\ requests'[N] = e
            \/ legs = <<f>> /\ legs' = <<>> /\ requests'[N] = f
         /\ N \notin Ids /\ Ids' = Ids \cup {N} /\ Stay
         /\ pending' = pending \cup {N}
         /\ UNCHANGED <<position, exposed>>
  BY LegPlaced
<1>3. /\ e.symbol = g.symbol /\ e.quantity = q /\ e.parent_id = p /\ e.order_type = "STP"
      /\ f.symbol = g.symbol /\ f.quantity = q /\ f.parent_id = p /\ f.order_type = "LMT"
  BY <1>2, BracketFields
<1>4. \A i \in pending : i \in Ids /\ i # N /\ requests'[i] = requests[i]
  BY <1>1, <1>2 DEF Stay
<1>5. CASE legs = <<f>> /\ legs' = <<>> /\ requests'[N] = f
  <2>1. ASSUME NEW s \in Symbols \ exposed', s \notin Leveraged
        PROVE  position'[s].quantity = Exiting(s, "STP")' + Unplaced(s)'
    <3>1. WaitingStops(s)' = WaitingStops(s)
      BY <1>2, <1>3, <1>4, <1>5 DEF WaitingStops
    <3>2. position[s].quantity = Exiting(s, "STP") + Unplaced(s)
      BY <1>2, <2>1 DEF IInv, StopsMatchShares
    <3>3. Unplaced(s) = 0 /\ Unplaced(s)' = 0
      BY <1>3, <1>5 DEF Unplaced
    <3> QED
      BY <1>1, <1>2, <3>1, <3>2, <3>3, StopsStay
  <2>2. ASSUME NEW s \in Symbols \ (Leveraged \cup exposed)', NEW i \in pending',
               requests'[i].symbol = s, requests'[i].order_type = "LMT"
        PROVE  Stopped(requests[i].parent_id)'
    <3>1. CASE i \in pending
      <4>1. Stopped(requests[i].parent_id)
        BY <1>2, <1>4, <2>2, <3>1 DEF IInv, TargetsHaveStops
      <4> QED
        BY <1>2, <1>4, <3>1, <4>1 DEF Stopped
    <3>2. CASE i = N
      <4>1. Stopped(p)
        BY <1>2, <1>3, <1>5, <2>2, <3>2 DEF IInv, TargetsHaveStops
      <4> QED
        BY <1>2, <1>3, <1>4, <1>5, <3>2, <4>1 DEF Stopped
    <3> QED
      BY <1>2, <2>2, <3>1, <3>2
  <2> QED
    BY <1>5, <2>1, <2>2 DEF StopsMatchShares, TargetsHaveStops
<1>6. CASE legs = <<e, f>> /\ legs' = <<f>> /\ requests'[N] = e
  <2>1. ASSUME NEW s \in Symbols \ exposed', s \notin Leveraged, s # g.symbol
        PROVE  position'[s].quantity = Exiting(s, "STP")' + Unplaced(s)'
    <3>1. WaitingStops(s)' = WaitingStops(s)
      BY <1>2, <1>3, <1>4, <1>6, <2>1 DEF WaitingStops
    <3>2. position[s].quantity = Exiting(s, "STP") + Unplaced(s)
      BY <1>2, <2>1 DEF IInv, StopsMatchShares
    <3>3. Unplaced(s) = 0 /\ Unplaced(s)' = 0
      BY <1>3, <1>6, <2>1 DEF Unplaced
    <3> QED
      BY <1>1, <1>2, <3>1, <3>2, <3>3, StopsStay
  <2>2. ASSUME NEW s \in Symbols \ exposed', s \notin Leveraged, s = g.symbol
        PROVE  position'[s].quantity = Exiting(s, "STP")' + Unplaced(s)'
    <3> DEFINE S == WaitingStops(s)
    <3>1. WaitingStops(s)' = S \cup {N} /\ N \notin S /\ S \in SUBSET Ids
      BY <1>2, <1>3, <1>4, <1>6, <2>2 DEF WaitingStops
    <3>2. position[s].quantity = Exiting(s, "STP") + Unplaced(s)
      BY <1>2, <2>2 DEF IInv, StopsMatchShares
    <3>3. Unplaced(s) = q /\ Unplaced(s)' = 0
      BY <1>3, <1>6, <2>2 DEF Unplaced
    <3>4. PICK m \in Nat : m = Exiting(s, "STP") /\ m = SumFunctionOnSet(Quantities, S)
      BY <1>1, ExitingType
    <3>5. Exiting(s, "STP")' = SumFunctionOnSet(Quantities', WaitingStops(s)')
      BY DEF Exiting, WaitingStops
    <3> HIDE DEF S
    <3>6. SumFunctionOnSet(Quantities', S) = m
      BY <1>1, <1>2, <3>1, <3>4, SumStays
    <3>7. SumFunctionOnSet(Quantities', S \cup {N}) = m + q
      <4>1. IsFiniteSet(S) /\ S \cup {N} \in SUBSET Ids'
        BY <1>1, <1>2, <3>1, QuantityType
      <4>2. Quantities'[N] = q /\ \A i \in S \cup {N} : Quantities'[i] \in Int
        BY <1>1, <1>2, <1>3, <1>6, <4>1, NextQuantityType
      <4> HIDE DEF Quantities
      <4>3. SumFunctionOnSet(Quantities', S \cup {N}) = SumFunctionOnSet(Quantities', S) + Quantities'[N]
        BY <3>1, <4>1, <4>2, SumWith
      <4> QED
        BY <3>6, <4>2, <4>3
    <3> QED
      BY <1>2, <3>1, <3>2, <3>3, <3>4, <3>5, <3>7
  <2>3. ASSUME NEW s \in Symbols \ (Leveraged \cup exposed)', NEW i \in pending',
               requests'[i].symbol = s, requests'[i].order_type = "LMT"
        PROVE  Stopped(requests[i].parent_id)'
    <3>1. i \in pending
      BY <1>2, <1>3, <1>6, <2>3
    <3>2. Stopped(requests[i].parent_id)
      BY <1>2, <1>4, <2>3, <3>1 DEF IInv, TargetsHaveStops
    <3> QED
      BY <1>2, <1>4, <3>1, <3>2 DEF Stopped
  <2>4. Stopped(p)'
    BY <1>2, <1>3, <1>6 DEF Stopped
  <2>5. Head(legs') = f
    BY <1>6
  <2> QED
    BY <1>3, <2>1, <2>2, <2>3, <2>4, <2>5 DEF StopsMatchShares, TargetsHaveStops
<1> QED
  BY <1>2, <1>5, <1>6

\* An exit that trades takes the stop of its bracket with it, or is that stop.
LEMMA ExitStops ==
    ASSUME IInv, TypeOK', ExitFills
    PROVE  StopsMatchShares' /\ TargetsHaveStops'
<1>1. BrokerTypeOK /\ BrokerTypeOK' /\ pending \subseteq Ids
  BY DEF IInv, TypeOK, BrokerTypeOK
<1>2. PICK i \in sweep \cap pending :
              /\ requests[i] \in OrderRequest
              /\ pending' = {k \in pending : requests[k].parent_id # requests[i].parent_id}
              /\ Ids' = Ids /\ UNCHANGED <<requests, prices>>
              /\ \A s \in Symbols :
                   position'[s].quantity = position[s].quantity
                       + (IF s = requests[i].symbol THEN Signed(requests[i]) ELSE 0)
  BY <1>1, ChildTrades DEF ExitFills
<1>3. legs = <<>> /\ legs' = <<>> /\ exposed' = exposed
  <2>1. sweep # {} /\ phase # "plan"
    BY <1>2 DEF IInv, SweepInv, Market
  <2> QED
    BY <2>1 DEF IInv, TypeOK, ExitFills, job, history
<1>4. PICK p \in Ids : p = requests[i].parent_id
  BY <1>2 DEF IInv, ExitsInv, IsExit
<1> DEFINE x == requests[p].symbol
           q == requests[p].quantity
<1>5. \A k \in pending : requests[k].parent_id = p =>
         /\ requests[k].symbol = x /\ requests[k].quantity = q /\ requests[k].action = "SELL"
         /\ requests[k].order_type \in {"STP", "LMT"}
  BY DEF IInv, ExitsInv, IsExit
<1>6. Signed(requests[i]) = -q /\ requests[i].symbol = x
  BY <1>2, <1>4, <1>5 DEF Signed
<1>7. Stay
  BY <1>2 DEF Stay
<1> HIDE DEF x, q
<1>8. ASSUME NEW s \in Symbols \ exposed', s \notin Leveraged, s # x
      PROVE  position'[s].quantity = Exiting(s, "STP")' + Unplaced(s)'
  <2>1. WaitingStops(s)' = WaitingStops(s)
    BY <1>2, <1>4, <1>5, <1>8 DEF WaitingStops
  <2>2. position[s].quantity = Exiting(s, "STP") + Unplaced(s)
    BY <1>3, <1>8 DEF IInv, StopsMatchShares
  <2>3. Unplaced(s) = 0 /\ Unplaced(s)' = 0
    BY <1>3 DEF Unplaced
  <2>4. position'[s].quantity = position[s].quantity
    BY <1>1, <1>2, <1>6, <1>8 DEF BrokerTypeOK, Position
  <2> QED
    BY <1>1, <1>7, <2>1, <2>2, <2>3, <2>4, StopsStay
<1>9. ASSUME NEW s \in Symbols \ exposed', s \notin Leveraged, s = x
      PROVE  position'[s].quantity = Exiting(s, "STP")' + Unplaced(s)'
  <2> DEFINE S == WaitingStops(s)
  <2>1. PICK j \in pending : requests[j].parent_id = p /\ requests[j].order_type = "STP"
    <3>1. CASE requests[i].order_type = "STP"
      BY <1>2, <1>4, <3>1
    <3>2. CASE requests[i].order_type = "LMT"
      <4>1. Stopped(requests[i].parent_id)
        BY <1>2, <1>3, <1>6, <1>9, <3>2 DEF IInv, TargetsHaveStops
      <4> QED
        BY <1>4, <4>1 DEF Stopped
    <3> QED
      BY <1>2, <1>4, <1>5, <3>1, <3>2
  <2>2. \A k \in pending : requests[k].parent_id = p /\ requests[k].order_type = "STP" => k = j
    BY <2>1 DEF IInv, ExitsInv
  <2>3. j \in S /\ WaitingStops(s)' = S \ {j} /\ S \in SUBSET Ids /\ S \ {j} \in SUBSET Ids
    BY <1>1, <1>2, <1>4, <1>5, <1>9, <2>1, <2>2 DEF WaitingStops
  <2>4. position[s].quantity = Exiting(s, "STP") + Unplaced(s)
    BY <1>3, <1>9 DEF IInv, StopsMatchShares
  <2>5. Unplaced(s) = 0 /\ Unplaced(s)' = 0
    BY <1>3 DEF Unplaced
  <2>6. PICK m \in Nat : m = Exiting(s, "STP") /\ m = SumFunctionOnSet(Quantities, S)
    BY <1>1, ExitingType
  <2>7. Exiting(s, "STP")' = SumFunctionOnSet(Quantities', WaitingStops(s)')
    BY DEF Exiting, WaitingStops
  <2> HIDE DEF S
  <2>8. PICK k \in Nat : k = SumFunctionOnSet(Quantities, S \ {j})
    BY <1>1, <2>3, QuantityType
  <2>9. SumFunctionOnSet(Quantities', S \ {j}) = k
    BY <1>1, <1>7, <2>3, <2>8, SumStays
  <2>10. m = k + q /\ q \in Int
    <3>1. IsFiniteSet(S) /\ \A n \in S : Quantities[n] \in Int
      BY <1>1, <2>3, QuantityType
    <3>2. Quantities[j] = q
      BY <1>1, <1>5, <2>1, QuantityType
    <3>3. q \in Int
      BY <2>3, <3>1, <3>2
    <3> HIDE DEF Quantities
    <3>4. SumFunctionOnSet(Quantities, S) = SumFunctionOnSet(Quantities, S \ {j}) + Quantities[j]
      BY <2>3, <3>1, SumWithout
    <3> QED
      BY <2>6, <2>8, <3>2, <3>3, <3>4
  <2>11. position'[s].quantity = position[s].quantity - q
    BY <1>1, <1>2, <1>6, <1>9, <2>10 DEF BrokerTypeOK, Position
  <2> QED
    BY <2>3, <2>4, <2>5, <2>6, <2>7, <2>9, <2>10, <2>11
<1>10. ASSUME NEW s \in Symbols \ (Leveraged \cup exposed)', NEW k \in pending',
              requests'[k].symbol = s, requests'[k].order_type = "LMT"
       PROVE  Stopped(requests[k].parent_id)'
  <2>1. k \in pending /\ requests[k].parent_id # requests[i].parent_id
    BY <1>2
  <2>2. Stopped(requests[k].parent_id)
    BY <1>2, <1>3, <1>10, <2>1 DEF IInv, TargetsHaveStops
  <2> QED
    BY <1>2, <2>1, <2>2 DEF Stopped
<1> QED
  BY <1>3, <1>8, <1>9, <1>10 DEF StopsMatchShares, TargetsHaveStops

\* A kill exposes whatever is held, and nothing else has exits.
LEMMA KillStops ==
    ASSUME IInv, TypeOK', Kill
    PROVE  StopsMatchShares' /\ TargetsHaveStops'
<1>1. BrokerTypeOK /\ BrokerTypeOK'
  BY DEF IInv, TypeOK
<1>2. /\ pending' = {} /\ exposed' = exposed \cup Held
      /\ UNCHANGED <<position, requests, legs>>
  BY DEF Kill, CancelAll, job
<1>3. ASSUME NEW s \in Symbols \ exposed', s \notin Leveraged
      PROVE  /\ s \notin exposed /\ position[s].quantity = 0
             /\ ~ (legs # <<>> /\ Head(legs).symbol = s)
  <2>1. s \notin exposed /\ position[s].quantity = 0
    BY <1>2, <1>3 DEF Held
  <2>2. ASSUME legs # <<>>, Head(legs).symbol = s PROVE FALSE
    <3>1. PICK g \in Signals, q \in Nat \ {0}, p \in Ids, e, f \in OrderRequest :
             /\ requests[p] = Entry(g, q)
             /\ e = Exits(g, q, p)[1] /\ f = Exits(g, q, p)[2]
             /\ legs = <<e, f>> \/ legs = <<f>>
      BY <2>2, LegsAre DEF IInv
    <3>2. /\ e.parent_id = p /\ f.parent_id = p
          /\ e.symbol = g.symbol /\ f.symbol = g.symbol /\ requests[p].symbol = g.symbol
      BY <3>1, BracketFields
    <3>3. Head(legs).parent_id = p /\ requests[p].symbol = s
      BY <2>2, <3>1, <3>2
    <3>4. p \in OpenEntries(s)
      BY <2>2, <3>3 DEF OpenEntries
    <3> QED
      BY <1>3, <2>1, <3>4, OpenMeansHeld
  <2> QED
    BY <2>1, <2>2
<1>4. ASSUME NEW s \in Symbols \ exposed', s \notin Leveraged
      PROVE  position'[s].quantity = Exiting(s, "STP")' + Unplaced(s)'
  <2>1. Unplaced(s)' = 0
    BY <1>2, <1>3, <1>4 DEF Unplaced
  <2>2. Exiting(s, "STP")' = SumFunctionOnSet(Quantities', WaitingStops(s)')
    BY DEF Exiting, WaitingStops
  <2>3. WaitingStops(s)' = {}
    BY <1>2 DEF WaitingStops
  <2>4. Exiting(s, "STP")' = 0
    BY <2>2, <2>3, SumEmpty
  <2> QED
    BY <1>2, <1>3, <1>4, <2>1, <2>4
<1>5. TargetsHaveStops'
  BY <1>2, <1>3 DEF TargetsHaveStops
<1> QED
  BY <1>4, <1>5 DEF StopsMatchShares

\* Every step keeps the stops matched with the shares.
LEMMA StopsStep ==
    ASSUME IInv, TypeOK', [Next]_vars
    PROVE  StopsMatchShares' /\ TargetsHaveStops'
<1>1. BrokerTypeOK /\ BrokerTypeOK' /\ pending \subseteq Ids
  BY DEF IInv, TypeOK, BrokerTypeOK
<1>2. ASSUME Stay, UNCHANGED pending, legs' = <<>> \/ legs' = legs, exposed \subseteq exposed',
             \A s \in Symbols \ exposed' : Unplaced(s)' = Unplaced(s),
             \A s \in Symbols \ Leveraged : position'[s].quantity = position[s].quantity
      PROVE  StopsMatchShares' /\ TargetsHaveStops'
  <2>1. \A i \in pending : requests'[i] = requests[i]
    BY <1>1, <1>2 DEF Stay
  <2>2. ASSUME NEW s \in Symbols \ exposed', s \notin Leveraged
        PROVE  position'[s].quantity = Exiting(s, "STP")' + Unplaced(s)'
    <3>1. position[s].quantity = Exiting(s, "STP") + Unplaced(s)
      BY <1>2, <2>2 DEF IInv, StopsMatchShares
    <3>2. WaitingStops(s)' = WaitingStops(s)
      BY <1>2, <2>1 DEF WaitingStops
    <3>3. Unplaced(s)' = Unplaced(s) /\ position'[s].quantity = position[s].quantity
      BY <1>2, <2>2
    <3> QED
      BY <1>1, <1>2, <3>1, <3>2, <3>3, StopsStay
  <2>3. TargetsHaveStops'
    BY <1>2, <2>1 DEF IInv, TargetsHaveStops, Stopped
  <2> QED
    BY <2>2, <2>3 DEF StopsMatchShares
<1>3. ASSUME UNCHANGED legs PROVE \A s : Unplaced(s)' = Unplaced(s)
  BY <1>3 DEF Unplaced
<1>4. CASE Quiet
  <2>1. Stay /\ UNCHANGED <<pending, position>> /\ (legs' = <<>> \/ legs' = legs)
    BY <1>4 DEF Quiet, broker, Stay, Ids
  <2>2. exposed \subseteq exposed' /\ \A s \in Symbols \ exposed' : Unplaced(s)' = Unplaced(s)
    BY <1>4 DEF Quiet
  <2> QED
    BY <1>2, <2>1, <2>2
<1>5. ASSUME NEW g \in Signals, NEW percent \in Multipliers, PlaceEntry(g, percent)
      PROVE  StopsMatchShares' /\ TargetsHaveStops'
  BY <1>5, EntryStops
<1>6. CASE PlaceLeg
  BY <1>6, LegStops
<1>7. ASSUME NEW u \in Symbols, FlattenPosition(u) PROVE StopsMatchShares' /\ TargetsHaveStops'
  <2>1. /\ u \in Leveraged /\ Stay /\ UNCHANGED <<legs, pending, exposed>>
        /\ \A s \in Symbols : position'[s].quantity = IF s = u THEN 0 ELSE position[s].quantity
    BY <1>7, FlattenPlaced
  <2> QED
    BY <1>2, <1>3, <2>1
<1>8. ASSUME NEW u \in Symbols, NEW price \in Quotes, PriceMoves(u, price)
      PROVE  StopsMatchShares' /\ TargetsHaveStops'
  <2>1. /\ Stay /\ UNCHANGED <<legs, pending, exposed>>
        /\ \A s \in Symbols : position'[s].quantity = position[s].quantity
    BY <1>8, PriceMoved DEF Stay
  <2> QED
    BY <1>2, <1>3, <2>1
<1>9. CASE ExitFills
  BY <1>9, ExitStops
<1>10. CASE Kill
  BY <1>10, KillStops
<1> QED
  BY <1>4, <1>5, <1>6, <1>7, <1>8, <1>9, <1>10, Kinds

-----------------------------------------------------------------------------
(* The end-of-day job.                                                     *)

\* Every step of the job takes a position off its list: held, flat or rejected.
LEMMA EodStep ==
    ASSUME IInv, [Next]_vars
    PROVE  EodInv'
<1>1. BrokerTypeOK /\ EodInv /\ (legs # <<>> => phase = "plan") /\ todo \subseteq Symbols
      /\ Leveraged \subseteq Symbols
  BY SignalsAssumption DEF IInv, TypeOK
<1>2. ASSUME phase' # "eod" PROVE EodInv'
  BY <1>2 DEF EodInv
<1>3. CASE StartEod
  <2>1. todo' = Held /\ position' = position
    BY <1>3 DEF StartEod, broker
  <2> QED
    BY <1>1, <2>1 DEF EodInv, Held
<1>4. CASE StartPlan \/ PlaceLeg \/ RejectLeg \/ Returns \/ ExitFills
  <2>1. ExitFills => phase \in Market
    BY DEF ExitFills, FillChild, IInv, SweepInv
  <2> QED
    BY <1>1, <1>2, <1>4, <2>1, Ending
       DEF StartPlan, PlaceLeg, RejectLeg, PlanReturns, EodReturns, ExitFills, job, Market
<1>5. ASSUME NEW g \in Signals, NEW percent \in Multipliers,
             SkipSignal(g, percent) \/ PlaceEntry(g, percent) \/ RejectEntry(g, percent)
      PROVE  EodInv'
  BY <1>2, <1>5 DEF SkipSignal, PlaceEntry, RejectEntry, Takes
<1>6. ASSUME NEW s \in Symbols, HoldPosition(s) \/ RejectFlatten(s) PROVE EodInv'
  <2>1. /\ phase = "eod" /\ todo' = todo \ {s} /\ position' = position
        /\ s \in Leveraged => s \in blocked'
        /\ blocked \subseteq blocked'
    BY <1>6 DEF HoldPosition, RejectFlatten, Looks, broker
  <2> QED
    BY <1>1, <2>1 DEF EodInv
<1>7. ASSUME NEW s \in Symbols, FlattenPosition(s) PROVE EodInv'
  <2>1. /\ phase = "eod" /\ todo' = todo \ {s} /\ blocked' = blocked
        /\ \A u \in Symbols : position'[u].quantity = IF u = s THEN 0 ELSE position[u].quantity
    BY <1>7, FlattenPlaced DEF FlattenPosition, Looks
  <2> QED
    BY <1>1, <2>1 DEF EodInv
<1>8. ASSUME NEW s \in Symbols, NEW price \in Quotes, PriceMoves(s, price) PROVE EodInv'
  BY <1>2, <1>8 DEF PriceMoves, job, Market
<1>9. CASE Kill \/ Resume \/ UNCHANGED vars
  BY <1>1, <1>9 DEF Kill, CancelAll, Resume, vars, broker, job, history, EodInv
<1> QED
  BY <1>3, <1>4, <1>5, <1>6, <1>7, <1>8, <1>9 DEF Next, Plan, Eod, Returns

-----------------------------------------------------------------------------
(* The theorems.                                                           *)

\* Nothing waits and nothing is held before the first plan.
LEMMA DayStarts == Init => IInv
<1> SUFFICES ASSUME Init PROVE IInv
  OBVIOUS
<1>1. BrokerIInv
  BY BrokerStarts DEF Init
<1>2. TypeOK
  <2>1. 0 \in 0..MaxDays /\ 0 \in 0..MaxTroubles
    BY SignalsAssumption
  <2>2. legs \in Seq(OrderRequest) /\ Len(legs) <= 2 /\ legs = <<>>
    BY DEF Init
  <2>3. day = 0 /\ troubles = 0 /\ nav = 0 /\ killed = FALSE
    BY DEF Init
  <2>4. phase \in Phases
    BY DEF Init, Phases
  <2>5. /\ seen \subseteq Symbols /\ todo \subseteq Symbols
        /\ blocked \cup exposed \subseteq Symbols
    BY DEF Init
  <2>6. BrokerTypeOK
    BY <1>1 DEF BrokerIInv
  <2>7. day \in 0..MaxDays /\ troubles \in 0..MaxTroubles /\ nav \in Int
    <3>1. day = 0 /\ troubles = 0 /\ nav = 0
      BY <2>3
    <3> QED
      BY <2>1, <3>1
  <2>8. killed \in BOOLEAN
    BY <2>3
  <2> HIDE DEF Init
  <2> QED
    BY ONLY <2>2, <2>4, <2>5, <2>6, <2>7, <2>8 DEF TypeOK
<1>3. ExitsInv /\ LegsInv /\ SweepInv /\ TargetsHaveStops /\ EodInv
  BY DEF Init, BrokerInit, ExitsInv, LegsInv, SweepInv, TargetsHaveStops, EodInv
<1>4. \A s \in Symbols : position[s].quantity = 0 /\ OpenEntries(s) = {} /\ WaitingStops(s) = {}
                         /\ Unplaced(s) = 0
  BY DEF Init, BrokerInit, Flat, OpenEntries, WaitingStops, Unplaced
<1>5. SumFunctionOnSet(Quantities, {}) = 0
  BY SumEmpty
<1>6. OpenIsHeld
  BY <1>4, <1>5 DEF OpenIsHeld
<1>7. StopsMatchShares
  <2>1. \A s \in Symbols : Exiting(s, "STP") = 0
    BY <1>4, <1>5 DEF Exiting, WaitingStops
  <2> QED
    BY <1>4, <2>1 DEF StopsMatchShares
<1> QED
  BY <1>1, <1>2, <1>3, <1>6, <1>7 DEF IInv, BrokerIInv

\* IInv is an invariant of the trading day, whatever the signals, prices and
\* kills are and however many days and brackets there are.
THEOREM DayInvariance == Spec => []IInv
<1>1. IInv /\ [Next]_vars => IInv'
  <2> SUFFICES ASSUME IInv, [Next]_vars PROVE IInv'
    OBVIOUS
  <2>1. TypeOK' /\ PendingIsOpen'
    BY TypesStep
  <2>2. ExitsInv' /\ LegsInv' /\ SweepInv' /\ EodInv'
    BY ExitsStep, LegsStep, SweepStep, EodStep
  <2>3. OpenIsHeld' /\ StopsMatchShares' /\ TargetsHaveStops'
    BY <2>1, HeldStep, StopsStep
  <2> QED
    BY <2>1, <2>2, <2>3 DEF IInv
<1> QED
  BY <1>1, DayStarts, PTL DEF Spec

\* The stops that wait are for exactly the shares held, in every symbol that the
\* end-of-day job does not flatten and that no kill, rejected stop or exception
\* between an entry and its stop has exposed: place_bracket_order and _fill_pending_child together keep it, however the
\* brackets of a symbol overlap.
THEOREM StopsCoverShares == Spec => []StopsMatchShares
<1>1. IInv => StopsMatchShares
  BY DEF IInv
<1> QED
  BY <1>1, DayInvariance, PTL

\* No order of the jobs leaves a position short, outside the leveraged symbols.
THEOREM JobsNeverShort == Spec => []NeverShort
<1>1. IInv => NeverShort
  <2> SUFFICES ASSUME IInv, NEW s \in Symbols \ Leveraged PROVE position[s].quantity >= 0
    BY DEF NeverShort, IInv
  <2>1. BrokerTypeOK /\ position[s].quantity \in Int
    BY DEF IInv, TypeOK, BrokerTypeOK, Position
  <2>2. OpenEntries(s) \in SUBSET Ids
    BY DEF OpenEntries
  <2>3. SumFunctionOnSet(Quantities, OpenEntries(s)) \in Nat
    BY <2>1, <2>2, QuantityType
  <2> QED
    BY <2>1, <2>3 DEF IInv, OpenIsHeld
<1> QED
  BY <1>1, DayInvariance, PTL

\* set_price never raises on the brackets of the plan: a child it has found
\* triggered still waits when the loop comes to it, because no price is at the
\* stop and at the target of one bracket.
THEOREM SweptStillWait == Spec => []SweepInv
<1>1. IInv => SweepInv
  BY DEF IInv
<1> QED
  BY <1>1, DayInvariance, PTL

\* The jobs never unbalance the books of the broker.
THEOREM DayBooksBalance == Spec => []BooksBalance
<1>1. IInv /\ BooksBalance /\ [Next]_vars => BooksBalance'
  <2> SUFFICES ASSUME IInv, BooksBalance, [Next]_vars PROVE BooksBalance'
    OBVIOUS
  <2>1. BrokerIInv /\ [BrokerCall]_broker
    BY JobCalls DEF IInv, TypeOK, BrokerIInv
  <2> QED
    BY <2>1, BooksStep
<1>2. Init => BooksBalance
  BY BooksStart DEF Init
<1> QED
  BY <1>1, <1>2, DayInvariance, PTL DEF Spec

\* When the end-of-day job ends, at its end or by an exception, every leveraged
\* symbol is flat that it had looked at and not seen rejected, however many
\* positions there were and whatever a kill cancelled.
THEOREM LeveragedIsFlat == Spec => EodFlattens
<1>1. IInv => (phase = "eod" /\ phase' = "night"
                  => \A s \in Leveraged : position[s].quantity = 0 \/ s \in blocked \cup todo)
  BY DEF IInv, EodInv
<1> QED
  BY <1>1, DayInvariance, PTL DEF Spec, EodFlattens

\* What the guard is asked for an entry that the plan sized.
LEMMA EntryAdmitted ==
    ASSUME nav \in Int, killed \in BOOLEAN, NEW g \in Signals, NEW percent \in Multipliers,
           SizeOf(g, percent) > 0, NEW open \in Nat
    PROVE  GuardAdmits(Entry(g, SizeOf(g, percent)), Context(nav, open, TRUE))
               <=> ~killed /\ ~ReadOnly /\ open < MaxOpenPositions
<1>1. nav \in Nat
  BY SizeType
<1>2. g.entry \in Nat \ {0} /\ g.stop \in Nat /\ percent \in 0..100 /\ Risk \in Nat
  BY SignalsAssumption DEF Whole100
<1> DEFINE e == Entry(g, SizeOf(g, percent))
           o == [sec_type |-> "STK", action |-> e.action, quantity |-> e.quantity,
                 order_type |-> e.order_type, limit_price |-> e.limit_price,
                 stop_price |-> e.stop_price]
<1>3. /\ o.sec_type = "STK" /\ o.action = "BUY" /\ o.limit_price = g.entry
      /\ o.quantity = Scaled(FixedFractionalSize(nav, Risk, g.entry, g.stop, 1), percent)
  BY BracketFields DEF SizeOf
<1>4. GuardAdmits(e, Context(nav, open, TRUE)) <=> Admits(killed, o, Context(nav, open, TRUE))
  BY DEF GuardAdmits
<1> HIDE DEF e, o
<1>5. Admits(killed, o, Context(nav, open, TRUE)) <=> ~killed /\ ~ReadOnly /\ open < MaxOpenPositions
  <2>1. PICK n \in Nat, risk \in Nat, entry \in Nat \ {0}, stop \in Nat, k \in BOOLEAN :
            n = nav /\ risk = Risk /\ entry = g.entry /\ stop = g.stop /\ k = killed
    BY <1>1, <1>2
  <2>2. /\ o.sec_type = "STK" /\ o.action = "BUY" /\ o.limit_price = entry
        /\ o.quantity = Scaled(FixedFractionalSize(n, risk, entry, stop, 1), percent)
    BY <1>3, <2>1
  <2>3. Admits(FALSE, o, Context(n, open, TRUE)) <=> ~ReadOnly /\ open < MaxOpenPositions
    BY <1>2, <2>2, SizedEntryAdmitted
  <2>4. ~Admits(TRUE, o, Context(n, open, TRUE))
    BY DEF Admits
  <2>5. k = TRUE \/ k = FALSE
    OBVIOUS
  <2> QED
    BY <2>1, <2>3, <2>4, <2>5
<1> QED
  BY <1>4, <1>5 DEF e

\* What it is asked for the stop of that entry.
LEMMA StopAdmitted ==
    ASSUME nav \in Int, killed \in BOOLEAN, NEW g \in Signals, NEW percent \in Multipliers, NEW p,
           SizeOf(g, percent) > 0, NEW open \in Nat
    PROVE  GuardAdmits(Exits(g, SizeOf(g, percent), p)[1], Context(nav, open, TRUE))
               <=> ~killed /\ ~ReadOnly /\ open < MaxOpenPositions
<1>1. nav \in Nat
  BY SizeType
<1>2. g.entry \in Nat \ {0} /\ g.stop \in Nat \ {0} /\ g.stop <= g.entry /\ percent \in 0..100 /\ Risk \in Nat
  BY SignalsAssumption DEF Whole100
<1> DEFINE e == Exits(g, SizeOf(g, percent), p)[1]
           o == [sec_type |-> "STK", action |-> e.action, quantity |-> e.quantity,
                 order_type |-> e.order_type, limit_price |-> e.limit_price,
                 stop_price |-> e.stop_price]
<1>3. /\ o.sec_type = "STK" /\ o.action = "SELL" /\ o.limit_price = 0 /\ o.stop_price = g.stop
      /\ o.quantity = Scaled(FixedFractionalSize(nav, Risk, g.entry, g.stop, 1), percent)
  BY BracketFields DEF SizeOf
<1>4. GuardAdmits(e, Context(nav, open, TRUE)) <=> Admits(killed, o, Context(nav, open, TRUE))
  BY DEF GuardAdmits
<1> HIDE DEF e, o
<1>5. Admits(killed, o, Context(nav, open, TRUE)) <=> ~killed /\ ~ReadOnly /\ open < MaxOpenPositions
  <2>1. PICK n \in Nat, risk \in Nat, entry \in Nat \ {0}, stop \in Nat \ {0}, k \in BOOLEAN :
            n = nav /\ risk = Risk /\ entry = g.entry /\ stop = g.stop /\ k = killed
    BY <1>1, <1>2
  <2>2. PICK q \in Nat : /\ q = Scaled(FixedFractionalSize(n, risk, entry, stop, 1), percent)
                         /\ q * entry <= MaxOrderNotional
    BY <1>2, SizedNotional
  <2>3. /\ o.sec_type = "STK" /\ o.action = "SELL" /\ o.limit_price = 0 /\ o.stop_price = stop
        /\ o.quantity = q /\ stop <= entry
    BY <1>2, <1>3, <2>1, <2>2
  <2>4. Admits(FALSE, o, Context(n, open, TRUE)) <=> ~ReadOnly /\ open < MaxOpenPositions
    BY <2>2, <2>3, StopWithinLimits
  <2>5. ~Admits(TRUE, o, Context(n, open, TRUE))
    BY DEF Admits
  <2>6. k = TRUE \/ k = FALSE
    OBVIOUS
  <2> QED
    BY <2>1, <2>4, <2>5, <2>6
<1> QED
  BY <1>4, <1>5 DEF e

\* A symbol loses stops to a kill, a stop refused or an exception of the plan.
LEMMA Exposures ==
    ASSUME IInv, [Next]_vars
    PROVE  \/ exposed' = exposed \/ Kill \/ PlanDies
           \/ RejectLeg /\ Head(legs).order_type = "STP"
<1>1. CASE RejectLeg
  BY <1>1 DEF RejectLeg
<1>2. CASE StartPlan \/ PlaceLeg \/ EndPlan \/ StartEod \/ EndEod \/ EodDies
           \/ ExitFills \/ Resume \/ UNCHANGED vars
  BY <1>2 DEF StartPlan, PlaceLeg, EndPlan, StartEod, EndEod, EodDies, EodReturns, ExitFills,
              Resume, vars, history
<1>3. ASSUME NEW g \in Signals, NEW percent \in Multipliers,
             SkipSignal(g, percent) \/ PlaceEntry(g, percent) \/ RejectEntry(g, percent)
      PROVE  exposed' = exposed
  BY <1>3 DEF SkipSignal, PlaceEntry, RejectEntry, history
<1>4. ASSUME NEW s \in Symbols, HoldPosition(s) \/ FlattenPosition(s) \/ RejectFlatten(s)
      PROVE  exposed' = exposed
  BY <1>4 DEF HoldPosition, FlattenPosition, RejectFlatten, Looks
<1>5. ASSUME NEW s \in Symbols, NEW price \in Quotes, PriceMoves(s, price)
      PROVE  exposed' = exposed
  BY <1>5 DEF PriceMoves, history
<1> QED
  BY <1>1, <1>2, <1>3, <1>4, <1>5 DEF Next, Plan, Eod

\* The guard drops an entry of the plan only for the kill switch, a read-only
\* account or the count of open positions, and a stop only for the kill switch;
\* so stops are lost to kills and to calls that raise, and to nothing else.
THEOREM DropsAreKillOrCount == Spec => DroppedOnlyByCountOrKill
<1> DEFINE A == /\ \A g \in Signals, percent \in Multipliers :
                      RejectEntry(g, percent)
                          => killed \/ ReadOnly \/ Cardinality(Held) >= MaxOpenPositions
                /\ RejectLeg /\ Head(legs).order_type = "STP" => killed
<1>1. IInv => A
  <2> SUFFICES ASSUME IInv PROVE A
    OBVIOUS
  <2>1. nav \in Int /\ killed \in BOOLEAN /\ MaxOpenPositions \in Nat
    BY LimitsAssumption DEF IInv, TypeOK
  <2>2. ASSUME NEW g \in Signals, NEW percent \in Multipliers, RejectEntry(g, percent)
        PROVE  killed \/ ReadOnly \/ Cardinality(Held) >= MaxOpenPositions
    <3>1. PICK n \in Nat : n = Cardinality(Held)
      <4>1. IsFiniteSet(Held)
        BY BrokerAssumption, FS_Subset DEF Held
      <4> QED
        BY <4>1, FS_CardinalityType
    <3>2. SizeOf(g, percent) > 0
          /\ ~GuardAdmits(Entry(g, SizeOf(g, percent)), Context(nav, n, TRUE))
      BY <2>2, <3>1 DEF RejectEntry, PlanContext
    <3>3. ~(~killed /\ ~ReadOnly /\ n < MaxOpenPositions)
      BY <2>1, <3>2, EntryAdmitted
    <3>4. n < MaxOpenPositions \/ n >= MaxOpenPositions
      BY <2>1
    <3> QED
      BY <3>1, <3>3, <3>4
  <2>3. ASSUME RejectLeg, Head(legs).order_type = "STP" PROVE killed
    <3>1. legs # <<>> /\ ~GuardAdmits(Head(legs), ctx)
      BY <2>3 DEF RejectLeg
    <3>2. PICK g \in Signals, percent \in Multipliers, q \in Nat \ {0}, p \in Ids, e, f \in OrderRequest :
             /\ q = SizeOf(g, percent)
             /\ e = Exits(g, q, p)[1] /\ f = Exits(g, q, p)[2]
             /\ legs = <<e, f>> \/ legs = <<f>>
      BY <3>1, LegsAre DEF IInv
    <3>3. Head(legs) = e
      <4>1. f.order_type = "LMT"
        BY <3>2, BracketFields
      <4> QED
        BY <2>3, <3>2, <4>1
    <3>4. PICK n \in Nat : ctx = Context(nav, n, TRUE) /\ n < MaxOpenPositions /\ ~ReadOnly
      <4>1. LegsInv
        BY DEF IInv
      <4> QED
        BY <3>1, <4>1, LegsFacts
    <3>5. SizeOf(g, percent) > 0
      BY <3>2
    <3>6. GuardAdmits(e, Context(nav, n, TRUE)) <=> ~killed /\ ~ReadOnly /\ n < MaxOpenPositions
      BY <2>1, <3>2, <3>5, StopAdmitted
    <3> QED
      BY <2>1, <3>1, <3>3, <3>4, <3>6
  <2> QED
    BY <2>2, <2>3
<1>2. IInv /\ [Next]_vars => (exposed' # exposed => killed' \/ PlanDies)
  <2> SUFFICES ASSUME IInv, [Next]_vars, exposed' # exposed PROVE killed' \/ PlanDies
    OBVIOUS
  <2>1. Kill => killed'
    BY DEF Kill
  <2>2. RejectLeg /\ Head(legs).order_type = "STP" => killed'
    BY <1>1 DEF RejectLeg, outside
  <2> QED
    BY <2>1, <2>2, Exposures
<1>3. IInv /\ [Next]_vars => [A /\ (exposed' # exposed => killed' \/ PlanDies)]_vars
  BY <1>1, <1>2
<1> QED
  BY <1>3, DayInvariance, PTL DEF Spec, DroppedOnlyByCountOrKill

-----------------------------------------------------------------------------
(* What a position cost.                                                   *)

\* The fraction a is at most B.
Within(B, a) == a[1] <= B * a[2]

\* A positive factor keeps an order.
LEMMA PositiveFactor ==
    ASSUME NEW x \in Int, NEW y \in Int, NEW k \in Nat \ {0}
    PROVE  x * k <= y * k <=> x <= y
<1>1. CASE x <= y
  BY <1>1, TimesMonotone
<1>2. CASE x > y
  <2>1. PICK z \in Int : z = x - 1 /\ y <= z
    BY <1>2
  <2>2. y * k <= z * k
    BY <2>1, TimesMonotone
  <2>3. z * k = x * k - k
    BY <2>1
  <2>4. x * k \in Int /\ y * k \in Int /\ z * k \in Int
    BY <2>1
  <2> QED
    BY <1>2, <2>2, <2>3, <2>4
<1> QED
  BY <1>1, <1>2

\* A bound on a fraction is one on its numerator over another denominator.
LEMMA WithinAt ==
    ASSUME NEW a \in Fraction, NEW D \in Nat \ {0}, NEW v \in Int, At(D, a, v), NEW B \in Int
    PROVE  Within(B, a) <=> v <= B * D
<1>1. PICK n \in Int, d \in Nat \ {0} : n = a[1] /\ d = a[2]
  BY DEF Fraction
<1>2. v * d = n * D
  BY <1>1 DEF At
<1>3. PICK b, e \in Int : b = B * d /\ e = B * D
  OBVIOUS
<1>4. b * D = e * d
  <2>1. (B * d) * D = (B * D) * d
    OBVIOUS
  <2> QED
    BY <1>3, <2>1
<1>5. n <= b <=> n * D <= b * D
  BY PositiveFactor
<1>6. v <= e <=> v * d <= e * d
  BY PositiveFactor
<1> QED
  BY <1>1, <1>2, <1>3, <1>4, <1>5, <1>6 DEF Within

\* A fraction has the sign of that numerator.
LEMMA SignAt ==
    ASSUME NEW a \in Fraction, NEW D \in Nat \ {0}, NEW v \in Int, At(D, a, v)
    PROVE  a[1] >= 0 <=> v >= 0
<1>1. PICK n \in Int, d \in Nat \ {0} : n = a[1] /\ d = a[2]
  BY DEF Fraction
<1>2. v * d = n * D
  BY <1>1 DEF At
<1>3. 0 <= n <=> 0 * D <= n * D
  BY PositiveFactor
<1>4. 0 <= v <=> 0 * d <= v * d
  BY PositiveFactor
<1>5. 0 * D = 0 /\ 0 * d = 0
  BY <1>1
<1> QED
  BY <1>1, <1>2, <1>3, <1>4, <1>5

\* Two fractions have a common denominator.
LEMMA TwoTerms ==
    ASSUME NEW a \in Fraction, NEW b \in Fraction
    PROVE  \E D \in Nat \ {0}, v, w \in Int : At(D, a, v) /\ At(D, b, w)
<1>1. PICK n \in Int, d \in Nat \ {0}, m \in Int, e \in Nat \ {0} :
         n = a[1] /\ d = a[2] /\ m = b[1] /\ e = b[2]
  BY DEF Fraction
<1>2. PICK D \in Nat \ {0} : D = d * e /\ D = e * d
  BY PositiveTimes
<1>3. At(D, a, n * e) /\ n * e \in Int
  BY <1>1, <1>2, AtOwn
<1>4. At(D, b, m * d) /\ m * d \in Int
  BY <1>1, <1>2, AtOwn
<1> QED
  BY <1>3, <1>4

\* A position with an average of zero or more that cost at most B.
Capped(B, pos) == pos.avg_cost[1] >= 0 /\ Within(B, Cost(pos))

\* The sign of a product.
LEMMA ProductSign ==
    ASSUME NEW x \in Int, NEW y \in Int
    PROVE  /\ x >= 0 /\ y >= 0 => x * y >= 0
           /\ x >= 0 /\ y <= 0 => x * y <= 0
           /\ y > 0 /\ x * y >= 0 => x >= 0
           /\ y < 0 /\ x * y <= 0 => x >= 0
<1>1. x >= 0 /\ y >= 0 => x * y >= 0
  OBVIOUS
<1>2. x >= 0 /\ y <= 0 => x * y <= 0
  OBVIOUS
<1>3. ASSUME y > 0, x * y >= 0 PROVE x >= 0
  <2>1. 0 <= x <=> 0 * y <= x * y
    BY <1>3, PositiveFactor
  <2>2. 0 * y = 0
    OBVIOUS
  <2> QED
    BY <1>3, <2>1, <2>2
<1>4. ASSUME y < 0, x * y <= 0 PROVE x >= 0
  <2>1. PICK k \in Nat \ {0} : k = -y
    BY <1>4
  <2>2. 0 <= x <=> 0 * k <= x * k
    BY PositiveFactor
  <2>3. x * k = -(x * y) /\ 0 * k = 0 /\ x * y \in Int
    BY <2>1
  <2> QED
    BY <1>4, <2>2, <2>3
<1> QED
  BY <1>1, <1>2, <1>3, <1>4

\* A trade that does not carry a position through zero raises what it cost by no
\* more than what the shares bought cost.
LEMMA CostCapped ==
    ASSUME NEW pos \in Position, NEW k \in Int \ {0}, NEW price \in Nat,
           ~ (pos.quantity * (pos.quantity + k) < 0),
           NEW B \in Nat, NEW C \in Nat, Capped(B, pos),
           k < 0 \/ pos.quantity + k = 0 \/ price * k <= C
    PROVE  Capped(B + C, AfterFill(pos, k, price))
<1> DEFINE after == AfterFill(pos, k, price)
<1>1. PICK q \in Int : q = pos.quantity /\ pos.avg_cost \in Fraction
  BY DEF Position
<1>2. PICK n \in Int : n = q + k /\ after.quantity = n /\ after.avg_cost \in Fraction
  BY <1>1, AfterFillMoves DEF Position
<1>3. PICK D \in Nat \ {0}, v, w \in Int : At(D, pos.avg_cost, v) /\ At(D, after.avg_cost, w)
  BY <1>1, <1>2, TwoTerms
<1>4. PICK a, cap \in Int : a = v * q /\ cap = B * D
  OBVIOUS
<1>5. v >= 0 /\ a <= cap /\ cap >= 0
  <2>1. v >= 0
    BY <1>1, <1>3, SignAt DEF Capped
  <2>2. At(D, Cost(pos), a) /\ Cost(pos) \in Fraction
    <3>1. Cost(pos) = Times(pos.avg_cost, q)
      BY <1>1 DEF Cost
    <3>2. D \in Int
      OBVIOUS
    <3> QED
      BY <1>1, <1>3, <1>4, <3>1, <3>2, AtTimes, TimesType
  <2>3. Within(B, Cost(pos)) <=> a <= B * D
    BY <2>2, WithinAt
  <2>4. B * D >= 0
    OBVIOUS
  <2> QED
    BY <1>4, <2>1, <2>3, <2>4 DEF Capped
<1>6. PICK extra \in Int : extra = C * D /\ extra >= 0 /\ (B + C) * D = cap + extra
  BY <1>4
<1>7. ASSUME w >= 0, w * n <= cap + extra PROVE Capped(B + C, after)
  <2>1. after.avg_cost[1] >= 0
    BY <1>2, <1>3, <1>7, SignAt
  <2>2. PICK x \in Int : x = w * n
    OBVIOUS
  <2>3. At(D, Cost(after), x) /\ Cost(after) \in Fraction
    BY <1>2, <1>3, <2>2, AtTimes, TimesType DEF Cost
  <2>4. Within(B + C, Cost(after)) <=> x <= (B + C) * D
    BY <2>3, WithinAt
  <2> QED
    BY <1>6, <1>7, <2>1, <2>2, <2>4 DEF Capped
<1>8. PICK paid \in Int : paid = price * k
  OBVIOUS
<1>9. PICK z \in Int : /\ At(D, Realizes(pos, k, price), z)
                       /\ w * n = a + paid * D + z
  BY <1>1, <1>2, <1>3, <1>4, <1>8, CostMoves
<1>10. CASE n = 0
  <2>1. q # 0 /\ after = Flat
    BY <1>1, <1>2, <1>10 DEF AfterFill
  <2>2. after.avg_cost = Whole(0)
    BY <2>1 DEF Flat
  <2>3. At(D, Whole(0), 0 * D) /\ 0 * D = 0 /\ Whole(0) \in Fraction
    <3>1. 0 * D = 0 /\ 0 \in Int /\ D \in Int
      OBVIOUS
    <3> QED
      BY <3>1, AtWhole, WholeType
  <2>4. w = 0
    BY <1>3, <2>2, <2>3, AtUnique
  <2> QED
    BY <1>5, <1>6, <1>7, <1>10, <2>4
<1>11. CASE n # 0 /\ (q = 0 \/ (q > 0) = (k > 0))
  <2>1. Realizes(pos, k, price) = Whole(0)
    BY <1>1, <1>11 DEF Realizes
  <2>2. At(D, Whole(0), 0 * D) /\ 0 * D = 0 /\ Whole(0) \in Fraction
    <3>1. 0 * D = 0 /\ 0 \in Int /\ D \in Int
      OBVIOUS
    <3> QED
      BY <3>1, AtWhole, WholeType
  <2>3. z = 0
    BY <1>9, <2>1, <2>2, AtUnique
  <2>4. PICK b \in Int : b = paid * D
    OBVIOUS
  <2>5. PICK x \in Int : x = w * n /\ x = a + b
    BY <1>9, <2>3, <2>4
  <2>6. CASE k > 0
    <3>1. q >= 0 /\ n > 0
      BY <1>2, <1>11, <2>6
    <3>2. a >= 0 /\ b >= 0
      <4>1. a >= 0
        BY <1>4, <1>5, <3>1, ProductSign
      <4>2. paid >= 0
        BY <1>8, <2>6, ProductSign
      <4> QED
        BY <2>4, <4>1, <4>2, ProductSign
    <3>3. w >= 0
      BY <2>5, <3>1, <3>2, ProductSign
    <3>4. b <= extra
      <4>1. paid <= C
        BY <1>1, <1>2, <1>8, <1>11, <2>6
      <4>2. paid * D <= C * D
        BY <4>1, TimesMonotone
      <4> QED
        BY <1>6, <2>4, <4>2
    <3> QED
      BY <1>5, <1>7, <2>5, <3>3, <3>4
  <2>7. CASE k < 0
    <3>1. q <= 0 /\ n < 0
      BY <1>2, <1>11, <2>7
    <3>2. a <= 0 /\ b <= 0
      <4>1. a <= 0
        BY <1>4, <1>5, <3>1, ProductSign
      <4>2. paid <= 0
        BY <1>8, <2>7, ProductSign
      <4>3. D * paid <= 0
        BY <4>2, ProductSign
      <4>4. D * paid = paid * D
        OBVIOUS
      <4> QED
        BY <2>4, <4>1, <4>3, <4>4
    <3>3. w >= 0
      BY <2>5, <3>1, <3>2, ProductSign
    <3> QED
      BY <1>5, <1>6, <1>7, <2>5, <3>2, <3>3
  <2> QED
    BY <2>6, <2>7
<1>12. CASE n # 0 /\ q # 0 /\ (q > 0) # (k > 0)
  <2>1. after.avg_cost = pos.avg_cost
    BY <1>1, <1>2, <1>12 DEF AfterFill
  <2>2. w = v
    BY <1>1, <1>3, <2>1, AtUnique
  <2>3. PICK x \in Int : x = v * n
    OBVIOUS
  <2>4. CASE q > 0
    <3>1. n <= q
      BY <1>2, <1>12, <2>4
    <3>2. n * v <= q * v
      BY <1>5, <3>1, TimesMonotone
    <3>3. n * v = x /\ q * v = a
      BY <1>4, <2>3
    <3> QED
      BY <1>5, <1>6, <1>7, <2>2, <2>3, <3>2, <3>3
  <2>5. CASE q < 0
    <3>1. ~ (q * n < 0)
      BY <1>1, <1>2
    <3>2. n < 0
      <4>1. ASSUME n > 0 PROVE q * n < 0
        <5>1. n * q <= 0 /\ n * q = q * n
          BY <2>5, <4>1, ProductSign
        <5>2. q * n # 0
          BY <2>5, <4>1
        <5> QED
          BY <5>1, <5>2
      <4> QED
        BY <1>12, <3>1, <4>1
    <3>3. x <= 0
      BY <1>5, <2>3, <3>2, ProductSign
    <3> QED
      BY <1>5, <1>6, <1>7, <2>2, <2>3, <3>3
  <2> QED
    BY <1>12, <2>4, <2>5
<1> QED
  BY <1>10, <1>11, <1>12

\* A larger bound is a bound.
LEMMA CappedMore ==
    ASSUME NEW pos \in Position, NEW B \in Int, NEW C \in Int, B <= C, Capped(B, pos)
    PROVE  Capped(C, pos)
<1>1. Cost(pos) \in Fraction
  BY TimesType DEF Cost, Position
<1>2. PICK n \in Int, d \in Nat \ {0} : n = Cost(pos)[1] /\ d = Cost(pos)[2]
  BY <1>1 DEF Fraction
<1>3. B * d <= C * d
  BY TimesMonotone
<1>4. n <= B * d /\ B * d \in Int /\ C * d \in Int
  BY <1>2 DEF Capped, Within
<1> QED
  BY <1>2, <1>3, <1>4 DEF Capped, Within

\* What the entries of a symbol may have cost.
Allowed(s) == PlansFor(s) * MaxOrderNotional

\* CostInv in these terms.
LEMMA CostIs ==
    CostInv <=> /\ phase = "plan" => day > 0
                /\ \A s \in Symbols \ crossed : Capped(Allowed(s), position[s])
  BY DEF CostInv, Capped, Within, Cost, Allowed

\* A limit for each of those plans.
LEMMA AllowedType ==
    ASSUME TypeOK, CostInv, NEW s
    PROVE  PlansFor(s) \in Nat /\ Allowed(s) \in Nat
<1>1. day \in Nat /\ MaxOrderNotional \in Nat
  BY LimitsAssumption DEF TypeOK
<1>2. phase = "plan" => day > 0
  BY DEF CostInv
<1>3. PlansFor(s) \in Nat
  BY <1>1, <1>2 DEF PlansFor
<1> QED
  BY <1>1, <1>3 DEF Allowed

\* The trade of an order: the symbol of the order is capped by what it may add,
\* the others are as before.
LEMMA TradeCapped ==
    ASSUME BrokerTypeOK, NEW o \in OrderRequest, NEW price \in Nat, ApplyFill(o, price),
           NEW s \in Symbols \ crossed', NEW B \in Nat, NEW C \in Nat, Capped(B, position[s]),
           s = o.symbol => \/ Signed(o) < 0
                           \/ position[s].quantity + Signed(o) = 0
                           \/ price * Signed(o) <= C
    PROVE  /\ s \notin crossed
           /\ s = o.symbol => Capped(B + C, position'[s])
           /\ s # o.symbol => position'[s] = position[s]
<1>1. o.symbol \in Symbols /\ Signed(o) \in Int \ {0} /\ position[o.symbol] \in Position
  BY SignedType DEF BrokerTypeOK, OrderRequest
<1>2. /\ position' = [position EXCEPT ![o.symbol] = AfterFill(position[o.symbol], Signed(o), price)]
      /\ crossed' = IF position[o.symbol].quantity * (position[o.symbol].quantity + Signed(o)) < 0
                    THEN crossed \cup {o.symbol} ELSE crossed
  BY DEF ApplyFill
<1>3. s \notin crossed
  BY <1>2
<1>4. CASE s # o.symbol
  BY <1>1, <1>2, <1>3, <1>4 DEF BrokerTypeOK
<1>5. CASE s = o.symbol
  <2>1. position'[s] = AfterFill(position[s], Signed(o), price)
    BY <1>1, <1>2, <1>5 DEF BrokerTypeOK
  <2>2. ~ (position[s].quantity * (position[s].quantity + Signed(o)) < 0)
    BY <1>2, <1>5
  <2>3. Capped(B + C, AfterFill(position[s], Signed(o), price))
    BY <1>1, <1>5, <2>2, CostCapped
  <2> QED
    BY <1>3, <1>5, <2>1, <2>3
<1> QED
  BY <1>4, <1>5

\* No step takes a plan back, and the plan that takes a signal counts for its
\* symbol.
LEMMA PlansGrow ==
    ASSUME TypeOK, CostInv, [Next]_vars, NEW s
    PROVE  /\ phase' = "plan" => day' > 0
           /\ PlansFor(s) \in Nat /\ PlansFor(s)' \in Nat /\ PlansFor(s) <= PlansFor(s)'
           /\ \A g \in Signals : Takes(g) /\ s = g.symbol => PlansFor(s)' = PlansFor(s) + 1
<1>1. day \in Nat /\ PlansFor(s) \in Nat /\ (phase = "plan" => day > 0)
  BY AllowedType DEF TypeOK, CostInv
<1>2. CASE UNCHANGED <<day, phase, seen>>
  BY <1>1, <1>2 DEF PlansFor, Takes
<1>3. CASE StartPlan
  BY <1>1, <1>3 DEF StartPlan, PlansFor, Takes
<1>4. CASE PlanReturns
  BY <1>1, <1>4 DEF PlanReturns, PlansFor, Takes
<1>5. CASE StartEod \/ EodReturns
  BY <1>1, <1>5 DEF StartEod, EodReturns, PlansFor, Takes
<1>6. ASSUME NEW g \in Signals, Takes(g)
      PROVE  /\ phase' = "plan" => day' > 0
             /\ PlansFor(s)' \in Nat /\ PlansFor(s) <= PlansFor(s)'
             /\ \A h \in Signals : Takes(h) /\ s = h.symbol => PlansFor(s)' = PlansFor(s) + 1
  BY <1>1, <1>6 DEF PlansFor, Takes
<1>7. \/ UNCHANGED <<day, phase, seen>>
      \/ StartPlan \/ PlanReturns \/ StartEod \/ EodReturns
      \/ \E g \in Signals : Takes(g)
  <2>1. CASE PlaceLeg \/ RejectLeg \/ ExitFills \/ Kill \/ Resume \/ UNCHANGED vars
    BY <2>1 DEF PlaceLeg, RejectLeg, ExitFills, Kill, Resume, vars, job
  <2>2. ASSUME NEW u \in Symbols, HoldPosition(u) \/ FlattenPosition(u) \/ RejectFlatten(u)
        PROVE  UNCHANGED <<day, phase, seen>>
    BY <2>2 DEF HoldPosition, FlattenPosition, RejectFlatten, Looks
  <2>3. ASSUME NEW u \in Symbols, NEW price \in Quotes, PriceMoves(u, price)
        PROVE  UNCHANGED <<day, phase, seen>>
    BY <2>3 DEF PriceMoves, job
  <2>4. ASSUME NEW g \in Signals, NEW percent \in Multipliers,
               SkipSignal(g, percent) \/ PlaceEntry(g, percent) \/ RejectEntry(g, percent)
        PROVE  Takes(g)
    BY <2>4 DEF SkipSignal, PlaceEntry, RejectEntry
  <2> QED
    BY <2>1, <2>2, <2>3, <2>4, Ending DEF Next, Plan, Eod, Returns
<1> QED
  BY <1>1, <1>2, <1>3, <1>4, <1>5, <1>6, <1>7

\* An entry costs no more than max_order_notional.
LEMMA EntryCost ==
    ASSUME nav \in Int, NEW g \in Signals, NEW percent \in Multipliers, SizeOf(g, percent) > 0
    PROVE  LET o == Entry(g, SizeOf(g, percent))
           IN  /\ o.limit_price # 0 /\ o.symbol = g.symbol
               /\ o.limit_price * Signed(o) <= MaxOrderNotional
<1>1. PICK n \in Nat, entry \in Nat \ {0}, stop \in Nat, risk \in Nat :
         n = nav /\ entry = g.entry /\ stop = g.stop /\ risk = Risk
  <2>1. nav \in Nat
    BY SizeType
  <2>2. g.entry \in Nat \ {0} /\ g.stop \in Nat /\ Risk \in Nat
    BY SignalsAssumption DEF Whole100
  <2> QED
    BY <2>1, <2>2
<1>2. percent \in 0..100
  BY SignalsAssumption
<1>3. PICK q \in Nat : q = SizeOf(g, percent) /\ q * entry <= MaxOrderNotional
  <2>1. SizeOf(g, percent) = Scaled(FixedFractionalSize(n, risk, entry, stop, 1), percent)
    BY <1>1 DEF SizeOf
  <2> QED
    BY <1>2, <2>1, SizedNotional
<1> DEFINE o == Entry(g, q)
<1>4. o.limit_price = entry /\ o.quantity = q /\ o.action = "BUY" /\ o.symbol = g.symbol
  BY <1>1, BracketFields
<1>5. Signed(o) = q
  BY <1>4 DEF Signed
<1>6. o.limit_price * Signed(o) = entry * q /\ entry * q = q * entry
  BY <1>4, <1>5
<1> HIDE DEF o
<1>7. o.limit_price # 0 /\ o.limit_price * Signed(o) <= MaxOrderNotional
  BY <1>3, <1>4, <1>6
<1> QED
  BY <1>3, <1>4, <1>7 DEF o

\* Every step keeps what a position cost within what its plans allow.
LEMMA CostStep ==
    ASSUME IInv, CostInv, BrokerTypeOK', [Next]_vars
    PROVE  CostInv'
<1>1. TypeOK /\ BrokerTypeOK /\ nav \in Int /\ MaxOrderNotional \in Nat
  BY LimitsAssumption DEF IInv, TypeOK
<1>2. \A s \in Symbols \ crossed : Capped(Allowed(s), position[s])
  BY CostIs
<1>3. SUFFICES ASSUME NEW s \in Symbols, s \notin crossed'
               PROVE  Capped(Allowed(s)', position'[s])
  <2>1. phase' = "plan" => day' > 0
    BY <1>1, PlansGrow
  <2>2. CostInv' <=> /\ phase' = "plan" => day' > 0
                     /\ \A s \in Symbols \ crossed' : Capped(Allowed(s)', position'[s])
    BY DEF CostInv, Capped, Within, Cost, Allowed
  <2> QED
    BY <1>3, <2>1, <2>2
<1>4. PICK m, n \in Nat : m = PlansFor(s) /\ n = PlansFor(s)'
  BY <1>1, PlansGrow
<1>5. m <= n
  BY <1>1, <1>4, PlansGrow
<1>6. PICK B, C \in Nat : B = m * MaxOrderNotional /\ C = n * MaxOrderNotional
  BY <1>1
<1>7. B <= C
  BY <1>1, <1>5, <1>6, TimesMonotone
<1>8. Allowed(s) = B /\ Allowed(s)' = C
  BY <1>4, <1>6 DEF Allowed
<1>9. position[s] \in Position /\ position'[s] \in Position
  BY <1>1 DEF BrokerTypeOK
<1>10. ASSUME s \notin crossed, Capped(B, position'[s]) PROVE Capped(C, position'[s])
  BY <1>7, <1>9, <1>10, CappedMore
<1>11. s \notin crossed => Capped(B, position[s])
  BY <1>2, <1>8
<1>12. CASE UNCHANGED <<position, crossed>>
  BY <1>3, <1>8, <1>10, <1>11, <1>12
<1>13. ASSUME NEW g \in Signals, NEW percent \in Multipliers, PlaceEntry(g, percent)
       PROVE  Capped(C, position'[s])
  <2>1. PICK q \in Nat \ {0} : q = SizeOf(g, percent)
    BY <1>1, <1>13, SizeType DEF PlaceEntry
  <2>2. PICK o \in OrderRequest : o = Entry(g, q)
    BY <2>1, BracketTypes
  <2>3. /\ o.limit_price # 0 /\ o.symbol = g.symbol
        /\ o.limit_price * Signed(o) <= MaxOrderNotional
    BY <1>1, <2>1, <2>2, EntryCost
  <2>4. ApplyFill(o, o.limit_price) /\ o.limit_price \in Nat
    BY <1>13, <2>1, <2>2, <2>3 DEF PlaceEntry, PlaceAndFill, OrderRequest
  <2>5. s \notin crossed
    BY <1>3, <2>4 DEF ApplyFill
  <2>6. /\ s = o.symbol => Capped(B + MaxOrderNotional, position'[s])
        /\ s # o.symbol => position'[s] = position[s]
    BY <1>1, <1>3, <1>11, <2>3, <2>4, <2>5, TradeCapped
  <2>7. CASE s = o.symbol
    <3>1. n = m + 1
      BY <1>1, <1>4, <1>13, <2>3, <2>7, PlansGrow DEF PlaceEntry
    <3>2. C = B + MaxOrderNotional
      BY <1>1, <1>6, <3>1
    <3> QED
      BY <2>6, <2>7, <3>2
  <2>8. CASE s # o.symbol
    BY <1>10, <1>11, <2>5, <2>6, <2>8
  <2> QED
    BY <2>7, <2>8
<1>14. ASSUME NEW u \in Symbols, FlattenPosition(u) PROVE Capped(C, position'[s])
  <2>1. /\ position[u].quantity # 0 /\ PlaceAndFill(Flatten(u))
    BY <1>14 DEF FlattenPosition, Looks, IInv, EodInv
  <2>2. PICK o \in OrderRequest : o = Flatten(u) /\ Signed(o) = -position[u].quantity
    BY <1>1, <2>1, FlattenType
  <2>3. o.symbol = u
    BY <2>2 DEF Flatten, Order
  <2>4. PICK price \in Nat : ApplyFill(o, price)
    <3>1. \A v \in Symbols : prices[v] \in Nat
      BY <1>1 DEF BrokerTypeOK
    <3> QED
      BY <2>1, <2>2, <3>1 DEF PlaceAndFill, OrderRequest
  <2>5. s \notin crossed
    BY <1>3, <2>4 DEF ApplyFill
  <2>6. s = o.symbol => position[s].quantity + Signed(o) = 0
    BY <1>9, <2>2, <2>3 DEF Position
  <2>7. /\ s = o.symbol => Capped(B + 0, position'[s])
        /\ s # o.symbol => position'[s] = position[s]
    BY <1>1, <1>3, <1>11, <2>4, <2>5, <2>6, TradeCapped
  <2>8. B + 0 = B
    OBVIOUS
  <2> QED
    BY <1>10, <1>11, <2>5, <2>7, <2>8
<1>15. CASE ExitFills
  <2>1. FillChild /\ sweep # {}
    BY <1>15 DEF ExitFills, FillChild
  <2>2. PICK i \in pending : ApplyFill(requests[i], prices[requests[i].symbol])
    BY <2>1 DEF FillChild
  <2>3. PICK o \in OrderRequest : o = requests[i] /\ o.action = "SELL"
    <3>1. i \in Ids /\ requests[i] \in OrderRequest
      BY <1>1, <2>2, IdsType DEF BrokerTypeOK
    <3>2. requests[i].action = "SELL"
      BY <2>2 DEF IInv, ExitsInv, IsExit
    <3> QED
      BY <3>1, <3>2
  <2>4. PICK price \in Nat : ApplyFill(o, price)
    BY <1>1, <2>2, <2>3 DEF BrokerTypeOK, OrderRequest
  <2>5. Signed(o) < 0
    BY <2>3 DEF Signed, OrderRequest
  <2>6. s \notin crossed
    BY <1>3, <2>4 DEF ApplyFill
  <2>7. /\ s = o.symbol => Capped(B + 0, position'[s])
        /\ s # o.symbol => position'[s] = position[s]
    BY <1>1, <1>3, <1>11, <2>4, <2>5, <2>6, TradeCapped
  <2>8. B + 0 = B
    OBVIOUS
  <2> QED
    BY <1>8, <1>10, <1>11, <2>6, <2>7, <2>8
<1>16. ASSUME NEW u \in Symbols, NEW price \in Quotes, PriceMoves(u, price)
       PROVE  Capped(C, position'[s])
  <2>1. /\ position'[s].avg_cost = position[s].avg_cost
        /\ position'[s].quantity = position[s].quantity
        /\ crossed' = crossed
    BY <1>1, <1>9, <1>16 DEF PriceMoves, SetPrice, BrokerTypeOK
  <2>2. Capped(B, position[s])
    BY <1>3, <1>11, <2>1
  <2>3. Capped(B, position'[s])
    BY <2>1, <2>2 DEF Capped, Cost
  <2> QED
    BY <1>3, <1>10, <2>1, <2>3
<1>17. CASE PlaceLeg \/ Quiet \/ Kill
  <2>1. UNCHANGED <<position, crossed>>
    BY <1>17 DEF PlaceLeg, PlaceChild, Quiet, broker, Kill, CancelAll
  <2> QED
    BY <1>12, <2>1
<1> QED
  BY <1>8, <1>12, <1>13, <1>14, <1>15, <1>16, <1>17, Kinds

\* An empty account.
LEMMA CostStarts == Init => CostInv
<1> SUFFICES ASSUME Init PROVE CostInv
  OBVIOUS
<1>1. phase = "night" /\ day = 0 /\ position = [s \in Symbols |-> Flat]
  BY DEF Init, BrokerInit
<1>2. ASSUME NEW s \in Symbols \ crossed PROVE Capped(Allowed(s), position[s])
  <2>1. position[s].avg_cost = Whole(0) /\ position[s].quantity = 0
    BY <1>1 DEF Flat
  <2>2. At(1, Whole(0), 0 * 1) /\ 0 * 1 = 0 /\ Whole(0) \in Fraction
    BY AtWhole, WholeType
  <2>3. At(1, Times(Whole(0), 0), 0 * 0) /\ 0 * 0 = 0 /\ Times(Whole(0), 0) \in Fraction
    BY <2>2, AtTimes, TimesType
  <2>4. Allowed(s) = 0
    BY <1>1, LimitsAssumption DEF Allowed, PlansFor
  <2>5. Within(0, Times(Whole(0), 0)) <=> 0 <= 0 * 1
    BY <2>3, WithinAt
  <2>6. Whole(0)[1] = 0
    BY DEF Whole
  <2> QED
    BY <2>1, <2>2, <2>4, <2>5, <2>6 DEF Capped, Cost
<1> QED
  BY <1>1, <1>2, CostIs

\* What a position cost is bounded by the plans run, in every symbol that no
\* trade has carried through zero.
THEOREM CostsAreBounded == Spec => []CostBoundedByPlans
<1>1. IInv /\ IInv' /\ CostInv /\ [Next]_vars => CostInv'
  BY CostStep DEF IInv, TypeOK
<1>2. IInv /\ CostInv => CostBoundedByPlans
  <2> SUFFICES ASSUME IInv, CostInv, NEW s \in Symbols \ crossed
               PROVE  Within(day * MaxOrderNotional, Cost(position[s]))
    BY DEF CostBoundedByPlans, Within, Cost
  <2>1. day \in Nat /\ MaxOrderNotional \in Nat /\ position[s] \in Position /\ TypeOK
    BY LimitsAssumption DEF IInv, TypeOK, BrokerTypeOK
  <2>2. PlansFor(s) \in Nat /\ PlansFor(s) <= day
    BY <2>1, AllowedType DEF PlansFor
  <2>3. PICK B, C \in Nat : B = Allowed(s) /\ C = day * MaxOrderNotional
    BY <2>1, AllowedType
  <2>4. B <= C
    BY <2>1, <2>2, <2>3, TimesMonotone DEF Allowed
  <2>5. Capped(B, position[s])
    BY <2>3, CostIs
  <2> QED
    BY <2>1, <2>3, <2>4, <2>5, CappedMore DEF Capped
<1> QED
  BY <1>1, <1>2, CostStarts, DayInvariance, PTL DEF Spec
=============================================================================
