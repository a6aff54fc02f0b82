--------------------------- MODULE PriceWalkProofs ---------------------------
(***************************************************************************)
(* The bounds of the price walk, for every quantity, increment, number of  *)
(* steps, limit of the guard, and bound on kills and failing calls; and of *)
(* the combo orders of options_builder.py that it works, for every chain,  *)
(* wing, bound of liquidity and number of points of the payoff curve.      *)
(***************************************************************************)
EXTENDS PriceWalk, OptionStructures, SequenceTheorems, FiniteSetTheorems, WellFoundedInduction, TLAPS

-----------------------------------------------------------------------------
(* Facts about the data.                                                   *)

\* What the guard admits is within the limits, and the switch is not thrown.
LEMMA AdmittedIsWithin ==
    ASSUME limit \in Nat \ {0}, GuardAdmits
    PROVE  ~killed /\ Within(limit)
<1> DEFINE ctx == Context(Nav, 0, TRUE)
<1>1. /\ Quantity \in Nat /\ Nav \in Nat /\ Action \in {"BUY", "SELL"}
      /\ NoPrice \notin Int /\ MaxOrderNotional \in Nat /\ MaxPosition \in Nat
  BY WalkAssumption, LimitsAssumption DEF Whole100
<1>2. ~killed /\ ~NotionalTooLarge(Order, ctx) /\ ~PositionTooLarge(Order, ctx)
  BY DEF GuardAdmits, Admits
<1>3. PriceOf(Order, ctx) = limit
  BY DEF PriceOf, Order
<1>8. ctx.current_position_notional = 0 /\ ctx.nav = Nav
  BY DEF Context
<1> HIDE DEF ctx
<1>4. Priced(Order, ctx)
  BY <1>1, <1>3 DEF Priced
<1>5. ~IsOption(Order) /\ Order.quantity = Quantity /\ Order.action = Action
  BY DEF IsOption, Order
<1>6. Notional(Order, ctx) = limit * Quantity
  <2>1. Notional(Order, ctx) = limit * Quantity * 1
    BY <1>3, <1>5 DEF Notional
  <2>2. limit * Quantity \in Nat
    BY <1>1
  <2> QED
    BY <2>1, <2>2
<1>7. limit * Quantity <= MaxOrderNotional
  <2>1. ~(limit * Quantity > MaxOrderNotional)
    BY <1>2, <1>4, <1>6 DEF NotionalTooLarge
  <2>2. limit * Quantity \in Nat
    BY <1>1
  <2> QED
    BY <1>1, <2>1, <2>2
<1>9. ASSUME Action = "BUY", Nav > 0
      PROVE  limit * Quantity * Whole100 <= MaxPosition * Nav
  <2>1. ~((0 + limit * Quantity) * Whole100 > MaxPosition * Nav)
    BY <1>2, <1>4, <1>5, <1>6, <1>8, <1>9 DEF PositionTooLarge
  <2> DEFINE cost == limit * Quantity
  <2>2. cost \in Nat
    BY <1>1
  <2>3. MaxPosition * Nav \in Nat
    BY <1>1
  <2>4. ~((0 + cost) * Whole100 > MaxPosition * Nav)
    BY <2>1
  <2> DEFINE bound == MaxPosition * Nav
  <2> HIDE DEF cost, bound
  <2>5. cost * Whole100 <= bound
    BY <2>2, <2>3, <2>4 DEF Whole100, bound
  <2> QED
    BY <2>5 DEF cost, bound
<1> QED
  BY <1>2, <1>7, <1>9 DEF Within

\* A step of the walk leaves a limit that can be walked further.
LEMMA LimitStaysPositive ==
    ASSUME limit \in Nat, steps \in Nat, steps < MaxSteps,
           limit > (MaxSteps - steps) * Increment,
           NEW next, next = (IF Action = "BUY" THEN limit + Increment ELSE limit - Increment)
    PROVE  next \in Nat /\ next > (MaxSteps - (steps + 1)) * Increment
<1> DEFINE left == MaxSteps - (steps + 1)
<1>1. left \in Nat /\ Increment \in Nat \ {0}
  BY WalkAssumption
<1>2. (MaxSteps - steps) * Increment = left * Increment + Increment
  <2>1. MaxSteps - steps = left + 1
    BY WalkAssumption
  <2> HIDE DEF left
  <2> QED
    BY <1>1, <2>1
<1> DEFINE room == left * Increment
<1>3. room \in Nat
  BY <1>1
<1>4. limit > room + Increment
  BY <1>2
<1> HIDE DEF room
<1>5. next \in Nat /\ next > room
  BY <1>1, <1>3, <1>4
<1> QED
  BY <1>5 DEF room

\* Changing one order to another of its type keeps the sequence, its length and
\* the other orders.
LEMMA OneOrderChanges ==
    ASSUME orders \in Seq(SentOrder), NEW i \in Ids, NEW e \in SentOrder,
           orders' = [orders EXCEPT ![i] = e]
    PROVE  /\ orders' \in Seq(SentOrder)
           /\ Last' = Last
           /\ Ids' = Ids
           /\ \A j \in Ids : orders'[j] = IF j = i THEN e ELSE orders[j]
<1>1. Ids = 1..Len(orders)
  BY LenProperties DEF Ids
<1>2. /\ orders' \in Seq(SentOrder)
      /\ Len(orders') = Len(orders)
      /\ \A j \in 1..Len(orders) : orders'[j] = IF j = i THEN e ELSE orders[j]
  BY <1>1, ExceptSeq
<1>3. Ids' = 1..Len(orders')
  BY <1>2, LenProperties DEF Ids
<1> QED
  BY <1>1, <1>2, <1>3 DEF Last

-----------------------------------------------------------------------------
(* The invariant.                                                          *)

LEMMA InitWalk == Init => WalkIInv
<1> SUFFICES ASSUME Init PROVE WalkIInv
  OBVIOUS
<1> USE WalkAssumption DEF Init
<1>1. Ids = {} /\ Last = 0 /\ Unasked = {}
  BY DEF Ids, Last, Unasked
<1>2. limit \in Nat /\ limit > MaxSteps * Increment
  OBVIOUS
<1>3. TypeOK
  <2>1. orders \in Seq(SentOrder) /\ fills \in Seq(0..1) /\ Len(fills) = Last
    BY <1>1, EmptySeq
  <2>2. MaxSteps \in Nat /\ MaxKills \in Nat /\ MaxFaults \in Nat
    OBVIOUS
  <2>3. steps \in 0..MaxSteps /\ kills \in 0..MaxKills /\ faults \in 0..MaxFaults /\ Last <= MaxSteps + 1
    BY <1>1, <2>2
  <2> HIDE WalkAssumption
  <2>4. pc \in Running \cup Ended /\ killed \in BOOLEAN /\ late \subseteq Ids
    BY DEF Running
  <2> QED
    BY <1>2, <2>1, <2>3, <2>4 DEF TypeOK
<1>4. WalkInv
  <2>1. MaxSteps - steps = MaxSteps
    OBVIOUS
  <2> QED
    BY <1>1, <1>2, <2>1 DEF WalkInv, Between
<1> QED
  BY <1>1, <1>3, <1>4 DEF WalkIInv, OneOrderUnasked, EveryStepChecked, KillStopsWalk

\* Steps that leave the orders alone.
LEMMA QuietSteps ==
    ASSUME WalkIInv, UNCHANGED <<orders, limit, steps, switch, fills, late>>,
           Check \/ Reject \/ Look \/ Finish \/ Again
    PROVE  WalkIInv'
<1> USE WalkAssumption DEF walk, switch
<1>1. /\ Ids' = Ids /\ Last' = Last /\ Unasked' = Unasked
      /\ pc' \in Running \cup Ended /\ status' \in {"none", "open", "filled"}
      /\ faults' = faults
  BY DEF WalkIInv, TypeOK, Ids, Last, Unasked, Check, Reject, Look, Finish, Again, Running, Ended
<1>2. TypeOK'
  BY <1>1 DEF WalkIInv, TypeOK, SentOrder, Last
<1>3. EveryStepChecked' /\ KillStopsWalk' /\ OneOrderUnasked'
  BY <1>1 DEF WalkIInv, EveryStepChecked, KillStopsWalk, OneOrderUnasked, Within
<1>4. limit \in Nat \ {0}
  <2>1. MaxSteps - steps \in Nat /\ Increment \in Nat
    BY DEF WalkIInv, TypeOK
  <2>2. (MaxSteps - steps) * Increment \in Nat
    BY <2>1
  <2> QED
    BY <2>2 DEF WalkIInv, TypeOK, WalkInv
<1>5. WalkInv'
  <2>1. CASE Check
    BY <2>1, <1>1, <1>4, AdmittedIsWithin DEF Check, WalkIInv, WalkInv, Between, Within, KillStopsWalk
  <2>2. CASE Reject
    BY <2>2, <1>1 DEF Reject, WalkIInv, WalkInv, Between
  <2>3. CASE Look
    BY <2>3, <1>1 DEF Look, WalkIInv, WalkInv, Between
  <2>4. CASE Finish
    BY <2>4, <1>1 DEF Finish, WalkIInv, WalkInv, Between
  <2>5. CASE Again
    BY <2>5, <1>1 DEF Again, WalkIInv, WalkInv, Between
  <2> QED
    BY <2>1, <2>2, <2>3, <2>4, <2>5
<1> QED
  BY <1>2, <1>3, <1>5 DEF WalkIInv

\* The walk sends an order: nothing else was left unasked.
LEMMA SendStep == ASSUME WalkIInv, Send PROVE WalkIInv'
<1> DEFINE new == [limit |-> limit, traded |-> 0, state |-> "working", asked |-> FALSE]
<1> USE WalkAssumption DEF switch
<1>1. new \in SentOrder
  BY DEF WalkIInv, TypeOK, SentOrder
<1>2. /\ orders' = Append(orders, new) /\ fills' = Append(fills, 0)
      /\ pc = "send" /\ pc' = "look"
      /\ late' = IF killed THEN late \cup {Last + 1} ELSE late
      /\ UNCHANGED <<limit, steps, status, killed, kills, faults>>
  BY DEF Send
<1> HIDE DEF new
<1>3. orders \in Seq(SentOrder) /\ fills \in Seq(0..1) /\ Len(fills) = Last
  BY DEF WalkIInv, TypeOK
<1>4. /\ orders' \in Seq(SentOrder) /\ Len(orders') = Len(orders) + 1
      /\ \A i \in 1..Len(orders) : orders'[i] = orders[i]
      /\ orders'[Len(orders) + 1] = new
  BY <1>1, <1>2, <1>3, AppendProperties
<1>5. fills' \in Seq(0..1) /\ Len(fills') = Len(fills) + 1
  <2>1. 0 \in 0..1
    OBVIOUS
  <2> QED
    BY <1>2, <1>3, <2>1, AppendProperties
<1>6. Last \in Nat /\ Last' = Last + 1 /\ Ids = 1..Last /\ Ids' = 1..(Last + 1)
  BY <1>3, <1>4, LenProperties DEF Last, Ids
<1>7. Unasked = {} /\ Last = steps /\ late = {} /\ Within(limit) /\ steps \in 0..MaxSteps
  BY <1>2 DEF WalkIInv, TypeOK, WalkInv, Between
<1>8. Unasked' \subseteq {Last'}
  BY <1>4, <1>6, <1>7 DEF Unasked, Last
<1>9. TypeOK'
  BY <1>2, <1>3, <1>4, <1>5, <1>6, <1>7 DEF WalkIInv, TypeOK, Running, Last
<1>10. WalkInv'
  BY <1>2, <1>6, <1>7 DEF WalkIInv, WalkInv, Between
<1>11. EveryStepChecked'
  <2>1. new.limit = limit
    BY DEF new
  <2>2. \A i \in Ids' : i \in Ids \/ i = Last + 1
    BY <1>6
  <2>3. \A i \in Ids : Within(orders[i].limit)
    BY DEF WalkIInv, EveryStepChecked
  <2> QED
    BY <1>4, <1>6, <1>7, <2>1, <2>2, <2>3 DEF EveryStepChecked, Within, Last
<1>12. KillStopsWalk'
  <2>1. CASE killed
    <3>1. late' = {Last'}
      BY <2>1, <1>2, <1>6, <1>7
    <3>2. Cardinality(late') = 1
      BY <3>1, <1>6, FS_Singleton
    <3> QED
      BY <3>1, <3>2, <1>8 DEF KillStopsWalk
  <2>2. CASE ~killed
    BY <2>2, <1>2 DEF KillStopsWalk
  <2> QED
    BY <2>1, <2>2
<1> QED
  BY <1>8, <1>9, <1>10, <1>11, <1>12 DEF WalkIInv, OneOrderUnasked

\* What a step that changes orders in place keeps: it asks, never un-asks, and
\* leaves their limits.
LEMMA InPlace ==
    ASSUME WalkIInv, orders' \in Seq(SentOrder), Last' = Last, Ids' = Ids,
           \A i \in Ids : /\ orders'[i].limit = orders[i].limit
                          /\ orders[i].asked => orders'[i].asked
    PROVE  Unasked' \subseteq Unasked /\ EveryStepChecked'
<1>1. \A i \in Ids : ~orders'[i].asked => ~orders[i].asked
  OBVIOUS
<1>2. Unasked' \subseteq Unasked
  BY <1>1 DEF Unasked
<1>3. EveryStepChecked'
  BY DEF WalkIInv, EveryStepChecked, Within
<1> QED
  BY <1>2, <1>3

\* Trade, CancelArrives: an order changes and nothing else does.
LEMMA MarketStep ==
    ASSUME WalkIInv, NEW i \in Ids, Trade(i) \/ CancelArrives(i)
    PROVE  WalkIInv'
<1> USE WalkAssumption DEF walk, switch
<1>1. orders \in Seq(SentOrder) /\ Ids = 1..Last /\ orders[i] \in SentOrder
  BY LenProperties, ElementOfSeq DEF WalkIInv, TypeOK, Ids, Last
<1>2. \E e \in SentOrder : /\ orders' = [orders EXCEPT ![i] = e]
                           /\ e.limit = orders[i].limit /\ e.asked = orders[i].asked
  <2>1. CASE Trade(i)
    <3>1. PICK amount \in 1..(Quantity - orders[i].traded) :
             orders' = [orders EXCEPT
                          ![i].traded = @ + amount,
                          ![i].state = IF orders[i].traded + amount = Quantity THEN "filled" ELSE @]
      BY <2>1 DEF Trade
    <3> DEFINE e == [orders[i] EXCEPT
                        !.traded = @ + amount,
                        !.state = IF orders[i].traded + amount = Quantity THEN "filled" ELSE @]
    <3>2. e \in SentOrder /\ e.limit = orders[i].limit /\ e.asked = orders[i].asked
      <4>1. Quantity \in Nat
        OBVIOUS
      <4>2. orders[i].traded \in 0..Quantity
        BY <1>1 DEF SentOrder
      <4>3. orders[i].traded + amount \in 0..Quantity
        BY <4>1, <4>2
      <4>4. e = [orders[i] EXCEPT !.traded = orders[i].traded + amount, !.state = e.state]
        BY <1>1 DEF SentOrder
      <4>5. e.state \in {"working", "filled", "cancelled"}
        BY <1>1 DEF SentOrder
      <4> HIDE DEF e
      <4> QED
        BY <1>1, <4>3, <4>4, <4>5 DEF SentOrder
    <3>3. orders' = [orders EXCEPT ![i] = e]
      BY <1>1, <3>1 DEF SentOrder
    <3> QED
      BY <3>2, <3>3
  <2>2. CASE CancelArrives(i)
    <3> DEFINE e == [orders[i] EXCEPT !.state = "cancelled"]
    <3>1. e \in SentOrder /\ e.limit = orders[i].limit /\ e.asked = orders[i].asked
      BY <1>1 DEF SentOrder
    <3>2. orders' = [orders EXCEPT ![i] = e]
      BY <2>2 DEF CancelArrives
    <3> QED
      BY <3>1, <3>2
  <2> QED
    BY <2>1, <2>2
<1>3. PICK e \in SentOrder : /\ orders' = [orders EXCEPT ![i] = e]
                             /\ e.limit = orders[i].limit /\ e.asked = orders[i].asked
  BY <1>2
<1>4. UNCHANGED <<pc, limit, steps, status, killed, kills, faults, fills, late>>
  BY DEF Trade, CancelArrives
<1>5. /\ orders' \in Seq(SentOrder) /\ Last' = Last /\ Ids' = Ids
      /\ \A j \in Ids : orders'[j] = IF j = i THEN e ELSE orders[j]
  BY <1>1, <1>3, OneOrderChanges
<1>6. Unasked' \subseteq Unasked /\ EveryStepChecked'
  BY <1>3, <1>5, InPlace
<1>7. TypeOK'
  BY <1>4, <1>5 DEF WalkIInv, TypeOK
<1>8. WalkInv' /\ OneOrderUnasked' /\ KillStopsWalk'
  BY <1>4, <1>5, <1>6 DEF WalkIInv, WalkInv, Between, OneOrderUnasked, KillStopsWalk, Within
<1> QED
  BY <1>6, <1>7, <1>8 DEF WalkIInv

\* The walk asks for the last order to be cancelled and moves its limit.
LEMMA CancelStep == ASSUME WalkIInv, Cancel PROVE WalkIInv'
<1> USE WalkAssumption DEF switch
<1> DEFINE e == [orders[Last] EXCEPT !.asked = TRUE]
<1>1. /\ pc = "cancel" /\ Last = steps + 1 /\ steps \in 0..MaxSteps /\ steps < MaxSteps
      /\ limit \in Nat /\ limit > (MaxSteps - steps) * Increment
      /\ Unasked \subseteq {Last} /\ orders \in Seq(SentOrder)
  BY DEF Cancel, WalkIInv, TypeOK, WalkInv, OneOrderUnasked
<1>2. Ids = 1..Last /\ Last \in Ids
  BY <1>1, LenProperties DEF Ids, Last
<1>3. orders[Last] \in SentOrder
  BY <1>1, <1>2, ElementOfSeq DEF Last
<1>4. e \in SentOrder /\ e.limit = orders[Last].limit /\ e.asked = TRUE
  BY <1>3 DEF SentOrder
<1>5. orders' = [orders EXCEPT ![Last] = e]
  BY DEF Cancel
<1> HIDE DEF e
<1>6. /\ orders' \in Seq(SentOrder) /\ Last' = Last /\ Ids' = Ids
      /\ \A j \in Ids : orders'[j] = IF j = Last THEN e ELSE orders[j]
  BY <1>1, <1>2, <1>4, <1>5, OneOrderChanges
<1>7. Unasked' \subseteq Unasked /\ EveryStepChecked'
  BY <1>4, <1>6, InPlace
<1>8. Unasked' = {}
  BY <1>1, <1>2, <1>4, <1>6, <1>7 DEF Unasked
<1>9. limit' \in Nat /\ limit' > (MaxSteps - steps') * Increment /\ steps' = steps + 1
  BY <1>1, LimitStaysPositive DEF Cancel
<1>10. pc' = "check" /\ UNCHANGED <<status, killed, kills, faults, fills, late>>
  BY DEF Cancel
<1>11. TypeOK'
  <2>1. steps' \in 0..MaxSteps
    BY <1>1, <1>9
  <2>2. limit' \in Nat
    BY <1>9
  <2> QED
    BY <1>6, <1>10, <2>1, <2>2 DEF WalkIInv, TypeOK, Running
<1>12. WalkInv' /\ OneOrderUnasked' /\ KillStopsWalk'
  BY <1>1, <1>6, <1>8, <1>9, <1>10 DEF WalkIInv, WalkInv, Between, OneOrderUnasked, KillStopsWalk
<1> QED
  BY <1>7, <1>11, <1>12 DEF WalkIInv

\* The kill asks for every order to be cancelled.
LEMMA KillStep == ASSUME WalkIInv, Kill PROVE WalkIInv'
<1> USE WalkAssumption DEF walk
<1>1. /\ orders \in Seq(SentOrder) /\ Ids = 1..Last /\ Last \in Nat
      /\ \A i \in Ids : orders[i] \in SentOrder
  BY LenProperties, ElementOfSeq DEF WalkIInv, TypeOK, Ids, Last
<1>2. /\ orders' = [i \in Ids |-> [orders[i] EXCEPT !.asked = TRUE]]
      /\ killed' = TRUE /\ kills' \in 0..MaxKills
      /\ UNCHANGED <<pc, limit, steps, status, faults, fills, late>>
  BY DEF Kill, WalkIInv, TypeOK
<1>3. \A i \in Ids : /\ [orders[i] EXCEPT !.asked = TRUE] \in SentOrder
                     /\ orders'[i].limit = orders[i].limit /\ orders'[i].asked
  BY <1>1, <1>2 DEF SentOrder
<1>4. orders' \in [1..Last -> SentOrder]
  BY <1>1, <1>2, <1>3
<1>5. orders' \in Seq(SentOrder) /\ Last' = Last
  BY <1>1, <1>4, SeqDef DEF Last
<1>6. Ids' = Ids
  BY <1>1, <1>2 DEF Ids
<1>7. Unasked' = {} /\ EveryStepChecked'
  BY <1>3, <1>5, <1>6, InPlace DEF Unasked
<1>8. late \subseteq {Last} /\ Cardinality(late) <= 1
  <2>1. late \subseteq {Last}
    BY DEF WalkIInv, WalkInv
  <2>2. Cardinality({}) = 0 /\ Cardinality({Last}) = 1
    BY FS_EmptySet, FS_Singleton
  <2>3. late = {} \/ late = {Last}
    BY <2>1
  <2>4. Cardinality(late) = 0 \/ Cardinality(late) = 1
    BY <2>2, <2>3, Zenon
  <2> QED
    BY <2>1, <2>4
<1>9. TypeOK'
  BY <1>2, <1>5, <1>6 DEF WalkIInv, TypeOK
<1>10. WalkInv' /\ OneOrderUnasked' /\ KillStopsWalk'
  BY <1>2, <1>5, <1>6, <1>7, <1>8 DEF WalkIInv, WalkInv, Between, OneOrderUnasked, KillStopsWalk, Within
<1> QED
  BY <1>7, <1>9, <1>10 DEF WalkIInv

\* A call raises, or the tracker records a fill: the orders stay.
LEMMA OtherSteps ==
    ASSUME WalkIInv, CallRaises \/ (\E i \in Ids : Record(i)) \/ UNCHANGED vars
    PROVE  WalkIInv'
<1> USE WalkAssumption DEF walk, switch, vars
<1>1. /\ UNCHANGED <<orders, limit, steps, status, killed, kills, late>>
      /\ pc' = pc \/ (pc \in {"send", "cancel"} /\ pc' = "raised")
      /\ faults' \in 0..MaxFaults
  BY DEF CallRaises, Record, WalkIInv, TypeOK
<1>2. Ids' = Ids /\ Last' = Last /\ Unasked' = Unasked
  BY <1>1 DEF Ids, Last, Unasked
<1>3. fills' \in Seq(0..1) /\ Len(fills') = Last
  <2>1. fills \in Seq(0..1) /\ Len(fills) = Last /\ orders \in Seq(SentOrder)
    BY DEF WalkIInv, TypeOK
  <2>2. CASE \E i \in Ids : Record(i)
    <3>1. PICK i \in Ids : fills' = [fills EXCEPT ![i] = 1]
      BY <2>2 DEF Record
    <3>2. i \in 1..Len(fills)
      BY <2>1, LenProperties DEF Ids, Last
    <3>3. 1 \in 0..1
      OBVIOUS
    <3> QED
      BY <2>1, <3>1, <3>2, <3>3, ExceptSeq
  <2>3. CASE CallRaises \/ UNCHANGED vars
    BY <2>1, <2>3 DEF CallRaises
  <2> QED
    BY <2>2, <2>3
<1>4. TypeOK'
  BY <1>1, <1>2, <1>3 DEF WalkIInv, TypeOK, Running, Ended
<1>5. WalkInv' /\ OneOrderUnasked' /\ EveryStepChecked' /\ KillStopsWalk'
  BY <1>1, <1>2 DEF WalkIInv, WalkInv, Between, OneOrderUnasked, EveryStepChecked, KillStopsWalk, Within
<1> QED
  BY <1>4, <1>5 DEF WalkIInv

\* Every step keeps the part of the invariant that is about the walk.
LEMMA WalkSteps == WalkIInv /\ [Next]_vars => WalkIInv'
<1> SUFFICES ASSUME WalkIInv, [Next]_vars PROVE WalkIInv'
  OBVIOUS
<1>1. CASE Check \/ Reject \/ Look \/ Finish \/ Again
  <2>1. UNCHANGED <<orders, limit, steps, switch, fills, late>>
    BY <1>1 DEF Check, Reject, Look, Finish, Again
  <2> QED
    BY <1>1, <2>1, QuietSteps
<1>2. CASE Send
  BY <1>2, SendStep
<1>3. CASE Cancel
  BY <1>3, CancelStep
<1>4. CASE \E i \in Ids : Trade(i) \/ CancelArrives(i)
  BY <1>4, MarketStep
<1>5. CASE Kill
  BY <1>5, KillStep
<1>6. CASE CallRaises \/ (\E i \in Ids : Record(i)) \/ UNCHANGED vars
  BY <1>6, OtherSteps
<1> QED
  BY <1>1, <1>2, <1>3, <1>4, <1>5, <1>6 DEF Next, Walk

-----------------------------------------------------------------------------
(* What has traded and what is recorded of it.                             *)

\* The orders as the sequence they are.
LEMMA OrdersTyped ==
    ASSUME TypeOK
    PROVE  /\ Ids = 1..Last /\ Last \in Nat
           /\ \A i \in Ids : orders[i] \in SentOrder /\ fills[i] \in 0..1
           /\ orders \in [Ids -> SentOrder] /\ fills \in [Ids -> 0..1]
<1>1. orders \in Seq(SentOrder) /\ fills \in Seq(0..1) /\ Len(fills) = Last
  BY DEF TypeOK
<1>2. Ids = 1..Last /\ Last \in Nat /\ orders \in [1..Last -> SentOrder]
  BY <1>1, LenProperties DEF Ids, Last
<1>3. fills \in [1..Last -> 0..1]
  BY <1>1, LenProperties
<1> QED
  BY <1>2, <1>3

\* A step that leaves what traded, the states and the record alone.
LEMMA TradesUntouched ==
    ASSUME TradedInv, Ids' = Ids, fills' = fills,
           \A i \in Ids : orders'[i].state = orders[i].state /\ orders'[i].traded = orders[i].traded
    PROVE  TradedInv'
  BY DEF TradedInv

\* An order is full when its last share trades, and from then on it neither
\* trades nor is cancelled.
LEMMA TradedSteps == WalkIInv /\ TradedInv /\ [Next]_vars => TradedInv'
<1> SUFFICES ASSUME WalkIInv, TradedInv, [Next]_vars PROVE TradedInv'
  OBVIOUS
<1>1. /\ Ids = 1..Last /\ Last \in Nat
      /\ \A i \in Ids : orders[i] \in SentOrder /\ fills[i] \in 0..1
      /\ orders \in [Ids -> SentOrder] /\ fills \in [Ids -> 0..1]
  BY OrdersTyped DEF WalkIInv
<1>2. Quantity \in Nat \ {0}
  BY WalkAssumption
<1>3. CASE UNCHANGED <<orders, fills>>
  BY <1>3, TradesUntouched DEF Ids
<1>4. CASE Send
  <2> DEFINE new == [limit |-> limit, traded |-> 0, state |-> "working", asked |-> FALSE]
  <2>1. orders' = Append(orders, new) /\ fills' = Append(fills, 0)
    BY <1>4 DEF Send
  <2>2. new.state = "working" /\ new.traded = 0
    OBVIOUS
  <2> HIDE DEF new
  <2>3. /\ orders \in Seq(SentOrder) /\ fills \in Seq(0..1)
        /\ Len(orders) = Last /\ Len(fills) = Last
    BY DEF WalkIInv, TypeOK, Last
  <2>4. new \in SentOrder
    BY <1>2 DEF new, WalkIInv, TypeOK, SentOrder
  <2>5. /\ orders' \in Seq(SentOrder) /\ Len(orders') = Last + 1
        /\ \A i \in 1..Last : orders'[i] = orders[i]
        /\ orders'[Last + 1] = new
    BY <2>1, <2>3, <2>4, AppendProperties
  <2>6. /\ \A i \in 1..Last : fills'[i] = fills[i]
        /\ fills'[Last + 1] = 0
  <3>1. 0 \in 0..1
    OBVIOUS
  <3> QED
    BY <2>1, <2>3, <3>1, AppendProperties
  <2>7. Ids' = 1..(Last + 1)
    BY <2>5, LenProperties DEF Ids
  <2>8. ASSUME NEW i \in 1..(Last + 1)
        PROVE  /\ orders'[i].state = "filled" <=> orders'[i].traded = Quantity
               /\ fills'[i] = 1 => orders'[i].state = "filled"
    <3>1. CASE i \in 1..Last
      BY <1>1, <2>5, <2>6, <3>1 DEF TradedInv
    <3>2. CASE i = Last + 1
      BY <1>2, <2>2, <2>5, <2>6, <3>2
    <3> QED
      BY <1>1, <3>1, <3>2
  <2> QED
    BY <2>7, <2>8 DEF TradedInv
<1>5. CASE Cancel
  <2>1. orders' = [orders EXCEPT ![Last].asked = TRUE] /\ fills' = fills
    BY <1>5 DEF Cancel
  <2>2. Ids' = Ids
    BY <2>1 DEF Ids
  <2>3. \A i \in Ids : orders'[i].state = orders[i].state /\ orders'[i].traded = orders[i].traded
    BY <1>1, <2>1 DEF SentOrder
  <2> QED
    BY <2>1, <2>2, <2>3, TradesUntouched
<1>6. CASE Kill
  <2>1. orders' = [i \in Ids |-> [orders[i] EXCEPT !.asked = TRUE]] /\ fills' = fills
    BY <1>6 DEF Kill
  <2>2. Ids' = Ids
    BY <2>1 DEF Ids
  <2>3. \A i \in Ids : orders'[i].state = orders[i].state /\ orders'[i].traded = orders[i].traded
    BY <1>1, <2>1 DEF SentOrder
  <2> QED
    BY <2>1, <2>2, <2>3, TradesUntouched
<1>7. ASSUME NEW i \in Ids, Trade(i) PROVE TradedInv'
  <2>1. PICK amount \in 1..(Quantity - orders[i].traded) :
          orders' = [orders EXCEPT
                       ![i].traded = @ + amount,
                       ![i].state = IF orders[i].traded + amount = Quantity THEN "filled" ELSE @]
    BY <1>7 DEF Trade
  <2>2. orders[i].state = "working" /\ fills' = fills
    BY <1>7 DEF Trade, Working
  <2>3. Ids' = Ids
    BY <2>1 DEF Ids
  <2>4. \A k \in Ids \ {i} : orders'[k] = orders[k]
    BY <1>1, <2>1
  <2>5. /\ orders'[i].traded = orders[i].traded + amount
        /\ orders'[i].state = IF orders[i].traded + amount = Quantity THEN "filled" ELSE "working"
    BY <1>1, <2>1, <2>2 DEF SentOrder
  <2>6. orders'[i].state = "filled" <=> orders'[i].traded = Quantity
    BY <2>5
  \* What is still working is not recorded.
  <2>7. fills[i] # 1
    BY <2>2 DEF TradedInv
  <2>8. \A k \in Ids : /\ orders'[k].state = "filled" <=> orders'[k].traded = Quantity
                       /\ fills'[k] = 1 => orders'[k].state = "filled"
    BY <2>2, <2>4, <2>6, <2>7 DEF TradedInv
  <2> QED
    BY <2>3, <2>8 DEF TradedInv
<1>8. ASSUME NEW i \in Ids, CancelArrives(i) PROVE TradedInv'
  <2>1. /\ orders' = [orders EXCEPT ![i].state = "cancelled"] /\ fills' = fills
        /\ orders[i].state = "working"
    BY <1>8 DEF CancelArrives, Working
  <2>2. Ids' = Ids /\ \A k \in Ids \ {i} : orders'[k] = orders[k]
    BY <1>1, <2>1 DEF Ids
  <2>3. orders'[i].state = "cancelled" /\ orders'[i].traded = orders[i].traded
    BY <1>1, <2>1 DEF SentOrder
  <2>4. orders[i].traded # Quantity /\ fills[i] # 1
    BY <2>1 DEF TradedInv
  <2> QED
    BY <2>1, <2>2, <2>3, <2>4 DEF TradedInv
<1>9. ASSUME NEW i \in Ids, Record(i) PROVE TradedInv'
  <2>1. /\ fills' = [fills EXCEPT ![i] = 1] /\ orders' = orders
        /\ orders[i].state = "filled"
    BY <1>9 DEF Record
  <2> QED
    BY <1>1, <2>1 DEF TradedInv, Ids
<1>10. CASE Check \/ Reject \/ Look \/ Finish \/ Again \/ CallRaises \/ UNCHANGED vars
  <2>1. UNCHANGED <<orders, fills>>
    BY <1>10 DEF Check, Reject, Look, Finish, Again, CallRaises, vars
  <2> QED
    BY <1>3, <2>1
<1> QED
  BY <1>4, <1>5, <1>6, <1>7, <1>8, <1>9, <1>10 DEF Next, Walk

-----------------------------------------------------------------------------
(* The theorems.                                                           *)

\* The inductive invariant holds, for any bounds.
THEOREM Invariance == Spec => []IInv
<1>1. Init => IInv
  <2>1. Init => Ids = {}
    BY DEF Init, Ids
  <2> QED
    BY <2>1, InitWalk DEF IInv, TradedInv
<1>2. IInv /\ [Next]_vars => IInv'
  BY WalkSteps, TradedSteps DEF IInv
<1> QED
  BY <1>1, <1>2, PTL DEF Spec

\* Types, and with them the number of orders: never more than the steps and one.
THEOREM TypeCorrect == Spec => []TypeOK
<1>1. IInv => TypeOK
  BY DEF IInv, WalkIInv
<1> QED
  BY Invariance, <1>1, PTL

\* The walk never has two orders in the market that nobody asked to cancel.
THEOREM OneOrderAtATime == Spec => []OneOrderUnasked
<1>1. IInv => OneOrderUnasked
  BY DEF IInv, WalkIInv
<1> QED
  BY Invariance, <1>1, PTL

\* However often the limit is walked, each order was within the guard's limits.
THEOREM WalkStaysWithinLimits == Spec => []EveryStepChecked
<1>1. IInv => EveryStepChecked
  BY DEF IInv, WalkIInv
<1> QED
  BY Invariance, <1>1, PTL

\* After a kill one order more goes out at most, and it is the only one that
\* nobody has asked to cancel.
THEOREM KillBoundsWalk == Spec => []KillStopsWalk
<1>1. IInv => KillStopsWalk
  BY DEF IInv, WalkIInv
<1> QED
  BY Invariance, <1>1, PTL

\* A walk the guard rejects leaves nothing that nobody asked to cancel.
THEOREM RejectionIsClean == Spec => []RejectedLeavesNothing
<1>1. IInv => RejectedLeavesNothing
  BY DEF IInv, WalkIInv, WalkInv, Between, RejectedLeavesNothing
<1> QED
  BY Invariance, <1>1, PTL

\* However orders trade, are cancelled and are reported, the tracker holds of each
\* at most the shares that have traded.
THEOREM FillsAreRecordedOnce == Spec => []FillsRecordedOnce
<1>1. IInv => FillsRecordedOnce
  <2> SUFFICES ASSUME IInv, NEW i \in Ids PROVE fills[i] * Quantity <= orders[i].traded
    BY DEF FillsRecordedOnce
  <2>1. /\ orders[i] \in SentOrder /\ fills[i] \in 0..1 /\ Quantity \in Nat
        /\ fills[i] = 1 => orders[i].traded = Quantity
    BY OrdersTyped, WalkAssumption DEF IInv, WalkIInv, TradedInv
  <2>2. orders[i].traded \in Nat
    BY <2>1 DEF SentOrder
  <2>3. CASE fills[i] = 1
    BY <2>1, <2>2, <2>3
  <2>4. CASE fills[i] = 0
    BY <2>1, <2>2, <2>4
  <2> QED
    BY <2>1, <2>3, <2>4
<1> QED
  BY Invariance, <1>1, PTL

-----------------------------------------------------------------------------
(* The combo orders that a walk works: what options_builder.py makes of a  *)
(* chain of quotes, and what the guard, with the limits of the walk, lets  *)
(* through of it.                                                          *)

-----------------------------------------------------------------------------
(* Sums over the legs and extremes of the curve.                           *)

\* The element that the library's folds take first from a set.
Pick(s) == CHOOSE i \in s : TRUE

Part(f, s, i) == IF i \in s THEN f[i] ELSE 0
Parts(f, s) == Part(f, s, 1) + Part(f, s, 2) + Part(f, s, 3) + Part(f, s, 4)

\* The sum over a set without one of its elements.
LEMMA PartsWithout ==
    ASSUME NEW s \in SUBSET (1..4), NEW f, \A i \in s : f[i] \in Int, NEW p \in s
    PROVE  Parts(f, s) = f[p] + Parts(f, s \ {p})
<1>1. p = 1 \/ p = 2 \/ p = 3 \/ p = 4
  OBVIOUS
<1>2. \A i \in 1..4 : Part(f, s, i) \in Int /\ Part(f, s \ {p}, i) = (IF i = p THEN 0 ELSE Part(f, s, i))
  BY DEF Part
<1>3. Part(f, s, p) = f[p]
  BY DEF Part
<1> QED
  BY <1>1, <1>2, <1>3 DEF Parts

\* The sum over a set of legs is that of its parts.
LEMMA LegSum ==
    ASSUME NEW S \in SUBSET (1..4), NEW f, \A i \in S : f[i] \in Int
    PROVE  SumFunctionOnSet(f, S) = Parts(f, S)
<1> DEFINE Body(g) == [s \in SUBSET S |-> IF s = {} THEN 0 ELSE f[Pick(s)] + g[s \ {Pick(s)}]]
           it == CHOOSE g : g = Body(g)
           h == [s \in SUBSET S |-> Parts(f, s)]
<1>1. ASSUME NEW s \in SUBSET S, s # {}
      PROVE  /\ Pick(s) \in s /\ s \ {Pick(s)} \in SUBSET S
             /\ Parts(f, s) = f[Pick(s)] + Parts(f, s \ {Pick(s)})
  <2>1. Pick(s) \in s
    BY <1>1 DEF Pick
  <2>2. s \in SUBSET (1..4) /\ \A i \in s : f[i] \in Int
    OBVIOUS
  <2> QED
    BY <2>1, <2>2, PartsWithout
<1>2. Parts(f, {}) = 0
  BY DEF Parts, Part
<1>3. h = Body(h)
  BY <1>1, <1>2
<1>4. it = Body(it)
  <2> HIDE DEF Body, h
  <2> QED
    BY <1>3
<1>5. SumFunctionOnSet(f, S) = it[S]
  BY Zenon DEF SumFunctionOnSet, FoldFunctionOnSet, MapThenFoldSet, Pick
<1> HIDE DEF it
<1> DEFINE A == {s \in SUBSET S : it[s] = h[s]}
           Rest(s) == s \ {Pick(s)}
<1>6. ASSUME NEW s \in SUBSET S, s = {} \/ Rest(s) \in A PROVE s \in A
  <2>1. CASE s = {}
    <3>1. it[s] = 0 /\ h[s] = 0
      BY <1>2, <1>4, <2>1
    <3> QED
      BY <3>1
  <2>2. CASE s # {}
    <3>1. it[s] = f[Pick(s)] + it[Rest(s)]
      BY <1>4, <2>2
    <3>2. h[s] = f[Pick(s)] + h[Rest(s)]
      BY <1>1, <2>2
    <3> QED
      BY <1>6, <2>2, <3>1, <3>2
  <2> QED
    BY <2>1, <2>2
<1>7. S \in A
  <2> DEFINE T == Rest(S)
             U == Rest(T)
             V == Rest(U)
  <2>1. \A s \in SUBSET S : Rest(s) \in SUBSET S /\ (s # {} => Pick(s) \in s)
    BY DEF Pick
  <2>2. T \in SUBSET S /\ U \in SUBSET S /\ V \in SUBSET S /\ Rest(V) \in SUBSET S
    BY <2>1
  <2>3. S = {} \/ T = {} \/ U = {} \/ V = {} \/ Rest(V) = {}
    <3>1. SUFFICES ASSUME S # {}, T # {}, U # {}, V # {} PROVE Rest(V) = {}
      OBVIOUS
    <3>2. PICK a, b, c, d \in 1..4 : a = Pick(S) /\ b = Pick(T) /\ c = Pick(U) /\ d = Pick(V)
      BY <2>1, <2>2, <3>1
    <3>3. a \in S /\ b \in S \ {a} /\ c \in (S \ {a}) \ {b} /\ d \in ((S \ {a}) \ {b}) \ {c}
      BY <2>1, <2>2, <3>1, <3>2
    <3>4. Rest(V) = (((S \ {a}) \ {b}) \ {c}) \ {d}
      BY <3>2
    <3>5. \A x \in 1..4 : x = a \/ x = b \/ x = c \/ x = d
      <4>1. a # b /\ a # c /\ a # d /\ b # c /\ b # d /\ c # d
        BY <3>3
      <4> QED
        BY <4>1
    <3> HIDE DEF T, U, V, Rest
    <3> QED
      BY <3>4, <3>5
  <2> HIDE DEF A, Rest, T, U, V
  <2>4. {} \in A
    BY <1>6
  <2> QED
    BY <1>6, <2>2, <2>3, <2>4 DEF T, U, V
<1> QED
  BY <1>5, <1>7

\* A function on finitely many points has a least and a greatest value.
LEMMA Extremes ==
    ASSUME NEW N \in Nat, NEW v, \A i \in 0..N : v[i] \in Int
    PROVE  /\ \E m \in 0..N : \A i \in 0..N : v[m] <= v[i]
           /\ \E m \in 0..N : \A i \in 0..N : v[i] <= v[m]
<1> DEFINE Has(n) == /\ \E m \in 0..n : \A i \in 0..n : v[m] <= v[i]
                     /\ \E m \in 0..n : \A i \in 0..n : v[i] <= v[m]
           R == OpToRel(<, Nat)
           T == {n \in Nat : n <= N /\ ~Has(n)}
<1>1. IsWellFoundedOn(R, Nat) /\ \A x, y \in Nat : <<y, x>> \in R <=> y < x
  BY NatLessThanWellFounded DEF OpToRel
<1> HIDE DEF R
<1>2. SUFFICES ASSUME T # {} PROVE FALSE
  OBVIOUS
<1>3. PICK x \in T : \A y \in T : ~(<<y, x>> \in R)
  <2> HIDE DEF T
  <2>1. T \subseteq Nat
    BY DEF T
  <2> QED
    BY <1>1, <1>2, <2>1, WFMin
<1>4. x \in Nat /\ x <= N /\ ~Has(x)
  OBVIOUS
<1>5. CASE x = 0
  <2>1. 0..x = {0} /\ v[0] <= v[0]
    BY <1>4, <1>5
  <2> QED
    BY <1>4, <2>1
<1>6. CASE x # 0
  <2>1. PICK y \in Nat : y = x - 1
    BY <1>4, <1>6
  <2>2. Has(y)
    <3>1. y < x /\ y <= N
      BY <1>4, <2>1
    <3>2. <<y, x>> \in R
      BY <1>1, <1>4, <3>1
    <3>3. y \notin T
      BY <1>3, <3>2
    <3> HIDE DEF Has
    <3> QED
      BY <3>1, <3>3
  <2>3. PICK m \in 0..y : \A i \in 0..y : v[m] <= v[i]
    BY <2>2
  <2>4. PICK k \in 0..y : \A i \in 0..y : v[i] <= v[k]
    BY <2>2
  <2>5. /\ m \in 0..x /\ k \in 0..x /\ x \in 0..x
        /\ \A i \in 0..x : i \in 0..y \/ i = x
        /\ v[m] \in Int /\ v[k] \in Int /\ v[x] \in Int
        /\ \A i \in 0..x : v[i] \in Int
    BY <1>4, <2>1
  <2>6. \E j \in 0..x : \A i \in 0..x : v[j] <= v[i]
    <3>1. CASE v[m] <= v[x]
      BY <2>3, <2>5, <3>1
    <3>2. CASE v[x] < v[m]
      <4>1. \A i \in 0..x : v[x] <= v[i]
        BY <2>3, <2>5, <3>2
      <4> QED
        BY <2>5, <4>1
    <3> QED
      BY <2>5, <3>1, <3>2
  <2>7. \E j \in 0..x : \A i \in 0..x : v[i] <= v[j]
    <3>1. CASE v[x] <= v[k]
      BY <2>4, <2>5, <3>1
    <3>2. CASE v[k] < v[x]
      <4>1. ASSUME NEW i \in 0..x PROVE v[i] <= v[x]
        <5>1. v[i] \in Int /\ (i = x \/ v[i] <= v[k])
          BY <2>4, <2>5
        <5> QED
          BY <2>5, <3>2, <5>1
      <4> QED
        BY <2>5, <4>1
    <3> QED
      BY <2>5, <3>1, <3>2
  <2> QED
    BY <1>4, <2>6, <2>7
<1> QED
  BY <1>5, <1>6

\* The least and the greatest of a set, by the library's Min and Max.
LEMMA MinIs ==
    ASSUME NEW S \in SUBSET Int, NEW a \in S, \A x \in S : a <= x
    PROVE  Min(S) = a
<1>1. \E x \in S : \A y \in S : x <= y
  OBVIOUS
<1>2. \A x, y \in S : x <= y /\ y <= x => x = y
  OBVIOUS
<1>3. PICK m \in S : m = Min(S) /\ \A y \in S : m <= y
  BY <1>1 DEF Min
<1> QED
  BY <1>2, <1>3

\* The same of the greatest.
LEMMA MaxIs ==
    ASSUME NEW S \in SUBSET Int, NEW a \in S, \A x \in S : x <= a
    PROVE  Max(S) = a
<1>1. \E x \in S : \A y \in S : x >= y
  OBVIOUS
<1>2. \A x, y \in S : x >= y /\ y >= x => x = y
  OBVIOUS
<1>3. PICK m \in S : m = Max(S) /\ \A y \in S : m >= y
  BY <1>1 DEF Max
<1> QED
  BY <1>2, <1>3

\* The greater of two.
LEMMA MaxOfTwo ==
    ASSUME NEW a \in Int, NEW b \in Int
    PROVE  Max({a, b}) = IF a <= b THEN b ELSE a
<1>1. CASE a <= b
  <2>1. {a, b} \in SUBSET Int /\ b \in {a, b} /\ \A x \in {a, b} : x <= b
    BY <1>1
  <2> QED
    BY <1>1, <2>1, MaxIs
<1>2. CASE b < a
  <2>1. {a, b} \in SUBSET Int /\ a \in {a, b} /\ \A x \in {a, b} : x <= a
    BY <1>2
  <2> QED
    BY <1>2, <2>1, MaxIs
<1> QED
  BY <1>1, <1>2

\* The greatest of three.
LEMMA MaxOfThree ==
    ASSUME NEW a \in Int, NEW b \in Int, NEW c \in Int
    PROVE  /\ Max({a, b, c}) \in {a, b, c}
           /\ a <= Max({a, b, c}) /\ b <= Max({a, b, c}) /\ c <= Max({a, b, c})
<1> DEFINE S == {a, b, c}
<1>1. S \in SUBSET Int /\ a \in S /\ b \in S /\ c \in S
  OBVIOUS
<1>2. PICK m \in S : a <= m /\ b <= m /\ c <= m
  OBVIOUS
<1>3. \A x \in S : x <= m
  BY <1>2
<1>4. Max(S) = m
  <2> HIDE DEF S
  <2> QED
    BY <1>1, <1>3, MaxIs
<1> QED
  BY <1>2, <1>4

-----------------------------------------------------------------------------
(* The payoff of the legs.                                                 *)

\* The legs of a candidate are quotes of a chain, each once.
LEMMA LegFacts ==
    ASSUME chain \in Chains, NEW n \in 1..4, HasLegs(n), NEW i \in 1..n
    PROVE  /\ DOMAIN legs = 1..n /\ 1..n \in SUBSET (1..4)
           /\ legs[i].ratio = 1 /\ legs[i].action \in {"BUY", "SELL"}
           /\ legs[i].quote \in chain /\ legs[i].quote \in Quote
           /\ legs[i].quote.strike \in Nat \ {0} /\ legs[i].quote.right \in {"C", "P"}
           /\ legs[i].quote.strike % 20 = 0
           /\ Mid2(legs[i].quote) \in Nat
           /\ Side(legs[i]) \in {-1, 1}
<1>1. /\ DOMAIN legs = 1..n /\ 1..n \in SUBSET (1..4)
      /\ legs[i].ratio = 1 /\ legs[i].action \in {"BUY", "SELL"} /\ legs[i].quote \in chain
  BY DEF HasLegs
<1>2. legs[i].quote \in Quote /\ legs[i].quote.strike % 20 = 0
  BY <1>1, ChainsAssumption
<1>3. /\ legs[i].quote.strike \in Nat \ {0} /\ legs[i].quote.right \in {"C", "P"}
      /\ legs[i].quote.bid \in Nat /\ legs[i].quote.ask \in Nat
  BY <1>2 DEF Quote
<1> QED
  BY <1>1, <1>2, <1>3 DEF Mid2, Side

\* What a bought share of a quote is worth at expiration.
LEMMA IntrinsicIs ==
    ASSUME NEW q \in Quote, NEW price \in Int, NEW k \in Int,
           k = q.strike * SampleSteps
    PROVE  /\ q.right = "C" => Intrinsic(q, price) = IF price > k THEN price - k ELSE 0
           /\ q.right = "P" => Intrinsic(q, price) = IF price < k THEN k - price ELSE 0
<1>1. PICK a, b \in Int : a = price - k /\ b = k - price
  OBVIOUS
<1>2. Max({0, a}) = IF 0 <= a THEN a ELSE 0
  BY MaxOfTwo
<1>3. Max({0, b}) = IF 0 <= b THEN b ELSE 0
  BY MaxOfTwo
<1>4. /\ q.right = "C" => Intrinsic(q, price) = Max({0, a})
      /\ q.right = "P" => Intrinsic(q, price) = Max({0, b})
  BY <1>1 DEF Intrinsic
<1> QED
  BY <1>1, <1>2, <1>3, <1>4

\* The share of a leg in the payoff.
Value(i, price) == Side(legs[i]) * Intrinsic(legs[i].quote, price)

\* The sums over the legs are integers.
LEMMA PayoffIs ==
    ASSUME chain \in Chains, NEW n \in 1..4, HasLegs(n), NEW price \in Int
    PROVE  /\ NetPrice2 \in Int /\ SampleSteps * NetPrice2 \in Int
           /\ Payoff(price) \in Int
           /\ \A i \in 1..n : Value(i, price) \in Int
           /\ Payoff(price) = 2 * Parts([i \in 1..n |-> Value(i, price)], 1..n)
                                       - SampleSteps * NetPrice2
<1>0. SampleSteps \in Nat \ {0} /\ DOMAIN legs = 1..n /\ 1..n \in SUBSET (1..4)
  BY LegFacts, SettingsAssumption DEF HasLegs
<1>1. ASSUME NEW i \in 1..n
      PROVE  /\ Side(legs[i]) * Mid2(legs[i].quote) * legs[i].ratio \in Int
             /\ Value(i, price) \in Int
             /\ Side(legs[i]) * Intrinsic(legs[i].quote, price) * legs[i].ratio = Value(i, price)
  <2>1. /\ legs[i].ratio = 1 /\ Side(legs[i]) \in Int /\ Mid2(legs[i].quote) \in Int
        /\ legs[i].quote \in Quote /\ legs[i].quote.strike \in Nat
        /\ legs[i].quote.right \in {"C", "P"}
    BY LegFacts
  <2>2. PICK k \in Int : k = legs[i].quote.strike * SampleSteps
    BY <1>0, <2>1
  <2>3. Intrinsic(legs[i].quote, price) \in Int
    BY <2>1, <2>2, IntrinsicIs
  <2> QED
    BY <2>1, <2>3 DEF Value
<1> DEFINE f == [i \in 1..n |-> Side(legs[i]) * Mid2(legs[i].quote) * legs[i].ratio]
           g == [i \in 1..n |-> Value(i, price)]
<1>2. NetPrice2 = Parts(f, 1..n)
  <2>1. NetPrice2 = SumFunctionOnSet(f, 1..n)
    BY <1>0, Zenon DEF NetPrice2, SumFunction
  <2>2. \A i \in 1..n : f[i] \in Int
    BY <1>1
  <2> HIDE DEF f
  <2> QED
    BY <1>0, <2>1, <2>2, LegSum
<1>3. \A e : (\A i \in 1..n : e[i] \in Int) => Parts(e, 1..n) \in Int
  BY DEF Parts, Part
<1>4. NetPrice2 \in Int
  <2>1. \A i \in 1..n : f[i] \in Int
    BY <1>1
  <2> HIDE DEF f
  <2> QED
    BY <1>2, <1>3, <2>1
<1>5. Payoff(price) = 2 * Parts(g, 1..n) - SampleSteps * NetPrice2
  <2> DEFINE e == [i \in DOMAIN legs |->
                      Side(legs[i]) * Intrinsic(legs[i].quote, price) * legs[i].ratio]
  <2>1. Payoff(price) = 2 * SumFunction(e) - SampleSteps * NetPrice2
    BY DEF Payoff
  <2>2. e = g
    BY <1>0, <1>1
  <2>3. DOMAIN g = 1..n /\ \A i \in 1..n : g[i] \in Int
    BY <1>1
  <2> HIDE DEF g, e
  <2>4. SumFunction(g) = SumFunctionOnSet(g, 1..n)
    BY <2>3, Zenon DEF SumFunction
  <2>5. SumFunctionOnSet(g, 1..n) = Parts(g, 1..n)
    BY <1>0, <2>3, LegSum
  <2> QED
    BY <2>1, <2>2, <2>4, <2>5
<1>6. Parts(g, 1..n) \in Int
  <2>1. \A i \in 1..n : g[i] \in Int
    BY <1>1
  <2> HIDE DEF g
  <2> QED
    BY <1>3, <2>1
<1>7. SampleSteps * NetPrice2 \in Int
  BY <1>0, <1>4
<1> QED
  BY <1>1, <1>4, <1>5, <1>6, <1>7

\* So is the net price.
LEMMA NetIs ==
    ASSUME chain \in Chains, NEW n \in 1..4, HasLegs(n)
    PROVE  NetPrice2 \in Int
<1>1. PICK price \in Int : price = 0
  OBVIOUS
<1>2. NetPrice2 \in Int /\ Payoff(price) \in Int
  BY PayoffIs
<1> QED
  BY <1>2

-----------------------------------------------------------------------------
(* The curve and its extremes.                                             *)

\* The points of the curve.
Point(i) == PriceRange[1] * SampleSteps + i * (PriceRange[2] - PriceRange[1])

\* The range of the prices covers the strikes.
LEMMA RangeCovers ==
    ASSUME chain \in Chains, NEW n \in 1..4, HasLegs(n)
    PROVE  /\ PriceRange[1] \in Nat \ {0} /\ PriceRange[2] \in Nat \ {0}
           /\ PriceRange[1] < PriceRange[2]
           /\ \A i \in 1..n : /\ PriceRange[1] <= legs[i].quote.strike
                              /\ legs[i].quote.strike <= PriceRange[2]
<1> DEFINE v == [j \in 0..(n - 1) |-> legs[j + 1].quote.strike]
           strikes == {legs[i].quote.strike : i \in DOMAIN legs}
<1>1. /\ DOMAIN legs = 1..n
      /\ \A i \in 1..n : legs[i].quote.strike \in Nat \ {0}
  <2>1. ASSUME NEW i \in 1..n PROVE legs[i].quote.strike \in Nat \ {0}
    BY LegFacts
  <2> QED
    BY <2>1 DEF HasLegs
<1>2. n - 1 \in Nat /\ \A j \in 0..(n - 1) : v[j] \in Int
  BY <1>1
<1>3. \A x \in strikes : \E j \in 0..(n - 1) : x = v[j]
  <2> TAKE x \in strikes
  <2>1. PICK i \in 1..n : x = legs[i].quote.strike
    BY <1>1
  <2>2. i - 1 \in 0..(n - 1) /\ (i - 1) + 1 = i
    OBVIOUS
  <2>3. x = v[i - 1]
    BY <2>1, <2>2
  <2> QED
    BY <2>2, <2>3
<1>4. \A j \in 0..(n - 1) : v[j] \in strikes
  <2> SUFFICES ASSUME NEW j \in 0..(n - 1) PROVE v[j] \in strikes
    OBVIOUS
  <2>1. j + 1 \in 1..n
    OBVIOUS
  <2> QED
    BY <1>1, <2>1
<1>5. strikes \in SUBSET (Nat \ {0})
  BY <1>1
<1>6. \A i \in 1..n : legs[i].quote.strike \in strikes
  BY <1>1
<1>7. PriceRange = LET lo == Min(strikes)
                             hi == Max(strikes)
                             pad == Max({hi - lo, hi \div 10, 100}) \div 2
                         IN  <<Max({1, lo - pad}), hi + pad>>
  BY DEF PriceRange
<1> HIDE DEF v, strikes
<1>8. PICK lo \in strikes : lo = Min(strikes) /\ \A x \in strikes : lo <= x
  <2>1. PICK m \in 0..(n - 1) : \A j \in 0..(n - 1) : v[m] <= v[j]
    BY <1>2, Extremes
  <2>2. PICK y \in strikes : y = v[m]
    BY <1>4
  <2>3. \A x \in strikes : y <= x
    BY <1>3, <2>1, <2>2
  <2>4. strikes \in SUBSET Int
    BY <1>5
  <2>5. Min(strikes) = y
    BY <2>3, <2>4, MinIs
  <2> QED
    BY <2>3, <2>5
<1>9. PICK hi \in strikes : hi = Max(strikes) /\ \A x \in strikes : x <= hi
  <2>1. PICK m \in 0..(n - 1) : \A j \in 0..(n - 1) : v[j] <= v[m]
    BY <1>2, Extremes
  <2>2. PICK y \in strikes : y = v[m]
    BY <1>4
  <2>3. \A x \in strikes : x <= y
    BY <1>3, <2>1, <2>2
  <2>4. strikes \in SUBSET Int
    BY <1>5
  <2>5. Max(strikes) = y
    BY <2>3, <2>4, MaxIs
  <2> QED
    BY <2>3, <2>5
<1>10. PICK a, b, least \in Int : a = hi - lo /\ b = hi \div 10 /\ least = 100
  BY <1>5
<1>11. PICK w \in Int : w = Max({a, b, 100}) /\ 100 <= w
  <2>1. Max({a, b, least}) \in {a, b, least} /\ least <= Max({a, b, least})
    BY MaxOfThree
  <2> QED
    BY <1>10, <2>1
<1>12. PICK pad \in Nat : pad = w \div 2 /\ pad >= 50
  BY <1>11
<1>13. lo \in Nat \ {0} /\ hi \in Nat \ {0}
  BY <1>5
<1>14. PICK c \in Int : c = lo - pad
  BY <1>13
<1>15. Max({1, c}) = IF 1 <= c THEN c ELSE 1
  BY MaxOfTwo
<1>16. PriceRange = <<Max({1, c}), hi + pad>>
  BY <1>7, <1>8, <1>9, <1>10, <1>11, <1>12, <1>14
<1>17. lo <= hi
  BY <1>9
<1>18. PICK first, last \in Nat \ {0} :
          /\ first = PriceRange[1] /\ last = PriceRange[2]
          /\ first <= lo /\ hi < last
  BY <1>12, <1>13, <1>14, <1>15, <1>16
<1>19. ASSUME NEW i \in 1..n PROVE first <= legs[i].quote.strike /\ legs[i].quote.strike <= last
  <2>1. PICK k \in Nat : k = legs[i].quote.strike /\ lo <= k /\ k <= hi
    BY <1>5, <1>6, <1>8, <1>9
  <2> QED
    BY <1>13, <1>18, <2>1
<1> QED
  BY <1>13, <1>17, <1>18, <1>19

\* The points run from one end of the range to the other.
LEMMA Points ==
    ASSUME chain \in Chains, NEW n \in 1..4, HasLegs(n)
    PROVE  /\ \A i \in 0..SampleSteps : Point(i) \in Int
           /\ 0 \in 0..SampleSteps /\ SampleSteps \in 0..SampleSteps /\ SampleSteps \in Nat \ {0}
           /\ Point(0) = PriceRange[1] * SampleSteps
           /\ Point(SampleSteps) = PriceRange[2] * SampleSteps
<1>1. PICK lo, hi \in Nat : lo = PriceRange[1] /\ hi = PriceRange[2]
  BY RangeCovers
<1>2. SampleSteps \in Nat \ {0}
  BY SettingsAssumption
<1>3. \A i : Point(i) = lo * SampleSteps + i * (hi - lo)
  BY <1>1 DEF Point
<1>4. 0 * (hi - lo) = 0 /\ lo * SampleSteps + SampleSteps * (hi - lo) = hi * SampleSteps
  BY <1>2
<1>5. \A i \in 0..SampleSteps : i * (hi - lo) \in Int
  OBVIOUS
<1>6. lo * SampleSteps \in Int
  BY <1>2
<1> QED
  BY <1>1, <1>2, <1>3, <1>4, <1>5, <1>6

\* The summary has the extremes of the payoffs at the points.
LEMMA SummaryIs ==
    ASSUME chain \in Chains, NEW n \in 1..4, HasLegs(n)
    PROVE  /\ Summary.max_profit \in Int /\ Summary.max_loss \in Int
           /\ Summary = [max_profit |-> Summary.max_profit, max_loss |-> Summary.max_loss]
           /\ \A i \in 0..SampleSteps : /\ Payoff(Point(i)) \in Int
                                        /\ Summary.max_loss <= Payoff(Point(i))
                                        /\ Payoff(Point(i)) <= Summary.max_profit
           /\ \E i \in 0..SampleSteps : Summary.max_loss = Payoff(Point(i))
           /\ \E i \in 0..SampleSteps : Summary.max_profit = Payoff(Point(i))
<1> DEFINE v == [i \in 0..SampleSteps |-> Payoff(Point(i))]
           pnls == {v[i] : i \in 0..SampleSteps}
<1>1. \A i \in 0..SampleSteps : v[i] = Payoff(Point(i)) /\ v[i] \in Int
  BY Points, PayoffIs
<1>2. Curve = pnls
  BY DEF Curve, Point
<1>3. Summary = [max_profit |-> Max(pnls), max_loss |-> Min(pnls)]
  BY <1>2 DEF Summary
<1>4. pnls \in SUBSET Int
  BY <1>1
<1>5. SampleSteps \in Nat
  BY Points
<1> HIDE DEF v
<1>6. PICK m \in 0..SampleSteps : \A i \in 0..SampleSteps : v[m] <= v[i]
  BY <1>1, <1>5, Extremes
<1>7. PICK k \in 0..SampleSteps : \A i \in 0..SampleSteps : v[i] <= v[k]
  BY <1>1, <1>5, Extremes
<1>8. v[m] \in pnls /\ \A x \in pnls : v[m] <= x
  BY <1>6
<1>9. v[k] \in pnls /\ \A x \in pnls : x <= v[k]
  BY <1>7
<1>10. Min(pnls) = v[m] /\ Max(pnls) = v[k]
  <2> HIDE DEF pnls
  <2> QED
    BY <1>4, <1>8, <1>9, MinIs, MaxIs
<1> QED
  BY <1>1, <1>3, <1>6, <1>7, <1>10

-----------------------------------------------------------------------------
(* The payoff of the strategies.                                           *)

\* Two legs of a spread of width d are together worth x, from nothing at the
\* first strike to the width at the second, in the units of the payoff.
Worth(i, j, action, d, price, x) ==
    /\ x \in Int /\ 0 <= x /\ x <= d * SampleSteps
    /\ Value(i, price) + Value(j, price) = IF action = "BUY" THEN x ELSE -x
    /\ PairAt(i, "C", d, action) =>
          /\ price <= legs[i].quote.strike * SampleSteps => x = 0
          /\ price >= legs[j].quote.strike * SampleSteps => x = d * SampleSteps
    /\ PairAt(i, "P", -d, action) =>
          /\ price >= legs[i].quote.strike * SampleSteps => x = 0
          /\ price <= legs[j].quote.strike * SampleSteps => x = d * SampleSteps
HasWorth(i, j, action, d, price) == \E x : Worth(i, j, action, d, price, x)

\* The two legs of a spread have such a worth at every price.
LEMMA PairWorth ==
    ASSUME chain \in Chains, NEW n \in 1..4, HasLegs(n),
           NEW i \in 1..4, NEW j \in 1..4, j = i + 1, j <= n,
           NEW d \in Nat, NEW action \in {"BUY", "SELL"}, NEW price \in Int,
           PairAt(i, "C", d, action) \/ PairAt(i, "P", -d, action)
    PROVE  HasWorth(i, j, action, d, price)
<1>1. /\ legs[i].quote \in Quote /\ legs[i].quote.strike \in Nat \ {0}
      /\ legs[j].quote \in Quote /\ legs[j].quote.strike \in Nat \ {0}
      /\ SampleSteps \in Nat \ {0}
  <2>1. i \in 1..n /\ j \in 1..n
    OBVIOUS
  <2> QED
    BY <2>1, LegFacts, SettingsAssumption
<1>2. PICK a, b, w \in Nat : /\ a = legs[i].quote.strike * SampleSteps
                             /\ b = legs[j].quote.strike * SampleSteps
                             /\ w = d * SampleSteps
  <2>1. \A k \in Nat : k * SampleSteps \in Nat
    BY <1>1
  <2> QED
    BY <1>1, <2>1
<1>3. /\ legs[i].action = action /\ legs[j].action = Opposite(action)
      /\ \/ /\ legs[i].quote.right = "C" /\ legs[j].quote.right = "C"
            /\ legs[j].quote.strike = legs[i].quote.strike + d
         \/ /\ legs[i].quote.right = "P" /\ legs[j].quote.right = "P"
            /\ legs[j].quote.strike = legs[i].quote.strike + (-d)
  BY DEF PairAt
<1>4. PICK y, z \in Int : y = Intrinsic(legs[i].quote, price) /\ z = Intrinsic(legs[j].quote, price)
  <2>1. /\ legs[i].quote.right \in {"C", "P"} /\ legs[j].quote.right \in {"C", "P"}
    BY <1>3
  <2>2. Intrinsic(legs[i].quote, price) \in Int
    BY <1>1, <1>2, <2>1, IntrinsicIs
  <2>3. Intrinsic(legs[j].quote, price) \in Int
    BY <1>1, <1>2, <2>1, IntrinsicIs
  <2> QED
    BY <2>2, <2>3
<1>5. Value(i, price) + Value(j, price) = IF action = "BUY" THEN y - z ELSE -(y - z)
  <2>1. CASE action = "BUY"
    <3>1. Side(legs[i]) = 1 /\ Side(legs[j]) = -1
      BY <1>3, <2>1 DEF Side, Opposite
    <3>2. Value(i, price) = 1 * y /\ Value(j, price) = (-1) * z
      BY <1>4, <3>1 DEF Value
    <3> QED
      BY <2>1, <3>2
  <2>2. CASE action = "SELL"
    <3>1. Side(legs[i]) = -1 /\ Side(legs[j]) = 1
      BY <1>3, <2>2 DEF Side, Opposite
    <3>2. Value(i, price) = (-1) * y /\ Value(j, price) = 1 * z
      BY <1>4, <3>1 DEF Value
    <3> QED
      BY <2>2, <3>2
  <2> QED
    BY <2>1, <2>2
<1>6. CASE legs[i].quote.right = "C"
  <2>1. /\ legs[j].quote.right = "C" /\ legs[j].quote.strike = legs[i].quote.strike + d
        /\ ~PairAt(i, "P", -d, action)
    BY <1>3, <1>6 DEF PairAt
  <2>2. b = a + w
    BY <1>1, <1>2, <2>1
  <2>3. y = IF price > a THEN price - a ELSE 0
    BY <1>1, <1>2, <1>4, <1>6, IntrinsicIs
  <2>4. z = IF price > b THEN price - b ELSE 0
    BY <1>1, <1>2, <1>4, <2>1, IntrinsicIs
  <2>5. /\ 0 <= y - z /\ y - z <= w
        /\ price <= a => y - z = 0
        /\ price >= b => y - z = w
    BY <2>2, <2>3, <2>4
  <2> QED
    BY <1>2, <1>5, <2>1, <2>5 DEF Worth, HasWorth
<1>7. CASE legs[i].quote.right = "P"
  <2>1. /\ legs[j].quote.right = "P" /\ legs[j].quote.strike = legs[i].quote.strike + (-d)
        /\ ~PairAt(i, "C", d, action)
    BY <1>3, <1>7 DEF PairAt
  <2>2. a = b + w
    <3>1. PICK k \in Nat : k = legs[j].quote.strike
      BY <1>1
    <3>2. legs[i].quote.strike = k + d
      BY <1>1, <2>1, <3>1
    <3> QED
      BY <1>1, <1>2, <3>1, <3>2
  <2>3. y = IF price < a THEN a - price ELSE 0
    BY <1>1, <1>2, <1>4, <1>7, IntrinsicIs
  <2>4. z = IF price < b THEN b - price ELSE 0
    BY <1>1, <1>2, <1>4, <2>1, IntrinsicIs
  <2>5. /\ 0 <= y - z /\ y - z <= w
        /\ price >= a => y - z = 0
        /\ price <= b => y - z = w
    BY <2>2, <2>3, <2>4
  <2> QED
    BY <1>2, <1>5, <2>1, <2>5 DEF Worth, HasWorth
<1> QED
  BY <1>3, <1>6, <1>7

\* The range times the steps covers the strikes times the steps.
LEMMA EndsCover ==
    ASSUME chain \in Chains, NEW n \in 1..4, HasLegs(n), NEW i \in 1..n
    PROVE  /\ Point(0) <= legs[i].quote.strike * SampleSteps
           /\ legs[i].quote.strike * SampleSteps <= Point(SampleSteps)
<1>1. PICK lo, hi, k \in Nat : /\ lo = PriceRange[1] /\ hi = PriceRange[2]
                               /\ k = legs[i].quote.strike /\ lo <= k /\ k <= hi
  BY RangeCovers, LegFacts
<1>2. SampleSteps \in Nat /\ Point(0) = lo * SampleSteps /\ Point(SampleSteps) = hi * SampleSteps
  BY <1>1, Points
<1>3. PICK a, b \in Nat : k = lo + a /\ hi = k + b
  <2>1. k - lo \in Nat /\ hi - k \in Nat /\ k = lo + (k - lo) /\ hi = k + (hi - k)
    BY <1>1
  <2> QED
    BY <2>1
<1>4. a * SampleSteps \in Nat /\ b * SampleSteps \in Nat /\ k * SampleSteps \in Nat /\ lo * SampleSteps \in Nat
  BY <1>2
<1>5. k * SampleSteps = lo * SampleSteps + a * SampleSteps /\ hi * SampleSteps = k * SampleSteps + b * SampleSteps
  BY <1>2, <1>3
<1> QED
  BY <1>1, <1>2, <1>4, <1>5

\* The summary of a spread: sold, it wins the credit or loses the rest of the
\* width; bought, it loses the debit or wins the rest.
LEMMA PairSummary ==
    ASSUME chain \in Chains, NEW d \in Nat, NEW action \in {"BUY", "SELL"}, NEW w \in Nat,
           OnePair("C", d, action) \/ OnePair("P", -d, action),
           NEW net \in Int, net = SampleSteps * NetPrice2, w = d * SampleSteps
    PROVE  Summary = IF action = "SELL" THEN [max_profit |-> -net, max_loss |-> -net - 2 * w]
                           ELSE [max_profit |-> 2 * w - net, max_loss |-> -net]
<1>1. /\ HasLegs(2) /\ 2 \in 1..4 /\ 1 \in 1..4 /\ 1 \in 1..2 /\ 2 \in 1..2 /\ 2 = 1 + 1 /\ 2 <= 2
      /\ PairAt(1, "C", d, action) \/ PairAt(1, "P", -d, action)
  BY DEF OnePair
<1>2. ASSUME NEW price \in Int
      PROVE  /\ Value(1, price) \in Int /\ Value(2, price) \in Int
             /\ Payoff(price) = 2 * (Value(1, price) + Value(2, price)) - net
  <2>1. /\ \A i \in 1..2 : Value(i, price) \in Int
        /\ Payoff(price) = 2 * Parts([i \in 1..2 |-> Value(i, price)], 1..2) - net
    BY <1>1, PayoffIs
  <2>2. Parts([i \in 1..2 |-> Value(i, price)], 1..2) = Value(1, price) + Value(2, price)
    BY <2>1 DEF Parts, Part
  <2> QED
    BY <2>1, <2>2
<1>3. ASSUME NEW price \in Int
      PROVE  \E x \in Int :
                /\ 0 <= x /\ x <= w
                /\ Payoff(price) = (IF action = "BUY" THEN 2 * x ELSE -(2 * x)) - net
                /\ PairAt(1, "C", d, action) =>
                      /\ price <= legs[1].quote.strike * SampleSteps => x = 0
                      /\ price >= legs[2].quote.strike * SampleSteps => x = w
                /\ PairAt(1, "P", -d, action) =>
                      /\ price >= legs[1].quote.strike * SampleSteps => x = 0
                      /\ price <= legs[2].quote.strike * SampleSteps => x = w
  <2>0. HasWorth(1, 2, action, d, price)
    BY <1>1, PairWorth
  <2>1. PICK x : Worth(1, 2, action, d, price, x)
    BY <2>0 DEF HasWorth
  <2>2. x \in Int /\ 0 <= x /\ x <= w /\ Value(1, price) + Value(2, price) = IF action = "BUY" THEN x ELSE -x
    BY <2>1 DEF Worth
  <2>3. Payoff(price) = (IF action = "BUY" THEN 2 * x ELSE -(2 * x)) - net
    BY <1>2, <2>2
  <2> QED
    BY <2>1, <2>2, <2>3 DEF Worth
<1>4. PICK first, last \in 0..SampleSteps :
         /\ Point(first) \in Int /\ Point(last) \in Int
         /\ Payoff(Point(first)) = -net
         /\ Payoff(Point(last)) = (IF action = "BUY" THEN 2 * w ELSE -(2 * w)) - net
  <2>1. /\ 0 \in 0..SampleSteps /\ SampleSteps \in 0..SampleSteps
        /\ Point(0) \in Int /\ Point(SampleSteps) \in Int
    BY <1>1, Points
  <2>2. /\ Point(0) <= legs[1].quote.strike * SampleSteps /\ Point(0) <= legs[2].quote.strike * SampleSteps
        /\ legs[1].quote.strike * SampleSteps <= Point(SampleSteps)
        /\ legs[2].quote.strike * SampleSteps <= Point(SampleSteps)
    BY <1>1, EndsCover
  <2>3. /\ legs[1].quote.strike * SampleSteps \in Int /\ legs[2].quote.strike * SampleSteps \in Int
    <3>1. legs[1].quote.strike \in Nat /\ legs[2].quote.strike \in Nat /\ SampleSteps \in Nat
      BY <1>1, LegFacts, Points
    <3> QED
      BY <3>1
  <2>4. CASE PairAt(1, "C", d, action)
    <3>1. Payoff(Point(0)) = -net
      <4>1. PICK x \in Int : /\ x = 0
                             /\ Payoff(Point(0)) = (IF action = "BUY" THEN 2 * x ELSE -(2 * x)) - net
        BY <1>3, <2>1, <2>2, <2>4
      <4> QED
        BY <4>1
    <3>2. Payoff(Point(SampleSteps)) = (IF action = "BUY" THEN 2 * w ELSE -(2 * w)) - net
      BY <1>3, <2>1, <2>2, <2>3, <2>4
    <3> QED
      BY <2>1, <3>1, <3>2
  <2>5. CASE PairAt(1, "P", -d, action)
    <3>1. Payoff(Point(SampleSteps)) = -net
      <4>1. PICK x \in Int :
               /\ x = 0
               /\ Payoff(Point(SampleSteps)) = (IF action = "BUY" THEN 2 * x ELSE -(2 * x)) - net
        BY <1>3, <2>1, <2>2, <2>3, <2>5
      <4> QED
        BY <4>1
    <3>2. Payoff(Point(0)) = (IF action = "BUY" THEN 2 * w ELSE -(2 * w)) - net
      BY <1>3, <2>1, <2>2, <2>5
    <3> QED
      BY <2>1, <3>1, <3>2
  <2> QED
    BY <1>1, <2>4, <2>5
<1>5. PICK profit, loss \in Int :
         /\ Summary = [max_profit |-> profit, max_loss |-> loss]
         /\ \A i \in 0..SampleSteps : loss <= Payoff(Point(i)) /\ Payoff(Point(i)) <= profit
         /\ \E i \in 0..SampleSteps : loss = Payoff(Point(i))
         /\ \E i \in 0..SampleSteps : profit = Payoff(Point(i))
  BY <1>1, SummaryIs
<1>6. ASSUME NEW i \in 0..SampleSteps
      PROVE  \E x \in Int : /\ 0 <= x /\ x <= w
                            /\ Payoff(Point(i)) = (IF action = "BUY" THEN 2 * x ELSE -(2 * x)) - net
  <2>1. Point(i) \in Int
    BY <1>1, Points
  <2> QED
    BY <1>3, <2>1
<1>7. PICK x, y \in Int : /\ 0 <= x /\ x <= w /\ 0 <= y /\ y <= w
                          /\ loss = (IF action = "BUY" THEN 2 * x ELSE -(2 * x)) - net
                          /\ profit = (IF action = "BUY" THEN 2 * y ELSE -(2 * y)) - net
  BY <1>5, <1>6
<1>8. /\ loss <= -net /\ -net <= profit
      /\ loss <= (IF action = "BUY" THEN 2 * w ELSE -(2 * w)) - net
      /\ (IF action = "BUY" THEN 2 * w ELSE -(2 * w)) - net <= profit
  BY <1>4, <1>5
<1>9. CASE action = "BUY"
  BY <1>5, <1>7, <1>8, <1>9
<1>10. CASE action = "SELL"
  BY <1>5, <1>7, <1>8, <1>10
<1> QED
  BY <1>9, <1>10

\* A point of the curve falls between two prices a step apart.
HasPoint(lo, d, count, a, b) == \E i \in 0..count : a <= lo + i * d /\ lo + i * d <= b

\* A step of the curve is not longer than the gap, so that one of its points
\* falls in.
LEMMA PointBetween ==
    ASSUME NEW lo \in Nat, NEW d \in Nat \ {0}, NEW count \in Nat \ {0}, NEW a \in Int, NEW b \in Int,
           NEW end \in Int, end = count * d, lo <= a, a <= b, b <= lo + end, b - a >= d
    PROVE  HasPoint(lo, d, count, a, b)
<1>1. PICK m \in Nat : m = b - lo
  OBVIOUS
<1>2. PICK i \in Nat : i = m \div d /\ i * d <= m /\ m < i * d + d
  <2>1. m \div d \in Nat
    OBVIOUS
  <2>2. PICK i \in Nat, r \in Nat : i = m \div d /\ r = m % d /\ r < d /\ m = d * i + r
    BY <2>1
  <2>3. PICK y \in Nat : y = i * d /\ y = d * i
    OBVIOUS
  <2>4. y <= m /\ m < y + d
    BY <2>2, <2>3
  <2> QED
    BY <2>2, <2>3, <2>4
<1>3. i <= count
  <2>1. SUFFICES ASSUME count < i PROVE FALSE
    OBVIOUS
  <2>2. PICK j \in Nat : i = count + 1 + j
    <3>1. i - count - 1 \in Nat /\ i = count + 1 + (i - count - 1)
      BY <2>1
    <3> QED
      BY <3>1
  <2>3. i * d = count * d + d + j * d /\ j * d \in Nat /\ count * d \in Nat
    BY <2>2
  <2> QED
    BY <1>1, <1>2, <2>3
<1>4. PICK y \in Nat : y = i * d
  OBVIOUS
<1>5. a <= lo + y /\ lo + y <= b
  BY <1>1, <1>2, <1>4
<1> QED
  BY <1>3, <1>4, <1>5 DEF HasPoint

\* The summary of a condor: it loses the rest of one wing, and wins the credit if
\* a point of the curve falls between its short strikes.
LEMMA CondorSummary ==
    ASSUME chain \in Chains, HasLegs(4),
           PairAt(1, "P", -Wing, "SELL"), PairAt(3, "C", Wing, "SELL"),
           NEW net \in Int, net = SampleSteps * NetPrice2, NEW w \in Nat, w = Wing * SampleSteps,
           NEW gap \in Int, gap = legs[3].quote.strike - legs[1].quote.strike
    PROVE  /\ gap >= 0 => Summary.max_loss = -net - 2 * w
           /\ SampleSteps * gap >= PriceRange[2] - PriceRange[1]
                 => Summary.max_profit = -net
<1>1. /\ 4 \in 1..4 /\ 1 \in 1..4 /\ 2 \in 1..4 /\ 3 \in 1..4 /\ 2 = 1 + 1 /\ 4 = 3 + 1 /\ 2 <= 4 /\ 4 <= 4
      /\ Wing \in Nat /\ "SELL" \in {"BUY", "SELL"} /\ SampleSteps \in Nat \ {0}
  BY SettingsAssumption
<1>2. PICK k1, k2, k3, k4 \in Nat : /\ k1 = legs[1].quote.strike /\ k2 = legs[2].quote.strike
                                    /\ k3 = legs[3].quote.strike /\ k4 = legs[4].quote.strike
  BY <1>1, LegFacts
<1>3. PICK a1, a2, a3, a4 \in Nat : /\ a1 = k1 * SampleSteps /\ a2 = k2 * SampleSteps
                                    /\ a3 = k3 * SampleSteps /\ a4 = k4 * SampleSteps
  BY <1>1
<1>4. ASSUME NEW price \in Int
      PROVE  \E x, y \in Int :
                /\ 0 <= x /\ x <= w /\ 0 <= y /\ y <= w
                /\ Payoff(price) = -(2 * (x + y)) - net
                /\ price >= a1 => x = 0
                /\ price <= a2 => x = w
                /\ price <= a3 => y = 0
  <2>1. HasWorth(1, 2, "SELL", Wing, price)
    BY <1>1, PairWorth
  <2>2. PICK x : Worth(1, 2, "SELL", Wing, price, x)
    BY <2>1 DEF HasWorth
  <2>3. HasWorth(3, 4, "SELL", Wing, price)
    BY <1>1, PairWorth
  <2>4. PICK y : Worth(3, 4, "SELL", Wing, price, y)
    BY <2>3 DEF HasWorth
  <2>5. /\ x \in Int /\ 0 <= x /\ x <= w /\ Value(1, price) + Value(2, price) = -x
        /\ price >= a1 => x = 0
        /\ price <= a2 => x = w
    BY <1>2, <1>3, <2>2 DEF Worth
  <2>6. /\ y \in Int /\ 0 <= y /\ y <= w /\ Value(3, price) + Value(4, price) = -y
        /\ price <= a3 => y = 0
    BY <1>2, <1>3, <2>4 DEF Worth
  <2>7. /\ \A i \in 1..4 : Value(i, price) \in Int
        /\ Payoff(price) = 2 * Parts([i \in 1..4 |-> Value(i, price)], 1..4) - net
    BY <1>1, PayoffIs
  <2>8. /\ Value(1, price) \in Int /\ Value(2, price) \in Int /\ Value(3, price) \in Int /\ Value(4, price) \in Int
        /\ Parts([i \in 1..4 |-> Value(i, price)], 1..4)
              = Value(1, price) + Value(2, price) + Value(3, price) + Value(4, price)
    BY <2>7 DEF Parts, Part
  <2>9. Payoff(price) = -(2 * (x + y)) - net
    BY <2>5, <2>6, <2>7, <2>8
  <2> QED
    BY <2>5, <2>6, <2>9
<1>5. PICK profit, loss \in Int :
         /\ Summary.max_profit = profit /\ Summary.max_loss = loss
         /\ \A i \in 0..SampleSteps : loss <= Payoff(Point(i)) /\ Payoff(Point(i)) <= profit
         /\ \E i \in 0..SampleSteps : loss = Payoff(Point(i))
         /\ \E i \in 0..SampleSteps : profit = Payoff(Point(i))
  BY <1>1, SummaryIs
<1>6. \A i \in 0..SampleSteps : Point(i) \in Int
  BY <1>1, Points
<1>7. ASSUME gap >= 0 PROVE loss = -net - 2 * w
  <2>1. a1 <= a3
    <3>1. PICK e \in Nat : k3 = k1 + e
      <4>1. k3 - k1 \in Nat /\ k3 = k1 + (k3 - k1)
        BY <1>2, <1>7
      <4> QED
        BY <4>1
    <3>2. a3 = a1 + e * SampleSteps /\ e * SampleSteps \in Nat
      BY <1>1, <1>3, <3>1
    <3> QED
      BY <3>2
  <2>2. PICK j \in 0..SampleSteps : loss = Payoff(Point(j))
    BY <1>5
  <2>3. PICK p \in Int : p = Point(j) /\ loss = Payoff(p)
    BY <1>6, <2>2
  <2>4. PICK x, y \in Int : /\ 0 <= x /\ x <= w /\ 0 <= y /\ y <= w
                            /\ loss = -(2 * (x + y)) - net
                            /\ p >= a1 => x = 0
                            /\ p <= a3 => y = 0
    BY <1>4, <2>3
  <2>5. p >= a1 \/ p <= a3
    BY <2>1
  <2>6. loss >= -(2 * w) - net
    BY <2>4, <2>5
  <2>7. PICK q \in Int : q = Point(0) /\ 0 \in 0..SampleSteps /\ q <= a2 /\ q <= a1
    BY <1>1, <1>2, <1>3, <1>6, EndsCover
  <2>8. PICK u, v \in Int : /\ Payoff(q) = -(2 * (u + v)) - net
                            /\ q <= a2 => u = w
                            /\ q <= a3 => v = 0
    BY <1>4
  <2>9. q <= a3
    BY <2>1, <2>7
  <2>10. Payoff(q) = -(2 * w) - net
    BY <2>7, <2>8, <2>9
  <2>11. loss <= -(2 * w) - net
    BY <1>5, <2>7, <2>10
  <2> QED
    BY <2>6, <2>11
<1>8. ASSUME SampleSteps * gap >= PriceRange[2] - PriceRange[1] PROVE profit = -net
  <2>1. PICK lo, hi \in Nat : /\ lo = PriceRange[1] /\ hi = PriceRange[2] /\ lo < hi
                              /\ lo <= k1 /\ k1 <= hi /\ lo <= k3 /\ k3 <= hi
    BY <1>1, <1>2, RangeCovers
  <2>2. PICK d \in Nat \ {0} : d = hi - lo
    BY <2>1
  <2>3. PICK low \in Nat : low = lo * SampleSteps
    BY <1>1
  <2>4. \A i \in 0..SampleSteps : Point(i) = low + i * d
    BY <2>1, <2>2, <2>3 DEF Point
  <2>5. a3 - a1 = SampleSteps * gap
    BY <1>1, <1>2, <1>3
  <2>6. low <= a1 /\ a3 <= low + SampleSteps * d
    <3>1. Point(0) <= a1 /\ a3 <= Point(SampleSteps)
      BY <1>1, <1>2, <1>3, EndsCover
    <3>2. Point(0) = low + 0 * d /\ Point(SampleSteps) = low + SampleSteps * d
      BY <1>1, <2>4
    <3> QED
      BY <3>1, <3>2
  <2>7. a3 - a1 >= d /\ a1 <= a3
    BY <1>8, <2>1, <2>2, <2>5
  <2>8. PICK i \in 0..SampleSteps : a1 <= low + i * d /\ low + i * d <= a3
    <3>1. PICK n \in Nat \ {0} : n = SampleSteps
      BY <1>1
    <3>2. PICK end \in Int : end = n * d /\ end = SampleSteps * d
      BY <3>1
    <3>3. a3 <= low + end /\ a1 \in Int /\ a3 \in Int /\ low <= a1
      BY <2>6, <3>2
    <3>4. HasPoint(low, d, n, a1, a3)
      BY ONLY <2>7, <3>2, <3>3, PointBetween
    <3> QED
      BY <3>1, <3>4 DEF HasPoint
  <2>9. PICK p \in Int : p = Point(i) /\ a1 <= p /\ p <= a3
    BY <1>6, <2>4, <2>8
  <2>10. PICK x, y \in Int : /\ Payoff(p) = -(2 * (x + y)) - net
                             /\ p >= a1 => x = 0
                             /\ p <= a3 => y = 0
    BY <1>4
  <2>11. x = 0 /\ y = 0
    BY <2>9, <2>10
  <2>12. -net <= profit
    BY <1>5, <2>9, <2>10, <2>11
  <2>13. PICK j \in 0..SampleSteps : profit = Payoff(Point(j))
    BY <1>5
  <2>14. PICK u, v \in Int : 0 <= u /\ 0 <= v /\ profit = -(2 * (u + v)) - net
    BY <1>4, <1>6, <2>13
  <2> QED
    BY <2>12, <2>14
<1> QED
  BY <1>5, <1>7, <1>8

-----------------------------------------------------------------------------
(* The legs of a candidate.                                                *)

\* The shapes of OptionStructures, of any legs.
SeqOfLegs(n) == [1..n -> [quote : chain, action : {"BUY", "SELL"}, ratio : {1}]]
PairIn(ls, i, right, width, action) ==
    /\ ls[i].quote.right = right /\ ls[i + 1].quote.right = right
    /\ ls[i + 1].quote.strike = ls[i].quote.strike + width
    /\ ls[i].action = action /\ ls[i + 1].action = Opposite(action)
SoldIn(ls, right) == ls \in SeqOfLegs(1) /\ ls[1].quote.right = right /\ ls[1].action = "SELL"
SpreadIn(ls, right, width, action) == ls \in SeqOfLegs(2) /\ PairIn(ls, 1, right, width, action)

\* A function on the first numbers is a sequence.
LEMMA SeqOf ==
    ASSUME NEW n \in Nat, NEW L, NEW s \in [1..n -> L]
    PROVE  s \in Seq(L) /\ Len(s) = n
<1>1. s = [i \in 1..n |-> s[i]]
  OBVIOUS
<1>2. [i \in 1..n |-> s[i]] \in Seq(L) /\ Len([i \in 1..n |-> s[i]]) = n
  OBVIOUS
<1> QED
  BY <1>1, <1>2

\* A single leg is a sold quote of the right asked for.
LEMMA SingleShape ==
    ASSUME NEW right, NEW target, NEW ls \in Single(right, target), ls # <<>>
    PROVE  SoldIn(ls, right)
<1>1. PICK q \in Nearest(right, target) : ls = <<Leg(q, "SELL")>>
  BY DEF Single, OrNone
<1>2. q \in chain /\ q.right = right
  BY DEF Nearest
<1>3. ls[1] = [quote |-> q, action |-> "SELL", ratio |-> 1] /\ ls \in SeqOfLegs(1)
  BY <1>1, <1>2 DEF Leg, SeqOfLegs
<1> QED
  BY <1>2, <1>3 DEF SoldIn

\* A quote and its other leg make a pair.
LEMMA PairedShape ==
    ASSUME NEW q \in chain, NEW at, NEW strike, NEW width, strike = q.strike + width,
           NEW action \in {"BUY", "SELL"},
           NEW ls, ls = Paired(q, at, strike, action), ls # <<>>
    PROVE  SpreadIn(ls, q.right, width, action)
<1> DEFINE others == {r \in chain : Contract(r) = <<at, strike, q.right>> /\ Liquid(r, MaxSpread)}
           r == CHOOSE r \in others : TRUE
<1>1. others # {} /\ ls = <<Leg(q, action), Leg(r, Opposite(action))>>
  BY DEF Paired
<1>2. r \in chain /\ Contract(r) = <<at, strike, q.right>>
  BY <1>1
<1>3. r.strike = strike /\ r.right = q.right
  <2> HIDE DEF r
  <2> QED
    BY <1>2 DEF Contract
<1> HIDE DEF r, others
<1>4. Opposite(action) \in {"BUY", "SELL"}
  BY DEF Opposite
<1>5. /\ ls[1] = [quote |-> q, action |-> action, ratio |-> 1]
      /\ ls[2] = [quote |-> r, action |-> Opposite(action), ratio |-> 1]
      /\ ls \in SeqOfLegs(2)
  BY <1>1, <1>2, <1>4 DEF Leg, SeqOfLegs
<1>6. 1 + 1 = 2
  OBVIOUS
<1> QED
  BY <1>3, <1>5, <1>6 DEF SpreadIn, PairIn

\* A vertical spread is a pair.
LEMMA VerticalShape ==
    ASSUME NEW right, NEW target, NEW width, NEW action \in {"BUY", "SELL"},
           NEW ls \in Vertical(right, target, width, action), ls # <<>>
    PROVE  SpreadIn(ls, right, width, action)
<1>1. PICK q \in Nearest(right, target) : ls = Paired(q, expiry, q.strike + width, action)
  BY DEF Vertical, OrNone
<1>2. q \in chain /\ q.right = right
  BY DEF Nearest
<1> QED
  BY <1>1, <1>2, PairedShape

\* A calendar is a pair of one strike.
LEMMA CalendarShape ==
    ASSUME chain \in Chains, NEW ls \in CalendarSpread, ls # <<>>
    PROVE  SpreadIn(ls, "C", 0, "SELL")
<1> DEFINE later == {q.expiry : q \in {r \in chain : r.expiry > expiry}}
<1>1. PICK q \in Nearest("C", 50) : ls = Paired(q, Min(later), q.strike, "SELL")
  BY DEF CalendarSpread, OrNone
<1>2. q \in chain /\ q.right = "C"
  BY DEF Nearest
<1>3. q.strike = q.strike + 0
  <2>1. q.strike \in Nat
    BY <1>2, ChainsAssumption DEF Quote
  <2> QED
    BY <2>1
<1> HIDE DEF later
<1> QED
  BY <1>1, <1>2, <1>3, PairedShape

\* A condor is a pair of puts and a pair of calls.
LEMMA CondorShape ==
    ASSUME NEW ls \in IronCondor, ls # <<>>
    PROVE  ls \in SeqOfLegs(4) /\ PairIn(ls, 1, "P", -Wing, "SELL") /\ PairIn(ls, 3, "C", Wing, "SELL")
<1>1. PICK puts \in BullPutSpread, calls \in BearCallSpread :
         puts # <<>> /\ calls # <<>> /\ ls = puts \o calls
  BY DEF IronCondor
<1>2. SpreadIn(puts, "P", -Wing, "SELL") /\ SpreadIn(calls, "C", Wing, "SELL")
  BY <1>1, VerticalShape DEF BullPutSpread, BearCallSpread
<1> DEFINE L == [quote : chain, action : {"BUY", "SELL"}, ratio : {1}]
<1> HIDE DEF L
<1>3. puts \in [1..2 -> L] /\ calls \in [1..2 -> L]
  BY <1>2 DEF SpreadIn, SeqOfLegs, L
<1>4. ls \in [1..4 -> L] /\ ls[1] = puts[1] /\ ls[2] = puts[2] /\ ls[3] = calls[1] /\ ls[4] = calls[2]
  <2>1. puts \in Seq(L) /\ calls \in Seq(L) /\ Len(puts) = 2 /\ Len(calls) = 2
    BY <1>3, SeqOf
  <2>2. ls \in Seq(L) /\ Len(ls) = 4
    <3>1. ls \in Seq(L) /\ Len(ls) = Len(puts) + Len(calls)
      BY <1>1, <2>1, ConcatProperties
    <3> QED
      BY <2>1, <3>1
  <2>3. \A i \in 1..4 : ls[i] = IF i <= 2 THEN puts[i] ELSE calls[i - 2]
    BY <1>1, <2>1, <2>2, ConcatProperties
  <2>4. ls \in [1..4 -> L]
    BY <2>2, LenProperties
  <2>5. /\ 1 \in 1..4 /\ 2 \in 1..4 /\ 3 \in 1..4 /\ 4 \in 1..4
        /\ 1 <= 2 /\ 2 <= 2 /\ ~(3 <= 2) /\ ~(4 <= 2) /\ 3 - 2 = 1 /\ 4 - 2 = 2
    OBVIOUS
  <2> QED
    BY <2>3, <2>4, <2>5
<1>5. 1 + 1 = 2 /\ 3 + 1 = 4
  OBVIOUS
<1> QED
  BY <1>2, <1>4, <1>5 DEF SpreadIn, PairIn, SeqOfLegs, L

\* The legs that a strategy proposes.
HasShape(name, ls) ==
    \/ name = "cash_secured_put" /\ SoldIn(ls, "P")
    \/ name = "covered_call" /\ SoldIn(ls, "C")
    \/ name = "bull_put_spread" /\ SpreadIn(ls, "P", -Wing, "SELL")
    \/ name = "bear_call_spread" /\ SpreadIn(ls, "C", Wing, "SELL")
    \/ name = "long_call_debit_spread" /\ SpreadIn(ls, "C", Wing, "BUY")
    \/ name = "long_put_debit_spread" /\ SpreadIn(ls, "P", -Wing, "BUY")
    \/ name = "calendar_spread" /\ SpreadIn(ls, "C", 0, "SELL")
    \/ /\ name = "iron_condor" /\ ls \in SeqOfLegs(4)
       /\ PairIn(ls, 1, "P", -Wing, "SELL") /\ PairIn(ls, 3, "C", Wing, "SELL")

\* What a strategy of ALL_OPTIONS_STRATEGIES proposes has its shape.
LEMMA ProposalShape ==
    ASSUME chain \in Chains, NEW name \in DOMAIN Proposals,
           NEW ls \in Proposals[name], ls # <<>>
    PROVE  HasShape(name, ls)
<1>1. name \in {"cash_secured_put", "covered_call", "bull_put_spread", "bear_call_spread", "iron_condor",
                "calendar_spread", "long_call_debit_spread", "long_put_debit_spread"}
  BY DEF Proposals
<1>2. CASE name = "cash_secured_put"
  BY <1>2, SingleShape DEF Proposals, CashSecuredPut, HasShape
<1>3. CASE name = "covered_call"
  BY <1>3, SingleShape DEF Proposals, CoveredCall, HasShape
<1>4. CASE name = "bull_put_spread"
  BY <1>4, VerticalShape DEF Proposals, BullPutSpread, HasShape
<1>5. CASE name = "bear_call_spread"
  BY <1>5, VerticalShape DEF Proposals, BearCallSpread, HasShape
<1>6. CASE name = "long_call_debit_spread"
  BY <1>6, VerticalShape DEF Proposals, LongCallDebitSpread, HasShape
<1>7. CASE name = "long_put_debit_spread"
  BY <1>7, VerticalShape DEF Proposals, LongPutDebitSpread, HasShape
<1>8. CASE name = "calendar_spread"
  BY <1>8, CalendarShape DEF Proposals, HasShape
<1>9. CASE name = "iron_condor"
  BY <1>9, CondorShape DEF Proposals, HasShape
<1> QED
  BY <1>1, <1>2, <1>3, <1>4, <1>5, <1>6, <1>7, <1>8, <1>9

-----------------------------------------------------------------------------
(* The invariant of a candidate.                                           *)

\* What is read off the legs stays as it is while they do.
LEMMA SameLegs ==
    ASSUME legs' = legs
    PROVE  /\ NetPrice2' = NetPrice2 /\ LimitPrices' = LimitPrices
           /\ Summary' = Summary
           /\ \A quantity, price : ComboOrder(quantity, price)' = ComboOrder(quantity, price)
<1>1. NetPrice2' = NetPrice2
  BY DEF NetPrice2
<1>2. LimitPrices' = LimitPrices
  BY <1>1 DEF LimitPrices
<1>3. PriceRange' = PriceRange
  BY DEF PriceRange
<1>4. \A price : Payoff(price)' = Payoff(price)
  BY <1>1 DEF Payoff
<1>5. Curve' = Curve
  BY <1>3, <1>4 DEF Curve
<1>6. Summary' = Summary
  BY <1>5 DEF Summary
<1>7. \A quantity, price : ComboOrder(quantity, price)' = ComboOrder(quantity, price)
  BY <1>1 DEF ComboOrder
<1> QED
  BY <1>1, <1>2, <1>6, <1>7

\* A candidate has from one to four legs.
LEMMA SomeLegs ==
    ASSUME ShapeInv, stage \notin {"scan", "none"}
    PROVE  \E n \in 1..4 : HasLegs(n)
<1>1. 1 \in 1..4 /\ 2 \in 1..4 /\ 4 \in 1..4
  OBVIOUS
<1> QED
  BY <1>1 DEF ShapeInv, SoldAlone, OnePair

\* The names of the strategies do not change.
LEMMA Names ==
    LET names == {"cash_secured_put", "covered_call", "bull_put_spread", "bear_call_spread", "iron_condor",
                  "calendar_spread", "long_call_debit_spread", "long_put_debit_spread"}
    IN  DOMAIN Proposals = names /\ DOMAIN Proposals' = names
BY DEF Proposals

\* The invariant holds at the start.
LEMMA ComboStarts ==
    ASSUME ComboInit
    PROVE  ComboInv
<1>1. /\ chain \in Chains /\ stage = "scan" /\ strategy = "none" /\ legs = <<>> /\ shares \in Shares
      /\ expiry \in {q.expiry : q \in chain} /\ summary = [max_profit |-> 0, max_loss |-> 0]
  BY DEF ComboInit, NoSummary
<1>2. expiry \in Nat
  BY <1>1, ChainsAssumption DEF Quote
<1>3. Len(legs) <= 4 /\ DOMAIN legs = {}
  BY <1>1
<1>4. ~Summarized /\ ~Ordered
  BY <1>1 DEF Summarized, Ordered
<1>5. ComboTypeOK
  BY <1>1, <1>2, <1>3, <1>4 DEF ComboTypeOK
<1>6. ShapeInv
  BY <1>1 DEF ShapeInv
<1>7. OrderInv
  BY <1>1, <1>4 DEF OrderInv
<1> QED
  BY <1>5, <1>6, <1>7 DEF ComboInv

\* A step that leaves the chain and the legs alone keeps what is said of them.
LEMMA ComboKeepsLegs ==
    ASSUME ComboInv, UNCHANGED <<chain, expiry, legs, shares>>,
           strategy' \in DOMAIN Proposals \cup {"none"},
           stage' \in {"scan", "none", "proposed", "ranked", "ordered", "placed", "rejected"},
           stage' \in {"scan", "none"} \/ (stage \notin {"scan", "none"} /\ strategy' = strategy),
           {summary.max_profit, summary.max_loss}' \subseteq Int,
           (Ordered => order.quantity \in Quantities /\ order.limit_price \in Nat)',
           OrderInv'
    PROVE  ComboInv'
<1>1. ComboTypeOK'
  BY Names DEF ComboInv, ComboTypeOK
<1>2. ShapeInv'
  BY DEF ComboInv, ShapeInv, SoldAlone, OnePair, HasLegs, PairAt
<1> QED
  BY <1>1, <1>2 DEF ComboInv

\* A strategy proposes legs of its shape.
LEMMA ComboGenerates ==
    ASSUME ComboInv, NEW name \in DOMAIN Proposals, Generate(name)
    PROVE  ComboInv'
<1>1. /\ legs' \in Proposals[name] /\ legs' # <<>> /\ strategy' = name /\ stage' = "proposed"
      /\ UNCHANGED <<chain, expiry, summary, order, shares>>
  BY DEF Generate
<1>2. chain \in Chains
  BY DEF ComboInv, ComboTypeOK
<1>3. HasShape(name, legs')
  BY <1>1, <1>2, ProposalShape
<1>4. ShapeInv'
  BY <1>1, <1>3 DEF HasShape, SoldIn, SpreadIn, PairIn, SeqOfLegs,
                    ShapeInv, SoldAlone, OnePair, HasLegs, PairAt
<1>5. PICK n \in 1..4 : legs' \in [1..n -> [quote : chain, action : {"BUY", "SELL"}, ratio : {1}]]
  <2>1. 1 \in 1..4 /\ 2 \in 1..4 /\ 4 \in 1..4
    OBVIOUS
  <2> QED
    BY <1>3, <2>1 DEF HasShape, SoldIn, SpreadIn, SeqOfLegs
<1>6. Len(legs') <= 4
  BY <1>5, SeqOf
<1>7. \A i \in DOMAIN legs' : legs'[i].quote \in chain' /\ legs'[i].action \in {"BUY", "SELL"}
  BY <1>1, <1>5
<1>8. ~Summarized' /\ ~Ordered'
  BY <1>1 DEF Summarized, Ordered
<1>9. ComboTypeOK'
  BY <1>1, <1>6, <1>7, <1>8, Names DEF ComboInv, ComboTypeOK
<1>10. OrderInv'
  BY <1>1, <1>8 DEF OrderInv
<1> QED
  BY <1>4, <1>9, <1>10 DEF ComboInv

\* A step of a candidate keeps the invariant.
LEMMA ComboSteps ==
    ASSUME ComboInv, [ComboNext]_comboVars
    PROVE  ComboInv'
<1>0. /\ stage \in {"scan", "none", "proposed", "ranked", "ordered", "placed", "rejected"}
      /\ strategy \in DOMAIN Proposals \cup {"none"} /\ chain \in Chains
      /\ {summary.max_profit, summary.max_loss} \subseteq Int
      /\ Ordered => order.quantity \in Quantities /\ order.limit_price \in Nat
      /\ ShapeInv /\ OrderInv
  BY DEF ComboInv, ComboTypeOK
<1>1. CASE \E name \in DOMAIN Proposals : Generate(name)
  BY <1>1, ComboGenerates
<1>2. ASSUME NEW name \in DOMAIN Proposals, NoSetup(name) PROVE ComboInv'
  <2>1. strategy' = name /\ stage' = "none" /\ UNCHANGED <<chain, expiry, legs, summary, order, shares>>
    BY <1>2 DEF NoSetup
  <2>2. ~Summarized' /\ ~Ordered'
    BY <2>1 DEF Summarized, Ordered
  <2>3. OrderInv'
    BY <2>1, <2>2 DEF OrderInv
  <2> QED
    BY <1>0, <2>1, <2>2, <2>3, ComboKeepsLegs
<1>3. CASE Rank
  <2>1. /\ stage = "proposed" /\ stage' = "ranked" /\ summary' = Summary
        /\ UNCHANGED <<chain, expiry, strategy, legs, order, shares>>
    BY <1>3 DEF Rank
  <2>2. PICK n \in 1..4 : HasLegs(n)
    BY <1>0, <2>1, SomeLegs
  <2>3. {summary'.max_profit, summary'.max_loss} \subseteq Int
    BY <1>0, <2>1, <2>2, SummaryIs
  <2>4. ~Ordered'
    BY <2>1 DEF Ordered
  <2>5. OrderInv'
    BY <2>1, <2>4, SameLegs DEF OrderInv
  <2> QED
    BY <1>0, <2>1, <2>3, <2>4, <2>5, ComboKeepsLegs
<1>4. CASE DropIlliquid
  <2>1. stage' = "none" /\ UNCHANGED <<chain, expiry, strategy, legs, summary, order, shares>>
    BY <1>4 DEF DropIlliquid
  <2>2. ~Summarized' /\ ~Ordered'
    BY <2>1 DEF Summarized, Ordered
  <2>3. OrderInv'
    BY <2>1, <2>2 DEF OrderInv
  <2> QED
    BY <1>0, <2>1, <2>2, <2>3, ComboKeepsLegs
<1>5. ASSUME NEW quantity \in Quantities, NEW price \in LimitPrices, BuildComboOrder(quantity, price)
      PROVE  ComboInv'
  <2>1. /\ stage = "ranked" /\ stage' = "ordered" /\ order' = ComboOrder(quantity, price)
        /\ UNCHANGED <<chain, expiry, strategy, legs, summary, shares>>
    BY <1>5 DEF BuildComboOrder
  <2>2. order'.quantity = quantity /\ order'.limit_price = price
    BY <2>1 DEF ComboOrder
  <2>3. price \in Nat
    <3>1. PICK n \in 1..4 : HasLegs(n)
      BY <1>0, <2>1, SomeLegs
    <3>2. PICK m \in Nat : m = Abs(NetPrice2)
      <4>1. NetPrice2 \in Int
        BY <1>0, <3>1, NetIs
      <4> QED
        BY <4>1 DEF Abs
    <3>3. price = m \div 2 \/ price = (m + 1) \div 2
      BY <3>2 DEF LimitPrices
    <3> QED
      BY <3>3
  <2>4. summary' = Summary'
    BY <1>0, <2>1, SameLegs DEF OrderInv, Summarized
  <2>5. OrderInv'
    BY <2>1, <2>4, SameLegs DEF OrderInv
  <2>6. (Ordered => order.quantity \in Quantities /\ order.limit_price \in Nat)'
    BY <2>2, <2>3
  <2> QED
    BY <1>0, <2>1, <2>5, <2>6, ComboKeepsLegs
<1>6. CASE PlaceCombo \/ RejectCombo
  <2>1. /\ stage = "ordered" /\ stage' \in {"placed", "rejected"}
        /\ UNCHANGED <<chain, expiry, strategy, legs, summary, order, shares>>
    BY <1>6 DEF PlaceCombo, RejectCombo
  <2>2. Ordered /\ Summarized
    BY <2>1 DEF Ordered, Summarized
  <2>3. stage' = "placed" => Admits(FALSE, order, OrderContext)'
    <3>1. OrderContext' = OrderContext /\ order' = order
      BY <2>1 DEF OrderContext
    <3>2. stage' = "placed" => Admits(FALSE, order, OrderContext)
      BY <1>6, <2>1 DEF PlaceCombo, RejectCombo
    <3> QED
      BY <3>1, <3>2
  <2>4. OrderInv'
    BY <1>0, <2>1, <2>2, <2>3, SameLegs DEF OrderInv
  <2> QED
    BY <1>0, <2>1, <2>2, <2>4, ComboKeepsLegs
<1>7. CASE UNCHANGED comboVars
  <2>1. UNCHANGED <<chain, expiry, stage, strategy, legs, summary, order, shares>>
    BY <1>7 DEF comboVars
  <2>2. OrderInv'
    <3>1. OrderContext' = OrderContext /\ order' = order
      BY <2>1 DEF OrderContext
    <3> QED
      BY <1>0, <2>1, <3>1, SameLegs DEF OrderInv, Summarized, Ordered
  <2>3. (Ordered => order.quantity \in Quantities /\ order.limit_price \in Nat)'
    BY <1>0, <2>1 DEF Ordered
  <2>4. CASE stage \in {"scan", "none"}
    BY <1>0, <2>1, <2>2, <2>3, <2>4, ComboKeepsLegs
  <2>5. CASE stage \notin {"scan", "none"}
    BY <1>0, <2>1, <2>2, <2>3, <2>5, ComboKeepsLegs
  <2> QED
    BY <2>4, <2>5
<1> QED
  BY <1>1, <1>2, <1>3, <1>4, <1>5, <1>6, <1>7 DEF ComboNext

\* The legs of a candidate have the shape of its strategy, and its summary and
\* its order are what summarize_payoff and build_combo_order make of them.
THEOREM ComboInvariance == ComboSpec => []ComboInv
<1>1. ComboInit => ComboInv
  BY ComboStarts
<1>2. ComboInv /\ [ComboNext]_comboVars => ComboInv'
  BY ComboSteps
<1> QED
  BY <1>1, <1>2, PTL DEF ComboSpec

-----------------------------------------------------------------------------
(* The properties.                                                         *)

\* A leg that is a call on the side.
CallOn(i, n, action) == IF i \in 1..n /\ legs[i].action = action /\ legs[i].quote.right = "C" THEN 1 ELSE 0

\* The ratios that the guard adds up count the calls on the side.
LEMMA RatiosAre ==
    ASSUME NEW n \in 1..4, HasLegs(n), NEW action,
           NEW quantity, NEW price, NEW o, o = ComboOrder(quantity, price)
    PROVE  Ratios(o.legs, action)
              = CallOn(1, n, action) + CallOn(2, n, action) + CallOn(3, n, action) + CallOn(4, n, action)
<1> DEFINE f == [i \in DOMAIN o.legs |-> o.legs[i].ratio]
           S == {i \in DOMAIN o.legs : o.legs[i].action = action /\ o.legs[i].right = "C"}
<1>1. o.legs = [i \in DOMAIN legs |-> [action |-> legs[i].action, right |-> legs[i].quote.right,
                                       ratio |-> legs[i].ratio]]
  BY DEF ComboOrder
<1>2. DOMAIN legs = 1..n /\ \A i \in 1..n : legs[i].ratio = 1
  BY DEF HasLegs
<1>3. DOMAIN o.legs = 1..n /\ \A i \in 1..n : /\ f[i] = 1 /\ o.legs[i].action = legs[i].action
                                              /\ o.legs[i].right = legs[i].quote.right
  BY <1>1, <1>2
<1>4. S \in SUBSET (1..4) /\ \A i \in S : f[i] = 1
  BY <1>3
<1>5. \A i \in 1..4 : Part(f, S, i) = CallOn(i, n, action)
  BY <1>3, <1>4 DEF Part, CallOn
<1>6. Ratios(o.legs, action) = SumFunctionOnSet(f, S)
  BY DEF Ratios
<1>7. SumFunctionOnSet(f, S) = Parts(f, S)
  <2> HIDE DEF f, S
  <2> QED
    BY <1>4, LegSum
<1> QED
  BY <1>5, <1>6, <1>7 DEF Parts

\* A combo order of a strategy other than the covered call has as many calls
\* bought as sold.
LEMMA CallsAreCovered ==
    ASSUME ShapeInv, stage \notin {"scan", "none"}, strategy # "covered_call",
           NEW quantity, NEW price, NEW o, o = ComboOrder(quantity, price), NEW ctx
    PROVE  ShortCallCovered(o, ctx)
<1>1. o.sec_type = "BAG"
  BY DEF ComboOrder
<1>2. Ratios(o.legs, "SELL") <= Ratios(o.legs, "BUY")
  <2>1. CASE SoldAlone("P")
    <3>1. HasLegs(1) /\ legs[1].quote.right = "P"
      BY <2>1 DEF SoldAlone
    <3>2. ASSUME NEW i \in 1..4, NEW action PROVE CallOn(i, 1, action) = 0
      BY <3>1 DEF CallOn
    <3>3. Ratios(o.legs, "SELL") = 0 /\ Ratios(o.legs, "BUY") = 0
      BY <3>1, <3>2, RatiosAre
    <3> QED
      BY <3>3
  <2>2. ASSUME NEW right, NEW width, NEW action \in {"BUY", "SELL"}, OnePair(right, width, action)
        PROVE  Ratios(o.legs, "SELL") <= Ratios(o.legs, "BUY")
    <3>1. /\ HasLegs(2) /\ legs[1].quote.right = right /\ legs[2].quote.right = right
          /\ legs[1].action = action /\ legs[2].action = Opposite(action)
      BY <2>2 DEF OnePair, PairAt
    <3>2. CallOn(1, 2, "SELL") + CallOn(2, 2, "SELL") = CallOn(1, 2, "BUY") + CallOn(2, 2, "BUY")
      BY <3>1 DEF CallOn, Opposite
    <3>3. ASSUME NEW side PROVE CallOn(3, 2, side) = 0 /\ CallOn(4, 2, side) = 0
      BY DEF CallOn
    <3>4. ASSUME NEW side PROVE CallOn(1, 2, side) \in Int /\ CallOn(2, 2, side) \in Int
      BY DEF CallOn
    <3>5. Ratios(o.legs, "SELL") = Ratios(o.legs, "BUY") /\ Ratios(o.legs, "BUY") \in Int
      BY <3>1, <3>2, <3>3, <3>4, RatiosAre
    <3> QED
      BY <3>5
  <2>3. CASE HasLegs(4) /\ PairAt(1, "P", -Wing, "SELL") /\ PairAt(3, "C", Wing, "SELL")
    <3>1. /\ legs[1].quote.right = "P" /\ legs[2].quote.right = "P"
          /\ legs[3].quote.right = "C" /\ legs[4].quote.right = "C"
          /\ legs[3].action = "SELL" /\ legs[4].action = "BUY"
      BY <2>3 DEF PairAt, Opposite
    <3>2. /\ CallOn(1, 4, "SELL") = 0 /\ CallOn(2, 4, "SELL") = 0
          /\ CallOn(3, 4, "SELL") = 1 /\ CallOn(4, 4, "SELL") = 0
          /\ CallOn(1, 4, "BUY") = 0 /\ CallOn(2, 4, "BUY") = 0
          /\ CallOn(3, 4, "BUY") = 0 /\ CallOn(4, 4, "BUY") = 1
      BY <3>1 DEF CallOn
    <3>3. Ratios(o.legs, "SELL") = 1 /\ Ratios(o.legs, "BUY") = 1
      BY <2>3, <3>2, RatiosAre
    <3> QED
      BY <3>3
  <2> QED
    BY <2>1, <2>2, <2>3 DEF ShapeInv
<1> QED
  BY <1>1, <1>2 DEF ShortCallCovered

\* The guard takes the combo order of no strategy but the covered call for a
\* naked short call, whatever the chain, the wing and the bounds of liquidity:
\* the long call caps the loss, as strategies/options has it.
THEOREM OnlyTheCoveredCallIsNaked == ComboSpec => []OnlyCoveredCallIsNaked
<1>1. ComboInv => OnlyCoveredCallIsNaked
  <2> SUFFICES ASSUME ComboInv PROVE OnlyCoveredCallIsNaked
    OBVIOUS
  <2>1. ComboTypeOK /\ ShapeInv /\ OrderInv
    BY DEF ComboInv
  <2>2. ASSUME Ordered, strategy # "covered_call"
        PROVE  ShortCallCovered(order, OrderContext)
    <3>1. PICK quantity, price : order = ComboOrder(quantity, price)
      BY <2>1, <2>2 DEF OrderInv
    <3>2. stage \notin {"scan", "none"}
      BY <2>2 DEF Ordered
    <3> QED
      BY <2>1, <2>2, <3>1, <3>2, CallsAreCovered
  <2> QED
    BY <2>1, <2>2 DEF OnlyCoveredCallIsNaked
<1> QED
  BY <1>1, ComboInvariance, PTL

\* The curve finds the textbook extremes of vertical spreads and condors, for
\* every chain, wing and number of points: summarize_payoff looks at the prices
\* of the curve only.
THEOREM SummaryIsTextbook == ComboSpec => []TextbookRisk
<1>1. ComboInv => TextbookRisk
  <2> SUFFICES ASSUME ComboInv, Summarized PROVE TextbookRisk
    BY DEF TextbookRisk
  <2>1. /\ chain \in Chains /\ ShapeInv /\ summary = Summary /\ stage \notin {"scan", "none"}
    BY DEF ComboInv, ComboTypeOK, OrderInv, Summarized
  <2>2. PICK n \in 1..4 : HasLegs(n)
    BY <2>1, SomeLegs
  <2>3. SampleSteps \in Nat \ {0} /\ Wing \in Nat
    BY SettingsAssumption
  <2>4. PICK net \in Int : net = SampleSteps * NetPrice2
    <3>1. NetPrice2 \in Int
      BY <2>1, <2>2, NetIs
    <3> QED
      BY <2>3, <3>1
  <2>5. PICK w \in Nat : w = Wing * SampleSteps /\ SampleSteps * 2 * Wing = 2 * w
    BY <2>3
  <2>6. "BUY" \in {"BUY", "SELL"} /\ "SELL" \in {"BUY", "SELL"} /\ 0 \in Nat /\ 0 = 0 * SampleSteps
    BY <2>3
  <2>7. strategy \in Credits => summary = [max_profit |-> -net, max_loss |-> -net - 2 * w]
    <3>1. strategy = "bear_call_spread" => summary = [max_profit |-> -net, max_loss |-> -net - 2 * w]
      BY <2>1, <2>3, <2>4, <2>5, <2>6, PairSummary DEF ShapeInv
    <3>2. strategy = "bull_put_spread" => summary = [max_profit |-> -net, max_loss |-> -net - 2 * w]
      BY <2>1, <2>3, <2>4, <2>5, <2>6, PairSummary DEF ShapeInv
    <3> QED
      BY <3>1, <3>2 DEF Credits
  <2>8. strategy \in Debits => summary = [max_profit |-> 2 * w - net, max_loss |-> -net]
    <3>1. strategy = "long_call_debit_spread" => summary = [max_profit |-> 2 * w - net, max_loss |-> -net]
      BY <2>1, <2>3, <2>4, <2>5, <2>6, PairSummary DEF ShapeInv
    <3>2. strategy = "long_put_debit_spread" => summary = [max_profit |-> 2 * w - net, max_loss |-> -net]
      BY <2>1, <2>3, <2>4, <2>5, <2>6, PairSummary DEF ShapeInv
    <3> QED
      BY <3>1, <3>2 DEF Debits
  <2>9. ASSUME strategy = "iron_condor"
        PROVE  LET gap == legs[3].quote.strike - legs[1].quote.strike
               IN  /\ gap >= 0 => summary.max_loss = -net - 2 * w
                   /\ SampleSteps * gap >= PriceRange[2] - PriceRange[1]
                         => summary.max_profit = -net
    <3>1. /\ HasLegs(4) /\ PairAt(1, "P", -Wing, "SELL") /\ PairAt(3, "C", Wing, "SELL")
      BY <2>1, <2>9 DEF ShapeInv
    <3>2. PICK gap \in Int : gap = legs[3].quote.strike - legs[1].quote.strike
      <4>1. 4 \in 1..4 /\ 1 \in 1..4 /\ 3 \in 1..4
        OBVIOUS
      <4>2. legs[1].quote.strike \in Nat /\ legs[3].quote.strike \in Nat
        BY <2>1, <3>1, <4>1, LegFacts
      <4> QED
        BY <4>2
    <3> QED
      BY <2>1, <2>4, <2>5, <3>1, <3>2, CondorSummary
  <2> QED
    BY <2>4, <2>5, <2>7, <2>8, <2>9 DEF TextbookRisk
<1> QED
  BY <1>1, ComboInvariance, PTL

\* What build_combo_order rounds.
LEMMA WholeShare ==
    ASSUME NEW d \in Nat \ {0}, NEW n \in Int, NEW a \in Int, a = d * n
    PROVE  a \div d = n
<1>1. PICK k, r \in Int : k = a \div d /\ r = a % d /\ 0 <= r /\ r < d /\ a = d * k + r
  OBVIOUS
<1>2. PICK e \in Int : e = n - k
  OBVIOUS
<1>3. n = k + e
  BY <1>2
<1>4. d * n = d * k + d * e
  BY <1>3
<1>5. d * e = r
  BY <1>1, <1>4
<1>6. CASE e <= 0 - 1
  <2>1. PICK f \in Nat : e = 0 - 1 - f
    <3>1. 0 - 1 - e \in Nat /\ e = 0 - 1 - (0 - 1 - e)
      BY <1>6
    <3> QED
      BY <3>1
  <2>2. d * e = 0 - d - d * f /\ d * f \in Nat
    BY <2>1
  <2> QED
    BY <1>1, <1>5, <2>2
<1>7. CASE e >= 1
  <2>1. PICK f \in Nat : e = 1 + f
    <3>1. e - 1 \in Nat /\ e = 1 + (e - 1)
      BY <1>7
    <3> QED
      BY <3>1
  <2>2. d * e = d + d * f /\ d * f \in Nat
    BY <2>1
  <2> QED
    BY <1>1, <1>5, <2>2
<1> QED
  BY <1>1, <1>2, <1>6, <1>7

\* What the guard lets through of a combo that is bought at a limit.
LEMMA ComboAdmitted ==
    ASSUME NEW quantity \in Nat, NEW price \in Nat \ {0}, NEW o, o = ComboOrder(quantity, price),
           o.action = "BUY", AccountNav \in Int, Admits(FALSE, o, OrderContext)
    PROVE  /\ price * quantity * 100 <= MaxOrderNotional
           /\ AccountNav > 0 => price * quantity * 100 * Whole100 <= MaxPosition * AccountNav
<1> DEFINE ctx == OrderContext
<1>1. /\ NoPrice \notin Int /\ MaxOrderNotional \in Nat /\ MaxPosition \in Nat
  BY LimitsAssumption DEF Whole100
<1>2. ~NotionalTooLarge(o, ctx) /\ ~PositionTooLarge(o, ctx)
  BY DEF Admits
<1>3. ctx.current_position_notional = 0 /\ ctx.nav = AccountNav
  BY DEF OrderContext, Context
<1> HIDE DEF ctx
<1>4. o.sec_type = "BAG" /\ o.quantity = quantity /\ o.limit_price = price
  BY DEF ComboOrder
<1>5. PriceOf(o, ctx) = price
  BY <1>4 DEF PriceOf
<1>6. Priced(o, ctx)
  BY <1>1, <1>5 DEF Priced
<1>7. PICK cost \in Nat : cost = price * quantity * 100 /\ cost = Notional(o, ctx)
  <2>1. Notional(o, ctx) = price * quantity * 100
    BY <1>4, <1>5 DEF Notional, IsOption
  <2>2. price * quantity * 100 \in Nat
    OBVIOUS
  <2> QED
    BY <2>1, <2>2
<1>8. cost <= MaxOrderNotional
  <2>1. ~(cost > MaxOrderNotional)
    BY <1>2, <1>6, <1>7 DEF NotionalTooLarge
  <2> QED
    BY <1>1, <2>1
<1>9. ASSUME AccountNav > 0 PROVE cost * Whole100 <= MaxPosition * AccountNav
  <2>1. ~((0 + cost) * Whole100 > MaxPosition * AccountNav)
    BY <1>2, <1>3, <1>6, <1>7, <1>9 DEF PositionTooLarge
  <2>2. PICK bound \in Int : bound = MaxPosition * AccountNav
    BY <1>1
  <2>3. ~((0 + cost) * Whole100 > bound)
    BY <2>1, <2>2
  <2>4. cost * Whole100 <= bound
    BY <2>3 DEF Whole100
  <2> QED
    BY <2>2, <2>4
<1> QED
  BY <1>7, <1>8, <1>9

\* A debit spread that was let through loses no more than the guard's two limits,
\* but for the rounding of its limit price.
THEOREM DebitLosesWithinLimits == ComboSpec => []DebitWithinLimits
<1>1. ComboInv => DebitWithinLimits
  <2> SUFFICES ASSUME ComboInv, stage = "placed", strategy \in Debits, order.action = "BUY",
                      order.limit_price > 0
               PROVE  LET loss == -(summary.max_loss \div SampleSteps) * 100 * order.quantity
                          rounding == 100 * order.quantity
                      IN  /\ loss <= 2 * MaxOrderNotional + rounding
                          /\ AccountNav > 0 => loss * Whole100
                                           <= 2 * MaxPosition * AccountNav + rounding * Whole100
    BY DEF DebitWithinLimits
  <2>1. /\ chain \in Chains /\ ShapeInv /\ summary = Summary
        /\ Admits(FALSE, order, OrderContext)
        /\ order.quantity \in Quantities /\ order.limit_price \in Nat
        /\ \E q \in Quantities, p \in LimitPrices : order = ComboOrder(q, p)
    BY DEF ComboInv, ComboTypeOK, OrderInv, Summarized, Ordered
  <2>2. PICK n \in 1..4 : HasLegs(n)
    BY <2>1, SomeLegs
  <2>3. /\ SampleSteps \in Nat \ {0} /\ Wing \in Nat /\ AccountNav \in Int /\ order.quantity \in Nat
        /\ MaxOrderNotional \in Nat /\ MaxPosition \in Nat
    <3>1. SampleSteps \in Nat \ {0} /\ Wing \in Nat /\ AccountNav \in Int /\ Quantities \subseteq Nat
      BY SettingsAssumption
    <3>2. MaxOrderNotional \in Nat /\ MaxPosition \in Nat
      BY LimitsAssumption DEF Whole100
    <3> QED
      BY <2>1, <3>1, <3>2
  <2>4. PICK net2 \in Int : net2 = NetPrice2
    BY <2>1, <2>2, NetIs
  <2>5. PICK q, p \in Nat : /\ q = order.quantity /\ p = order.limit_price /\ p > 0
                            /\ order = ComboOrder(q, p) /\ p \in LimitPrices
    <3>1. PICK q \in Quantities, p \in LimitPrices : order = ComboOrder(q, p)
      BY <2>1
    <3>2. q = order.quantity /\ p = order.limit_price
      BY <3>1 DEF ComboOrder
    <3> QED
      BY <2>1, <2>3, <3>1, <3>2
  <2>6. net2 >= 0 /\ net2 <= 2 * p + 1
    <3>1. net2 >= 0
      BY <2>4, <2>5 DEF ComboOrder
    <3>2. Abs(net2) = net2
      BY <3>1 DEF Abs
    <3>3. Abs(2 * p - net2) <= 1
      BY <2>4, <2>5, <3>2 DEF LimitPrices
    <3> QED
      BY <3>1, <3>3 DEF Abs
  <2>7. summary.max_loss \div SampleSteps = -net2
    <3>1. PICK net \in Int : net = SampleSteps * NetPrice2 /\ net = SampleSteps * net2
      BY <2>3, <2>4
    <3>2. PICK w \in Nat : w = Wing * SampleSteps
      BY <2>3
    <3>3. Summary.max_loss = -net
      <4>1. "BUY" \in {"BUY", "SELL"}
        OBVIOUS
      <4>2. OnePair("C", Wing, "BUY") \/ OnePair("P", -Wing, "BUY")
        BY <2>1 DEF ShapeInv, Debits
      <4> QED
        BY <2>1, <2>3, <3>1, <3>2, <4>1, <4>2, PairSummary
    <3>4. PICK a \in Int : a = -net /\ a = SampleSteps * (-net2)
      BY <2>3, <3>1
    <3> QED
      BY <2>1, <2>3, <3>3, <3>4, WholeShare
  <2>8. PICK cost \in Nat : cost = p * q * 100
    OBVIOUS
  <2>9. /\ cost <= MaxOrderNotional
        /\ AccountNav > 0 => cost * Whole100 <= MaxPosition * AccountNav
    <3>1. p \in Nat \ {0}
      BY <2>5
    <3>2. /\ p * q * 100 <= MaxOrderNotional
          /\ AccountNav > 0 => p * q * 100 * Whole100 <= MaxPosition * AccountNav
      BY <2>1, <2>3, <2>5, <3>1, ComboAdmitted
    <3> QED
      BY <2>8, <3>2
  <2>10. PICK loss, rounding \in Nat : /\ loss = net2 * 100 * q /\ rounding = 100 * q
                                       /\ loss <= 2 * cost + rounding
    <3>1. PICK gap \in Nat : 2 * p + 1 = net2 + gap
      <4>1. 2 * p + 1 - net2 \in Nat /\ 2 * p + 1 = net2 + (2 * p + 1 - net2)
        BY <2>6
      <4> QED
        BY <4>1
    <3>2. (2 * p + 1) * (100 * q) = net2 * (100 * q) + gap * (100 * q)
      BY <3>1
    <3>3. gap * (100 * q) \in Nat /\ 100 * q \in Nat
      OBVIOUS
    <3>4. (2 * p + 1) * (100 * q) = 2 * cost + 100 * q
      BY <2>8
    <3>5. PICK loss \in Nat : loss = net2 * 100 * q /\ loss = net2 * (100 * q)
      BY <2>6
    <3> QED
      BY <3>2, <3>3, <3>4, <3>5
  <2>11. -(summary.max_loss \div SampleSteps) * 100 * order.quantity = loss /\ 100 * order.quantity = rounding
    <3>1. PICK per \in Int : per = summary.max_loss \div SampleSteps /\ per = -net2
      BY <2>7
    <3>2. -(per * 100 * q) = loss
      BY <2>10, <3>1
    <3> QED
      BY <2>5, <2>10, <3>1, <3>2
  <2>12. loss <= 2 * MaxOrderNotional + rounding
    BY <2>3, <2>9, <2>10
  <2>13. ASSUME AccountNav > 0 PROVE loss * Whole100 <= 2 * MaxPosition * AccountNav + rounding * Whole100
    <3>1. PICK bound \in Int : bound = MaxPosition * AccountNav /\ 2 * MaxPosition * AccountNav = 2 * bound
      BY <2>3
    <3>2. cost * Whole100 <= bound
      BY <2>9, <2>13, <3>1
    <3>3. loss * Whole100 <= 2 * bound + rounding * Whole100
      BY <2>10, <3>2 DEF Whole100
    <3> QED
      BY <3>1, <3>3
  <2> QED
    BY <2>11, <2>12, <2>13
<1> QED
  BY <1>1, ComboInvariance, PTL
=============================================================================
