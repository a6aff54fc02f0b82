------------------------------ MODULE PriceWalk ------------------------------
(***************************************************************************)
(* execution/engine.py's submit_with_price_walk and FillTracker over the   *)
(* asynchronous broker of broker/ib.py: place_order returns a snapshot of  *)
(* an order that goes on trading, cancel_order only asks.  The walk sends  *)
(* a limit order through the guard, and while the snapshot is not "filled" *)
(* asks to cancel it and sends the same quantity a step further, max_steps *)
(* times.  A kill command may come at any point of the walk.               *)
(***************************************************************************)
EXTENDS RiskChecks, Sequences

CONSTANTS
    Action,     \* BUY or SELL
    Quantity,   \* quantity of the order
    Limits,     \* what its limit price may be
    Increment,  \* step_increment
    MaxSteps,   \* max_steps
    Nav,        \* nav of the GuardContext, which is taken once
    MaxKills,   \* bound on the kill commands
    MaxFaults   \* bound on calls of the broker that raise

ASSUME WalkAssumption ==
    /\ Action \in {"BUY", "SELL"}
    /\ {Quantity, Increment} \subseteq Nat \ {0}
    /\ {MaxSteps, Nav, MaxKills, MaxFaults} \subseteq Nat
    /\ \A price \in Limits : price \in Nat /\ price > MaxSteps * Increment

VARIABLES
    pc,       \* where the walk is
    limit,    \* current.limit_price
    steps,    \* steps
    status,   \* status.status of the last snapshot: "filled" or anything else
    orders,   \* the orders sent, by id: limit, shares traded, state at the
              \* exchange, and whether cancel_order or cancel_all was called on it
    killed,   \* kill_switch_active
    kills,    \* kill commands so far
    faults,   \* calls that raised so far
    fills     \* FillTracker: how often each order was recorded as filled

\* History: orders sent after the kill.
VARIABLE late

walk == <<pc, limit, steps, status>>
switch == <<killed, kills>>
vars == <<walk, orders, switch, faults, fills, late>>

Running == {"check", "send", "look", "test", "cancel"}
Ended == {"done", "rejected", "raised"}
Ids == DOMAIN orders
Last == Len(orders)
Working == {i \in Ids : orders[i].state = "working"}
Unasked == {i \in Ids : ~orders[i].asked}

Init ==
    /\ pc = "check"
    /\ limit \in Limits
    /\ steps = 0
    /\ status = "none"
    /\ orders = <<>>
    /\ killed = FALSE
    /\ kills = 0
    /\ faults = 0
    /\ fills = <<>>
    /\ late = {}

-----------------------------------------------------------------------------
(* guard.place_order.                                                      *)

Order ==
    [sec_type |-> "STK", action |-> Action, quantity |-> Quantity,
     order_type |-> "LMT", limit_price |-> limit, stop_price |-> 0]

GuardAdmits == Admits(killed, Order, Context(Nav, 0, TRUE))

\* Mutant of Check: a step of the walk goes past the guard.
CheckFirstOnly ==
    /\ pc = "check"
    /\ steps = 0 => GuardAdmits
    /\ pc' = "send"
    /\ UNCHANGED <<limit, steps, status, orders, switch, faults, fills, late>>

\* Mutant of Check: the steps of the walk are not checked against the switch.
CheckKillOnce ==
    /\ pc = "check"
    /\ Admits(killed /\ steps = 0, Order, Context(Nav, 0, TRUE))
    /\ pc' = "send"
    /\ UNCHANGED <<limit, steps, status, orders, switch, faults, fills, late>>

Check ==
    /\ pc = "check"
    /\ GuardAdmits
    /\ pc' = "send"
    /\ UNCHANGED <<limit, steps, status, orders, switch, faults, fills, late>>

\* GuardRejection leaves the walk.
Reject ==
    /\ pc = "check"
    /\ ~GuardAdmits
    /\ pc' = "rejected"
    /\ UNCHANGED <<limit, steps, status, orders, switch, faults, fills, late>>

\* ib.placeOrder.
Send ==
    /\ pc = "send"
    /\ orders' = Append(orders, [limit |-> limit, traded |-> 0, state |-> "working", asked |-> FALSE])
    /\ fills' = Append(fills, 0)
    /\ late' = IF killed THEN late \cup {Last + 1} ELSE late
    /\ pc' = "look"
    /\ UNCHANGED <<limit, steps, status, switch, faults>>

\* _trade_to_status after ib.sleep(0): news of a fill may not have come yet.
Look ==
    /\ pc = "look"
    /\ status' \in {"open"} \cup (IF orders[Last].state = "filled" THEN {"filled"} ELSE {})
    /\ pc' = "test"
    /\ UNCHANGED <<limit, steps, orders, switch, faults, fills, late>>

-----------------------------------------------------------------------------
(* submit_with_price_walk.                                                 *)

\* The loop ends, and the walk is written to the audit table.
Finish ==
    /\ pc = "test"
    /\ status = "filled" \/ steps >= MaxSteps
    /\ pc' = "done"
    /\ UNCHANGED <<limit, steps, status, orders, switch, faults, fills, late>>

Again ==
    /\ pc = "test"
    /\ status # "filled" /\ steps < MaxSteps
    /\ pc' = "cancel"
    /\ UNCHANGED <<limit, steps, status, orders, switch, faults, fills, late>>

\* Mutant of Cancel: the order before the next one is left alone.
CancelForgotten ==
    /\ pc = "cancel"
    /\ limit' = IF Action = "BUY" THEN limit + Increment ELSE limit - Increment
    /\ steps' = steps + 1
    /\ pc' = "check"
    /\ UNCHANGED <<status, orders, switch, faults, fills, late>>

\* cancel_order asks, whether or not the order is still open; the next limit
\* is a step nearer the market.
Cancel ==
    /\ pc = "cancel"
    /\ orders' = [orders EXCEPT ![Last].asked = TRUE]
    /\ limit' = IF Action = "BUY" THEN limit + Increment ELSE limit - Increment
    /\ steps' = steps + 1
    /\ pc' = "check"
    /\ UNCHANGED <<status, switch, faults, fills, late>>

\* placeOrder or cancelOrder raises (no connection): the exception leaves the
\* walk, what was sent stays.
CallRaises ==
    /\ pc \in {"send", "cancel"}
    /\ faults < MaxFaults
    /\ faults' = faults + 1
    /\ pc' = "raised"
    /\ UNCHANGED <<limit, steps, status, orders, switch, fills, late>>

Walk == Check \/ Reject \/ Send \/ Look \/ Finish \/ Again \/ Cancel \/ CallRaises

-----------------------------------------------------------------------------
(* FillTracker.record, called with snapshots of any order any number of    *)
(* times; one that is not "filled" changes nothing.                        *)

\* Mutant of Record: the tracker forgets what it has seen.
RecordTwice(i) ==
    /\ orders[i].state = "filled"
    /\ fills[i] < 2
    /\ fills' = [fills EXCEPT ![i] = @ + 1]
    /\ UNCHANGED <<walk, orders, switch, faults, late>>

Record(i) ==
    /\ orders[i].state = "filled"
    /\ fills[i] = 0
    /\ fills' = [fills EXCEPT ![i] = 1]
    /\ UNCHANGED <<walk, orders, switch, faults, late>>

-----------------------------------------------------------------------------
(* The exchange and the kill command.                                      *)

\* Some or all of what is left of an order trades, asked to cancel or not.
Trade(i) ==
    /\ i \in Working
    /\ \E shares \in 1..(Quantity - orders[i].traded) :
         orders' = [orders EXCEPT
                      ![i].traded = @ + shares,
                      ![i].state = IF orders[i].traded + shares = Quantity THEN "filled" ELSE @]
    /\ UNCHANGED <<walk, switch, faults, fills, late>>

\* The request to cancel arrives before the order has traded.
CancelArrives(i) ==
    /\ i \in Working
    /\ orders[i].asked
    /\ orders' = [orders EXCEPT ![i].state = "cancelled"]
    /\ UNCHANGED <<walk, switch, faults, fills, late>>

\* engage_kill_switch: reqGlobalCancel asks for every order sent so far.
Kill ==
    /\ kills < MaxKills
    /\ kills' = kills + 1
    /\ killed' = TRUE
    /\ orders' = [i \in Ids |-> [orders[i] EXCEPT !.asked = TRUE]]
    /\ UNCHANGED <<walk, faults, fills, late>>

-----------------------------------------------------------------------------

Next ==
    \/ Walk
    \/ \E i \in Ids : Record(i)
    \/ \E i \in Ids : Trade(i)
    \/ \E i \in Ids : CancelArrives(i)
    \/ Kill

Spec == Init /\ [][Next]_vars

-----------------------------------------------------------------------------
(* Properties.                                                             *)

SentOrder == [limit : Nat, traded : 0..Quantity,
              state : {"working", "filled", "cancelled"}, asked : BOOLEAN]

\* Every variable has its type, and the walk sends no more orders than it has
\* steps.
TypeOK ==
    /\ pc \in Running \cup Ended
    /\ limit \in Nat /\ steps \in 0..MaxSteps
    /\ status \in {"none", "open", "filled"}
    /\ orders \in Seq(SentOrder) /\ Last <= MaxSteps + 1
    /\ fills \in Seq(0..1) /\ Len(fills) = Last
    /\ killed \in BOOLEAN /\ kills \in 0..MaxKills /\ faults \in 0..MaxFaults
    /\ late \subseteq Ids

\* At most one order of the walk is in the market without a request to cancel
\* it, the last one, so whatever trades beyond the quantity traded on an order
\* that was asked to cancel: the cancel lost a race, or the snapshot was old.
OneOrderUnasked == Unasked \subseteq {Last}

\* When the guard rejects a step, by the switch or by a limit the walk has
\* reached, the exception leaves nothing behind that nobody asked to cancel.
RejectedLeavesNothing == pc = "rejected" => Unasked = {}

Within(price) ==
    /\ price * Quantity <= MaxOrderNotional
    /\ Action = "BUY" /\ Nav > 0 => price * Quantity * Whole100 <= MaxPosition * Nav

\* Every order, the later steps included, was within max_order_notional and
\* max_position_pct_nav when it was sent.
EveryStepChecked == \A i \in Ids : Within(orders[i].limit)

\* A kill in the middle of a walk lets one more order out, the one that was
\* checked; all the others are asked to cancel.
KillStopsWalk == killed => Cardinality(late) <= 1 /\ Unasked \subseteq late

\* The tracker never holds more shares of an order than have traded: it records
\* each fill once, and nothing of an order that traded in part.
FillsRecordedOnce == \A i \in Ids : fills[i] * Quantity <= orders[i].traded

\* What makes them inductive: between the cancel and the next order nothing is
\* left unasked, the steps count the orders, what the guard has just admitted
\* is within the limits, and once an order went out after the kill no other is
\* past the check.
Between == pc \in {"check", "send", "rejected"}
WalkInv ==
    /\ pc \in {"check", "send"} => Last = steps
    /\ pc \in {"look", "test", "cancel"} => Last = steps + 1
    /\ pc = "cancel" => steps < MaxSteps
    /\ limit > (MaxSteps - steps) * Increment
    /\ Between => Unasked = {}
    /\ pc = "send" => Within(limit)
    /\ late \subseteq {Last}
    /\ late # {} => killed /\ pc # "send"

WalkIInv == TypeOK /\ WalkInv /\ OneOrderUnasked /\ EveryStepChecked /\ KillStopsWalk

\* What makes the record of fills inductive: an order is filled when all of it
\* has traded, stays so, and only then is it recorded.
TradedInv ==
    \A i \in Ids : /\ orders[i].state = "filled" <=> orders[i].traded = Quantity
                   /\ fills[i] = 1 => orders[i].state = "filled"

\* The inductive invariant.
IInv == WalkIInv /\ TradedInv
=============================================================================
