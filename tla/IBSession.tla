------------------------------- MODULE IBSession -------------------------------
(***************************************************************************)
(* The process of main.py on a real Gateway (broker/ib.py): it connects at *)
(* start or falls back to the fake broker for good, the scheduler fires    *)
(* the pre-market plan, the plan places brackets leg by leg through the    *)
(* guard (execution/engine.py), the market trades what was transmitted,    *)
(* the Gateway restarts, the link drops, commands kill and resume, and the *)
(* process ends and is started again.                                      *)
(*                                                                         *)
(* The kill flag and the KILL file are one switch here; KillSwitch has     *)
(* them apart.  Prices, sizes and the limits other than the number of      *)
(* positions only decide which legs the guard admits, which is left open.  *)
(* The order of the signals matters to nothing stated here: the plan takes *)
(* them in any order.                                                      *)
(***************************************************************************)
EXTENDS Naturals, FiniteSets

CONSTANTS
    Symbols,   \* the universe
    MaxDays,   \* the days of a behaviour
    MaxOpen,   \* max_open_positions
    None       \* no bracket

ASSUME BoundsAssumption == {MaxDays, MaxOpen} \subseteq Nat \ {0}

Days == 1..MaxDays

\* The plan of a day enters a symbol once, so the two name a bracket.
Brackets == Days \X Symbols

ASSUME NoneAssumption == None \notin Brackets

VARIABLES
    gateway,   \* whether IB Gateway accepts connections
    broker,    \* state.broker of the process, "none" while there is no process
    link,      \* ib.isConnected()
    killed,    \* kill_switch_active
    sweeping,  \* engage_kill_switch is about to call cancel_all
    swept      \* history: a cancel_all reached IB since the switch was thrown

VARIABLES
    day,
    trading,   \* is_trading_day
    session,   \* the exchange is open
    fired      \* the cron trigger of the plan has fired today

VARIABLES
    pc,        \* the leg the plan is about to place, "signal" between brackets
    todo,      \* the brackets it has still to try
    cur,       \* the bracket it is placing
    full,      \* ctx: open_positions >= max_open_positions
    checked    \* check_order has passed, broker.place_order has not been called

VARIABLES
    entry,     \* what the Gateway has of each bracket's entry,
    stop,      \*   its stop
    target     \*   and its target

world == <<gateway, broker, link>>
switch == <<killed, sweeping, swept>>
clock == <<day, trading, session, fired>>
plan == <<pc, todo, cur, full, checked>>
legs == <<entry, stop, target>>
vars == <<world, switch, clock, plan, legs>>

\* "held" is an order that was sent with transmit False.
LegStates == {"none", "held", "live", "done"}

NoLeg == [b \in Brackets |-> "none"]
Idle == pc' = "idle" /\ todo' = {} /\ cur' = None /\ full' = FALSE /\ checked' = FALSE

Init ==
    /\ gateway \in BOOLEAN
    /\ broker = "none"
    /\ link = FALSE
    /\ killed = FALSE /\ sweeping = FALSE /\ swept = FALSE
    /\ day = 1 /\ trading \in BOOLEAN /\ session = FALSE /\ fired = FALSE
    /\ pc = "idle" /\ todo = {} /\ cur = None /\ full = FALSE /\ checked = FALSE
    /\ entry = NoLeg /\ stop = NoLeg /\ target = NoLeg

Open(b) == entry[b] = "done" /\ "done" \notin {stop[b], target[b]}

\* len(broker.positions()), one for each symbol held.
Positions == {s \in Symbols : \E d \in Days : Open(<<d, s>>)}

-----------------------------------------------------------------------------
(* The process and its connection.                                         *)

\* main, build_broker: IBBroker.connect, or else FakeBroker and FakeMarketData.
Boot ==
    /\ broker = "none"
    /\ \E connected \in BOOLEAN :
        /\ connected => gateway
        /\ link' = connected
        /\ broker' = IF connected THEN "ib" ELSE "fake"
    /\ UNCHANGED <<gateway, switch, clock, plan, legs>>

\* The process ends: by the finally of main, which waits for no job, or by a
\* crash.  The file and the orders stay.
Exit ==
    /\ broker # "none"
    /\ broker' = "none"
    /\ link' = FALSE
    /\ sweeping' = FALSE
    /\ Idle
    /\ UNCHANGED <<gateway, killed, swept, clock, legs>>

\* The socket fails; _on_disconnected logs it.
Drop ==
    /\ link
    /\ link' = FALSE
    /\ UNCHANGED <<gateway, broker, switch, clock, plan, legs>>

Unless(state, leg) == [b \in Brackets |-> IF leg[b] = state THEN "none" ELSE leg[b]]

\* The Gateway goes down (IBC restarts it every night): it forgets what it was
\* never told to transmit.
GatewayStops ==
    /\ gateway
    /\ gateway' = FALSE
    /\ link' = FALSE
    /\ entry' = Unless("held", entry)
    /\ stop' = Unless("held", stop)
    /\ target' = Unless("held", target)
    /\ UNCHANGED <<broker, switch, clock, plan>>

GatewayStarts ==
    /\ ~gateway
    /\ gateway' = TRUE
    /\ UNCHANGED <<broker, link, switch, clock, plan, legs>>

-----------------------------------------------------------------------------
(* The plan.                                                               *)

Today == {day} \X Symbols

\* Mutant of Fire: the job is scheduled without _guarded.
FireEveryDay ==
    /\ broker # "none"
    /\ ~session /\ ~fired
    /\ fired' = TRUE
    /\ IF broker = "ib" /\ link
       THEN /\ pc' = "signal"
            /\ todo' \in SUBSET Today
            /\ UNCHANGED <<cur, full, checked>>
       ELSE UNCHANGED plan
    /\ UNCHANGED <<world, switch, day, trading, session, legs>>

\* The cron trigger fires _guarded(run_pre_market_plan).  With the fake broker
\* there are no bars and so no signals; without a link get_bars raises.
Fire ==
    /\ broker # "none"
    /\ ~session /\ ~fired
    /\ fired' = TRUE
    /\ IF trading /\ broker = "ib" /\ link
       THEN /\ pc' = "signal"
            /\ todo' \in SUBSET Today
            /\ UNCHANGED <<cur, full, checked>>
       ELSE UNCHANGED plan
    /\ UNCHANGED <<world, switch, day, trading, session, legs>>

\* qualify_contract and positions: a bracket and the context of its three legs.
Qualify(b) ==
    /\ pc = "signal"
    /\ link
    /\ b \in todo
    /\ cur' = b
    /\ todo' = todo \ {b}
    /\ full' = (Cardinality(Positions) >= MaxOpen)
    /\ pc' = "entry"
    /\ UNCHANGED <<checked, world, switch, clock, legs>>

\* check_order admits the next leg.
Check ==
    /\ pc \in {"entry", "stop", "target"}
    /\ ~checked
    /\ ~killed
    /\ ~full
    /\ checked' = TRUE
    /\ UNCHANGED <<pc, todo, cur, full, world, switch, clock, legs>>

\* GuardRejection, of the switch, the count or another check: the plan goes on
\* to the next signal and leaves the legs placed where they are.
Reject ==
    /\ pc \in {"entry", "stop", "target"}
    /\ ~checked
    /\ pc' = "signal"
    /\ cur' = None
    /\ full' = FALSE
    /\ UNCHANGED <<todo, checked, world, switch, clock, legs>>

\* Mutant of SendEntry: the entry goes out with transmit True.
SendEntryAtOnce ==
    /\ pc = "entry"
    /\ checked /\ link
    /\ entry' = [entry EXCEPT ![cur] = "live"]
    /\ checked' = FALSE
    /\ pc' = "stop"
    /\ UNCHANGED <<todo, cur, full, stop, target, world, switch, clock>>

\* broker.place_order of the entry, transmit False.
SendEntry ==
    /\ pc = "entry"
    /\ checked /\ link
    /\ entry' = [entry EXCEPT ![cur] = "held"]
    /\ checked' = FALSE
    /\ pc' = "stop"
    /\ UNCHANGED <<todo, cur, full, stop, target, world, switch, clock>>

\* Of the stop, transmit False, with the entry as its parent; IB refuses a
\* child whose parent is gone.
SendStop ==
    /\ pc = "stop"
    /\ checked /\ link
    /\ stop' = IF entry[cur] = "held" THEN [stop EXCEPT ![cur] = "held"] ELSE stop
    /\ checked' = FALSE
    /\ pc' = "target"
    /\ UNCHANGED <<todo, cur, full, entry, target, world, switch, clock>>

\* Mutant of SendTarget: the children are sent without parent_id.
SendTargetUnlinked ==
    /\ pc = "target"
    /\ checked /\ link
    /\ target' = [target EXCEPT ![cur] = "live"]
    /\ checked' = FALSE
    /\ pc' = "signal"
    /\ cur' = None
    /\ full' = FALSE
    /\ UNCHANGED <<todo, entry, stop, world, switch, clock>>

\* Of the target, transmit True, which transmits the parent and its children.
SendTarget ==
    /\ pc = "target"
    /\ checked /\ link
    /\ IF entry[cur] = "held"
       THEN /\ entry' = [entry EXCEPT ![cur] = "live"]
            /\ stop' = [stop EXCEPT ![cur] = "live"]
            /\ target' = [target EXCEPT ![cur] = "live"]
       ELSE UNCHANGED legs
    /\ checked' = FALSE
    /\ pc' = "signal"
    /\ cur' = None
    /\ full' = FALSE
    /\ UNCHANGED <<todo, world, switch, clock>>

\* A call raises anything else (no connection, an unknown contract, the store):
\* nothing catches it and the job ends half-way.
Abort ==
    /\ pc # "idle"
    /\ Idle
    /\ UNCHANGED <<world, switch, clock, legs>>

PlanEnds ==
    /\ pc = "signal"
    /\ todo = {}
    /\ Idle
    /\ UNCHANGED <<world, switch, clock, legs>>

-----------------------------------------------------------------------------
(* Kill and resume, from the web app's thread.                             *)

\* engage_kill_switch: the flag and the file.
Engage ==
    /\ broker # "none"
    /\ ~sweeping
    /\ killed' = TRUE
    /\ sweeping' = TRUE
    /\ UNCHANGED <<swept, world, clock, plan, legs>>

\* Mutant of CancelAll: it cancels the orders that work and not those held.
CancelLive ==
    /\ sweeping
    /\ sweeping' = FALSE
    /\ IF link
       THEN /\ entry' = Unless("live", entry)
            /\ stop' = Unless("live", stop)
            /\ target' = Unless("live", target)
            /\ swept' = killed
       ELSE UNCHANGED <<legs, swept>>
    /\ UNCHANGED <<killed, world, clock, plan>>

\* cancel_all: reqGlobalCancel, unless the link is down and it raises, or the
\* broker is the fake one and has nothing to cancel.
CancelAll ==
    /\ sweeping
    /\ sweeping' = FALSE
    /\ IF link
       THEN /\ entry' = Unless("held", Unless("live", entry))
            /\ stop' = Unless("held", Unless("live", stop))
            /\ target' = Unless("held", Unless("live", target))
            /\ swept' = killed
       ELSE UNCHANGED <<legs, swept>>
    /\ UNCHANGED <<killed, world, clock, plan>>

\* reset_kill_switch, or KILL deleted by hand.
Resume ==
    /\ killed
    /\ killed' = FALSE
    /\ swept' = FALSE
    /\ UNCHANGED <<sweeping, world, clock, plan, legs>>

-----------------------------------------------------------------------------
(* The exchange and the clock.                                             *)

\* The market opens, whether or not a process was there for the trigger.
MarketOpens ==
    /\ trading /\ ~session
    /\ session' = TRUE
    /\ UNCHANGED <<day, trading, fired, world, switch, plan, legs>>

FillEntry(b) ==
    /\ session
    /\ entry[b] = "live"
    /\ entry' = [entry EXCEPT ![b] = "done"]
    /\ UNCHANGED <<stop, target, world, switch, clock, plan>>

\* An exit of an open position trades; IB cancels the other one.
FillStop(b) ==
    /\ session
    /\ entry[b] = "done" /\ stop[b] = "live"
    /\ stop' = [stop EXCEPT ![b] = "done"]
    /\ target' = [target EXCEPT ![b] = "none"]
    /\ UNCHANGED <<entry, world, switch, clock, plan>>

FillTarget(b) ==
    /\ session
    /\ entry[b] = "done" /\ target[b] = "live"
    /\ target' = [target EXCEPT ![b] = "done"]
    /\ stop' = [stop EXCEPT ![b] = "none"]
    /\ UNCHANGED <<entry, world, switch, clock, plan>>

NextDay ==
    /\ day < MaxDays
    /\ day' = day + 1
    /\ trading' \in BOOLEAN
    /\ fired' = FALSE
    /\ session' = FALSE

\* The close of a session, at which every order expires: all legs have tif DAY.
\* A plan is over by then: it has had the whole day.
Close ==
    /\ session
    /\ pc = "idle"
    /\ NextDay
    /\ entry' = Unless("held", Unless("live", entry))
    /\ stop' = Unless("held", Unless("live", stop))
    /\ target' = Unless("held", Unless("live", target))
    /\ UNCHANGED <<world, switch, plan>>

\* A day without a session passes, and no order expires.
HolidayPasses ==
    /\ ~trading
    /\ pc = "idle"
    /\ NextDay
    /\ UNCHANGED <<world, switch, plan, legs>>

-----------------------------------------------------------------------------
PlanStep ==
    \/ \E b \in Brackets : Qualify(b)
    \/ Check \/ Reject \/ SendEntry \/ SendStop \/ SendTarget
    \/ Abort \/ PlanEnds

Next ==
    \/ Boot \/ Exit \/ Drop \/ GatewayStops \/ GatewayStarts
    \/ Fire \/ PlanStep
    \/ Engage \/ CancelAll \/ Resume
    \/ MarketOpens
    \/ \E b \in Brackets : FillEntry(b) \/ FillStop(b) \/ FillTarget(b)
    \/ Close \/ HolidayPasses

Spec == Init /\ [][Next]_vars

\* The Gateway comes back, the scheduler fires, a plan goes on, and the process
\* is started again when it has ended.
FairSpec ==
    /\ Spec
    /\ WF_vars(GatewayStarts)
    /\ WF_vars(Boot)
    /\ WF_vars(Fire)
    /\ WF_vars(PlanStep)

-----------------------------------------------------------------------------
(* Properties.                                                             *)

\* Every variable has its type.
WorldOK ==
    /\ gateway \in BOOLEAN /\ broker \in {"none", "ib", "fake"} /\ link \in BOOLEAN
    /\ killed \in BOOLEAN /\ sweeping \in BOOLEAN /\ swept \in BOOLEAN
    /\ day \in Days /\ trading \in BOOLEAN /\ session \in BOOLEAN /\ fired \in BOOLEAN
PlanOK ==
    /\ pc \in {"idle", "signal", "entry", "stop", "target"}
    /\ todo \in SUBSET Brackets
    /\ cur \in Brackets \cup {None}
    /\ full \in BOOLEAN /\ checked \in BOOLEAN
LegsOK ==
    /\ entry \in [Brackets -> LegStates]
    /\ stop \in [Brackets -> LegStates]
    /\ target \in [Brackets -> LegStates]
TypeOK == WorldOK /\ PlanOK /\ LegsOK

\* The phase a bracket is in, seen from its legs.
PhaseOf(e, s, t) ==
    IF {e, s, t} \subseteq {"none", "held"} THEN "absent"
    ELSE IF e = "live" /\ s = "live" /\ t = "live" THEN "working"
    ELSE IF e # "done" THEN "torn"
    ELSE IF s = "live" /\ t = "live" THEN "open"
    ELSE IF s = "none" /\ t = "none" THEN "bare"
    ELSE IF (s = "done" /\ t = "none") \/ (s = "none" /\ t = "done") THEN "closed"
    ELSE "torn"
Phase(b) == PhaseOf(entry[b], stop[b], target[b])

\* However the link, the Gateway, the process, a kill or the guard cut a bracket
\* off between two legs, it is a bracket: it works as a whole or not at all, and
\* no entry trades before its exits wait.  (transmit and parent_id in
\* engine.py; the docstring's "treat the whole bracket as not placed".)
Promise == INSTANCE Bracket WITH phase <- [b \in Brackets |-> Phase(b)]
IsBracket == Promise!Spec

\* Once a kill's cancel_all has reached IB, no leg works until somebody resumes:
\* one that was checked before the kill and sent after it comes to nothing, as
\* it is held or its parent is gone.  (The straggler of KillSwitch is an order
\* without a parent that is sent with transmit True, as the end-of-day job's.)
SweptStaysQuiet ==
    swept => \A b \in Brackets : "live" \notin {entry[b], stop[b], target[b]}

\* Over crashes, holidays and days a symbol never has two entries in the market.
OneEntryPerSession ==
    \A a, b \in Brackets :
        entry[a] = "live" /\ entry[b] = "live" /\ a[2] = b[2] => a = b

\* What makes them inductive.  A bracket that is not begun has no legs; the one
\* that is being placed has those sent so far, or none of them any more.
Untouched(b) == entry[b] = "none" /\ stop[b] = "none" /\ target[b] = "none"
StepInv ==
    /\ pc = "idle" => todo = {}
    /\ pc \in {"idle", "signal"} => ~checked
    /\ pc \in {"entry", "stop", "target"} <=> cur # None
    /\ pc # "idle" => trading /\ fired
AheadInv ==
    /\ cur # None => cur[1] = day /\ cur \notin todo
    /\ \A b \in todo : b[1] = day /\ Untouched(b)
    /\ \A b \in Brackets : b[1] > day \/ (b[1] = day /\ ~(fired /\ trading)) => Untouched(b)
CurrentInv ==
    /\ pc = "entry" => Untouched(cur)
    /\ pc = "stop" => Untouched(cur) \/ (entry[cur] = "held" /\ stop[cur] = "none" /\ target[cur] = "none")
    /\ pc = "target" => Untouched(cur) \/ (entry[cur] = "held" /\ stop[cur] = "held" /\ target[cur] = "none")
LegInv ==
    \A b \in Brackets :
        /\ Phase(b) # "torn"
        /\ target[b] # "held"
        /\ stop[b] = "held" => entry[b] = "held"
        /\ entry[b] \in {"held", "live"} => b[1] = day
SweptInv ==
    swept =>
        /\ killed
        /\ pc = "target" \/ (pc = "stop" /\ checked) => entry[cur] = "none"

\* The inductive invariant.
IInv ==
    /\ TypeOK
    /\ StepInv /\ AheadInv /\ CurrentInv
    /\ LegInv /\ OneEntryPerSession
    /\ SweptInv /\ SweptStaysQuiet

-----------------------------------------------------------------------------
(* What the documentation says and the code does not do.                   *)

\* DEPLOY.md:89-91 has the daily restart of the Gateway "handled" by IBC "rather
\* than by this app": with the Gateway up, a running process gets its link back.
\* Nothing calls reconnect_with_backoff.
LinkComesBack ==
    broker = "ib" /\ gateway /\ ~link ~> link \/ ~gateway \/ broker = "none"

\* lifecycle/eod.py:64-65 speaks of a position's risk "against the stop
\* overnight": shares are held with a stop, unless a kill took it.
HeldIsProtected == \A b \in Brackets : Open(b) => stop[b] = "live" \/ killed

\* README.md:9-12: a kill "cancels every open order".  So one that raises
\* nothing leaves none at IB.
CompletedKillCancels ==
    [][sweeping /\ ~sweeping' /\ broker' # "none" /\ (link \/ broker = "fake")
          => \A b \in Brackets : entry'[b] # "live"]_vars
=============================================================================
