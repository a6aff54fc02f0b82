---------------------------- MODULE IBSessionProofs ----------------------------
(***************************************************************************)
(* For any symbols, number of days and limit on positions: a bracket on IB *)
(* works as a whole or not at all, no leg works after a kill has reached   *)
(* IB, and no symbol has two entries in the market, wherever the link, the *)
(* Gateway, the process or a command cut a plan off.                       *)
(***************************************************************************)
EXTENDS IBSession, TLAPS

\* A bracket is its day and its symbol.
LEMMA BracketIsPair ==
    ASSUME NEW a \in Brackets, NEW b \in Brackets, a[1] = b[1], a[2] = b[2]
    PROVE  a = b
BY DEF Brackets

\* Its day is a number.
LEMMA DayOfBracket == \A b \in Brackets : b[1] \in Nat
BY BoundsAssumption DEF Brackets, Days

\* What the phases say of the three legs.
LEMMA Phases ==
    ASSUME NEW e \in LegStates, NEW s \in LegStates, NEW t \in LegStates
    PROVE  /\ PhaseOf(e, s, t) = "absent" <=> {e, s, t} \subseteq {"none", "held"}
           /\ PhaseOf(e, s, t) = "working" <=> e = "live" /\ s = "live" /\ t = "live"
           /\ PhaseOf(e, s, t) = "open" <=> e = "done" /\ s = "live" /\ t = "live"
           /\ PhaseOf(e, s, t) = "closed" <=>
                  e = "done" /\ ((s = "done" /\ t = "none") \/ (s = "none" /\ t = "done"))
           /\ PhaseOf(e, s, t) = "bare" <=> e = "done" /\ s = "none" /\ t = "none"
           /\ PhaseOf(e, s, t) \in {"absent", "working", "open", "closed", "bare", "torn"}
BY DEF LegStates, PhaseOf

\* Cancelling leaves every other state as it was.
LEMMA UnlessAt ==
    ASSUME NEW leg \in [Brackets -> LegStates], NEW state
    PROVE  /\ Unless(state, leg) \in [Brackets -> LegStates]
           /\ \A b \in Brackets :
                  Unless(state, leg)[b] = IF leg[b] = state THEN "none" ELSE leg[b]
BY DEF Unless, LegStates

\* Both kinds that can be cancelled.
LEMMA SweptLeg ==
    ASSUME NEW leg \in [Brackets -> LegStates]
    PROVE  /\ Unless("held", Unless("live", leg)) \in [Brackets -> LegStates]
           /\ \A b \in Brackets :
                  Unless("held", Unless("live", leg))[b] =
                      IF leg[b] = "done" THEN "done" ELSE "none"
BY UnlessAt DEF LegStates

\* Nothing has happened yet.
LEMMA InitIInv == Init => IInv
<1> SUFFICES ASSUME Init PROVE IInv
  OBVIOUS
<1> USE DEF Init, NoLeg, Untouched
<1>1. TypeOK
  <2>1. WorldOK
    <3>1. day \in Days
      BY BoundsAssumption DEF Days
    <3> QED
      BY <3>1 DEF WorldOK
  <2>2. PlanOK /\ LegsOK
    BY DEF PlanOK, LegsOK, LegStates
  <2> QED
    BY <2>1, <2>2 DEF TypeOK
<1>2. StepInv /\ AheadInv /\ CurrentInv
  BY DEF StepInv, AheadInv, CurrentInv
<1>3. \A b \in Brackets : Phase(b) = "absent"
  BY Phases DEF Phase, LegStates
<1>4. LegInv
  BY <1>3 DEF LegInv
<1>5. SweptInv /\ SweptStaysQuiet /\ OneEntryPerSession
  BY DEF SweptInv, SweptStaysQuiet, OneEntryPerSession
<1> QED
  BY <1>1, <1>2, <1>4, <1>5 DEF IInv

\* Every step keeps the types: those of the world and the clock,
LEMMA NextWorldOK == WorldOK /\ [Next]_vars => WorldOK'
<1> SUFFICES ASSUME WorldOK, [Next]_vars PROVE WorldOK'
  OBVIOUS
<1> USE DEF WorldOK, world, switch, clock
<1>1. CASE Boot \/ Exit \/ Drop
  BY <1>1 DEF Boot, Exit, Drop
<1>2. CASE GatewayStops \/ GatewayStarts \/ Fire
  BY <1>2 DEF GatewayStops, GatewayStarts, Fire
<1>3. CASE PlanStep
  BY <1>3 DEF PlanStep, Qualify, Check, Reject, SendEntry, SendStop, SendTarget, Abort, PlanEnds
<1>4. CASE Engage \/ CancelAll \/ Resume
  BY <1>4 DEF Engage, CancelAll, Resume
<1>5. ASSUME NEW b \in Brackets, FillEntry(b) \/ FillStop(b) \/ FillTarget(b) PROVE WorldOK'
  BY <1>5 DEF FillEntry, FillStop, FillTarget
<1>6. CASE MarketOpens
  BY <1>6 DEF MarketOpens
<1>7. CASE Close \/ HolidayPasses
  <2>1. day' \in Days
    BY <1>7, BoundsAssumption DEF Close, HolidayPasses, NextDay, Days
  <2>2. trading' \in BOOLEAN /\ session' = FALSE /\ fired' = FALSE /\ UNCHANGED <<world, switch>>
    BY <1>7 DEF Close, HolidayPasses, NextDay
  <2> QED
    BY <2>1, <2>2
<1>8. CASE UNCHANGED vars
  BY <1>8 DEF vars
<1> QED
  BY <1>1, <1>2, <1>3, <1>4, <1>5, <1>6, <1>7, <1>8 DEF Next

\* of the plan,
LEMMA NextPlanOK == WorldOK /\ PlanOK /\ [Next]_vars => PlanOK'
<1> SUFFICES ASSUME WorldOK, PlanOK, [Next]_vars PROVE PlanOK'
  OBVIOUS
<1> USE DEF PlanOK, plan, Idle
<1>1. CASE Boot \/ Exit \/ Drop \/ GatewayStops \/ GatewayStarts
  BY <1>1 DEF Boot, Exit, Drop, GatewayStops, GatewayStarts
<1>2. CASE Fire
  BY <1>2 DEF Fire, Today, Brackets, WorldOK
<1>3. ASSUME NEW b \in Brackets, Qualify(b) PROVE PlanOK'
  BY <1>3 DEF Qualify
<1>4. CASE Check \/ Reject \/ SendEntry \/ SendStop \/ SendTarget
  BY <1>4 DEF Check, Reject, SendEntry, SendStop, SendTarget
<1>5. CASE Abort \/ PlanEnds
  BY <1>5 DEF Abort, PlanEnds
<1>6. CASE Engage \/ CancelAll \/ Resume \/ MarketOpens
  BY <1>6 DEF Engage, CancelAll, Resume, MarketOpens
<1>7. ASSUME NEW b \in Brackets, FillEntry(b) \/ FillStop(b) \/ FillTarget(b) PROVE PlanOK'
  BY <1>7 DEF FillEntry, FillStop, FillTarget
<1>8. CASE Close \/ HolidayPasses
  BY <1>8 DEF Close, HolidayPasses
<1>9. CASE UNCHANGED vars
  BY <1>9 DEF vars
<1> QED
  BY <1>1, <1>2, <1>3, <1>4, <1>5, <1>6, <1>7, <1>8, <1>9 DEF Next, PlanStep

\* and of the legs.
LEMMA NextLegsOK == LegsOK /\ [Next]_vars => LegsOK'
<1> SUFFICES ASSUME LegsOK, [Next]_vars PROVE LegsOK'
  OBVIOUS
<1> USE DEF LegsOK, legs
<1>1. CASE Boot \/ Exit \/ Drop \/ GatewayStarts \/ Fire
  BY <1>1 DEF Boot, Exit, Drop, GatewayStarts, Fire
<1>2. CASE GatewayStops
  BY <1>2, UnlessAt DEF GatewayStops
<1>3. ASSUME NEW b \in Brackets, Qualify(b) PROVE LegsOK'
  BY <1>3 DEF Qualify
<1>4. CASE Check \/ Reject \/ Abort \/ PlanEnds
  BY <1>4 DEF Check, Reject, Abort, PlanEnds
<1>5. CASE SendEntry \/ SendStop \/ SendTarget
  BY <1>5 DEF SendEntry, SendStop, SendTarget, LegStates
<1>6. CASE Engage \/ Resume \/ MarketOpens \/ HolidayPasses
  BY <1>6 DEF Engage, Resume, MarketOpens, HolidayPasses
<1>7. CASE CancelAll \/ Close
  BY <1>7, SweptLeg DEF CancelAll, Close
<1>8. ASSUME NEW b \in Brackets, FillEntry(b) \/ FillStop(b) \/ FillTarget(b) PROVE LegsOK'
  BY <1>8 DEF FillEntry, FillStop, FillTarget, LegStates
<1>9. CASE UNCHANGED vars
  BY <1>9 DEF vars
<1> QED
  BY <1>1, <1>2, <1>3, <1>4, <1>5, <1>6, <1>7, <1>8, <1>9 DEF Next, PlanStep

-----------------------------------------------------------------------------
(* The plan.                                                               *)

\* The plan is where it can be.
LEMMA NextStepInv == PlanOK /\ StepInv /\ [Next]_vars => StepInv'
<1> SUFFICES ASSUME PlanOK, StepInv, [Next]_vars PROVE StepInv'
  OBVIOUS
<1> USE DEF PlanOK, StepInv, plan, clock, Idle
<1>1. CASE Boot \/ Exit \/ Drop \/ GatewayStops \/ GatewayStarts
  BY <1>1 DEF Boot, Exit, Drop, GatewayStops, GatewayStarts
<1>2. CASE Fire
  BY <1>2 DEF Fire
<1>3. ASSUME NEW b \in Brackets, Qualify(b) PROVE StepInv'
  BY <1>3, NoneAssumption DEF Qualify
<1>4. CASE Check \/ Reject \/ SendEntry \/ SendStop \/ SendTarget
  BY <1>4 DEF Check, Reject, SendEntry, SendStop, SendTarget
<1>5. CASE Abort \/ PlanEnds
  BY <1>5 DEF Abort, PlanEnds
<1>6. CASE Engage \/ CancelAll \/ Resume \/ MarketOpens
  BY <1>6 DEF Engage, CancelAll, Resume, MarketOpens
<1>7. ASSUME NEW b \in Brackets, FillEntry(b) \/ FillStop(b) \/ FillTarget(b) PROVE StepInv'
  BY <1>7 DEF FillEntry, FillStop, FillTarget
<1>8. CASE Close \/ HolidayPasses
  BY <1>8 DEF Close, HolidayPasses, NextDay
<1>9. CASE UNCHANGED vars
  BY <1>9 DEF vars
<1> QED
  BY <1>1, <1>2, <1>3, <1>4, <1>5, <1>6, <1>7, <1>8, <1>9 DEF Next, PlanStep

\* Only the plan's own call gives a bracket its first leg.
LEMMA UntouchedStays ==
    ASSUME LegsOK, [Next]_vars, NEW b \in Brackets, Untouched(b),
           b # cur \/ ~(SendEntry \/ SendStop \/ SendTarget)
    PROVE  Untouched(b)'
<1> USE DEF LegsOK, Untouched, legs
<1>1. CASE Boot \/ Exit \/ Drop \/ GatewayStarts \/ Fire
  BY <1>1 DEF Boot, Exit, Drop, GatewayStarts, Fire
<1>2. CASE GatewayStops
  BY <1>2, UnlessAt DEF GatewayStops
<1>3. ASSUME NEW a \in Brackets, Qualify(a) PROVE Untouched(b)'
  BY <1>3 DEF Qualify
<1>4. CASE Check \/ Reject \/ Abort \/ PlanEnds
  BY <1>4 DEF Check, Reject, Abort, PlanEnds
<1>5. CASE SendEntry \/ SendStop \/ SendTarget
  BY <1>5 DEF SendEntry, SendStop, SendTarget
<1>6. CASE Engage \/ Resume \/ MarketOpens \/ HolidayPasses
  BY <1>6 DEF Engage, Resume, MarketOpens, HolidayPasses
<1>7. CASE CancelAll \/ Close
  BY <1>7, SweptLeg DEF CancelAll, Close
<1>8. ASSUME NEW a \in Brackets, FillEntry(a) \/ FillStop(a) \/ FillTarget(a) PROVE Untouched(b)'
  BY <1>8 DEF FillEntry, FillStop, FillTarget
<1>9. CASE UNCHANGED vars
  BY <1>9 DEF vars
<1> QED
  BY <1>1, <1>2, <1>3, <1>4, <1>5, <1>6, <1>7, <1>8, <1>9 DEF Next, PlanStep

\* What lies ahead of the plan is untouched.
LEMMA NextAheadInv == TypeOK /\ StepInv /\ AheadInv /\ [Next]_vars => AheadInv'
<1> SUFFICES ASSUME TypeOK, StepInv, AheadInv, [Next]_vars PROVE AheadInv'
  OBVIOUS
<1> USE DEF TypeOK
<1>1. ASSUME UNCHANGED clock, todo' \subseteq todo, cur' = cur \/ cur' = None \/ cur' \in todo \ todo'
      PROVE  AheadInv'
  <2>1. ASSUME NEW b \in Brackets, b # cur \/ ~(SendEntry \/ SendStop \/ SendTarget), Untouched(b)
        PROVE  Untouched(b)'
    BY <2>1, UntouchedStays
  <2>2. \A b \in todo' : b[1] = day' /\ Untouched(b)'
    BY <1>1, <2>1 DEF AheadInv, clock, PlanOK, SendEntry, SendStop, SendTarget, StepInv
  <2>3. ASSUME NEW b \in Brackets, b[1] > day' \/ (b[1] = day' /\ ~(fired' /\ trading'))
        PROVE  Untouched(b)'
    <3>1. Untouched(b)
      BY <1>1, <2>3 DEF AheadInv, clock
    <3>2. ASSUME SendEntry \/ SendStop \/ SendTarget PROVE b # cur
      <4>1. cur # None /\ trading /\ fired
        BY <3>2 DEF SendEntry, SendStop, SendTarget, StepInv
      <4>2. cur[1] = day /\ day' = day /\ fired' = fired /\ trading' = trading
        BY <1>1, <4>1 DEF AheadInv, clock
      <4>3. day \in Nat
        BY BoundsAssumption DEF WorldOK, Days
      <4> QED
        BY <2>3, <4>1, <4>2, <4>3
    <3> QED
      BY <2>1, <3>1, <3>2
  <2>4. cur' # None => cur'[1] = day' /\ cur' \notin todo'
    BY <1>1 DEF AheadInv, clock
  <2> QED
    BY <2>2, <2>3, <2>4 DEF AheadInv
<1>2. CASE Boot \/ Exit \/ Drop \/ GatewayStops \/ GatewayStarts
  BY <1>1, <1>2 DEF Boot, Exit, Drop, GatewayStops, GatewayStarts, Idle, plan
<1>3. CASE Fire
  <2>1. day' = day /\ trading' = trading /\ fired' /\ ~fired /\ pc = "idle" /\ cur' = cur /\ cur = None
    BY <1>3 DEF Fire, StepInv, PlanOK, plan
  <2>2. \A b \in Brackets : Untouched(b) => Untouched(b)'
    BY <1>3 DEF Fire, Untouched, legs
  <2>3. (trading /\ todo' \subseteq Today) \/ todo' = {}
    BY <1>3, <2>1 DEF Fire, StepInv, plan
  <2>4. \A b \in Today : b \in Brackets /\ b[1] = day
    BY DEF Today, Brackets, WorldOK
  <2>5. \A b \in todo' : b[1] = day' /\ Untouched(b)'
    BY <2>1, <2>2, <2>3, <2>4 DEF AheadInv
  <2>6. \A b \in Brackets : b[1] > day' \/ (b[1] = day' /\ ~(fired' /\ trading')) => Untouched(b)'
    BY <2>1, <2>2 DEF AheadInv
  <2> QED
    BY <2>1, <2>5, <2>6 DEF AheadInv
<1>4. ASSUME NEW b \in Brackets, Qualify(b) PROVE AheadInv'
  BY <1>1, <1>4 DEF Qualify
<1>5. CASE Check \/ Reject \/ SendEntry \/ SendStop \/ SendTarget
  BY <1>1, <1>5 DEF Check, Reject, SendEntry, SendStop, SendTarget
<1>6. CASE Abort \/ PlanEnds
  BY <1>1, <1>6 DEF Abort, PlanEnds, Idle
<1>7. CASE Engage \/ CancelAll \/ Resume
  BY <1>1, <1>7 DEF Engage, CancelAll, Resume, plan
<1>8. CASE MarketOpens
  BY <1>8, UntouchedStays DEF MarketOpens, AheadInv, plan, legs, Untouched
<1>9. ASSUME NEW b \in Brackets, FillEntry(b) \/ FillStop(b) \/ FillTarget(b) PROVE AheadInv'
  BY <1>1, <1>9 DEF FillEntry, FillStop, FillTarget, plan
<1>10. CASE Close \/ HolidayPasses
  <2>1. day' = day + 1 /\ pc = "idle" /\ UNCHANGED plan
    BY <1>10 DEF Close, HolidayPasses, NextDay
  <2>2. todo' = {} /\ cur' = None
    BY <2>1 DEF StepInv, plan, PlanOK
  <2>3. ASSUME NEW b \in Brackets, b[1] >= day' PROVE Untouched(b)'
    <3>1. b[1] > day
      BY <2>1, <2>3, DayOfBracket, BoundsAssumption DEF WorldOK, Days
    <3>2. ~(SendEntry \/ SendStop \/ SendTarget)
      BY <2>1 DEF SendEntry, SendStop, SendTarget
    <3> QED
      BY <3>1, <3>2, UntouchedStays DEF AheadInv
  <2>4. \A b \in Brackets : b[1] > day' \/ b[1] = day' => b[1] >= day'
    BY <2>1, DayOfBracket, BoundsAssumption DEF WorldOK, Days
  <2> QED
    BY <2>2, <2>3, <2>4 DEF AheadInv
<1>11. CASE UNCHANGED vars
  BY <1>1, <1>11 DEF vars, plan
<1> QED
  BY <1>2, <1>3, <1>4, <1>5, <1>6, <1>7, <1>8, <1>9, <1>10, <1>11 DEF Next, PlanStep

\* The legs of the bracket being placed are those sent so far, or none.
LEMMA NextCurrentInv == TypeOK /\ StepInv /\ AheadInv /\ CurrentInv /\ [Next]_vars => CurrentInv'
<1> SUFFICES ASSUME TypeOK, StepInv, AheadInv, CurrentInv, [Next]_vars PROVE CurrentInv'
  OBVIOUS
<1> USE DEF TypeOK, PlanOK, LegsOK, CurrentInv, Untouched
<1>1. CASE Boot \/ Exit \/ Drop \/ GatewayStarts
  BY <1>1 DEF Boot, Exit, Drop, GatewayStarts, Idle, plan, legs
<1>2. CASE GatewayStops
  BY <1>2, UnlessAt DEF GatewayStops, plan, StepInv
<1>3. CASE Fire
  BY <1>3 DEF Fire, StepInv, plan, legs
<1>4. ASSUME NEW b \in Brackets, Qualify(b) PROVE CurrentInv'
  BY <1>4 DEF Qualify, AheadInv, legs
<1>5. CASE Check \/ Reject
  BY <1>5 DEF Check, Reject, legs
<1>6. CASE SendEntry
  BY <1>6 DEF SendEntry, StepInv
<1>7. CASE SendStop
  BY <1>7 DEF SendStop, StepInv
<1>8. CASE SendTarget \/ Abort \/ PlanEnds
  BY <1>8 DEF SendTarget, Abort, PlanEnds, Idle
<1>9. CASE Engage \/ Resume \/ MarketOpens
  BY <1>9 DEF Engage, Resume, MarketOpens, plan, legs
<1>10. CASE CancelAll
  BY <1>10, SweptLeg DEF CancelAll, plan, legs, StepInv
<1>11. ASSUME NEW b \in Brackets, FillEntry(b) \/ FillStop(b) \/ FillTarget(b) PROVE CurrentInv'
  BY <1>11 DEF FillEntry, FillStop, FillTarget, plan, StepInv
<1>12. CASE Close \/ HolidayPasses
  BY <1>12 DEF Close, HolidayPasses, plan
<1>13. CASE UNCHANGED vars
  BY <1>13 DEF vars, plan, legs
<1> QED
  BY <1>1, <1>2, <1>3, <1>4, <1>5, <1>6, <1>7, <1>8, <1>9, <1>10, <1>11, <1>12, <1>13 DEF Next, PlanStep

-----------------------------------------------------------------------------
(* The legs.                                                               *)

\* No bracket is ever torn, and what is in the market is of today.
LEMMA NextLegInv ==
    TypeOK /\ StepInv /\ AheadInv /\ CurrentInv /\ LegInv /\ [Next]_vars => LegInv'
<1> SUFFICES ASSUME TypeOK, StepInv, AheadInv, CurrentInv, LegInv, [Next]_vars PROVE LegInv'
  OBVIOUS
<1>a. LegsOK /\ LegsOK'
  BY NextLegsOK DEF TypeOK
<1> SUFFICES ASSUME NEW b \in Brackets
             PROVE  /\ Phase(b)' # "torn"
                    /\ target'[b] # "held"
                    /\ stop'[b] = "held" => entry'[b] = "held"
                    /\ entry'[b] \in {"held", "live"} => b[1] = day'
  BY DEF LegInv
<1>b. /\ Phase(b) # "torn"
      /\ target[b] # "held"
      /\ stop[b] = "held" => entry[b] = "held"
      /\ entry[b] \in {"held", "live"} => b[1] = day
  BY DEF LegInv
<1>c. {entry[b], stop[b], target[b], entry'[b], stop'[b], target'[b]} \subseteq LegStates
  BY <1>a DEF LegsOK
<1> USE <1>a, <1>b, <1>c DEF Phase, LegsOK
<1>1. CASE Boot \/ Exit \/ Drop \/ GatewayStarts \/ Fire
  BY <1>1 DEF Boot, Exit, Drop, GatewayStarts, Fire, legs, clock
<1>2. CASE GatewayStops
  BY <1>2, UnlessAt DEF GatewayStops, clock, PhaseOf, LegStates
<1>3. ASSUME NEW a \in Brackets, Qualify(a)
      PROVE  UNCHANGED <<legs, clock>>
  BY <1>3 DEF Qualify
<1>4. CASE Check \/ Reject \/ Abort \/ PlanEnds
  BY <1>4 DEF Check, Reject, Abort, PlanEnds, legs, clock
<1>5. CASE SendEntry \/ SendStop \/ SendTarget
  <2>1. CASE b # cur
    BY <1>5, <2>1 DEF SendEntry, SendStop, SendTarget, legs, clock
  <2>2. CASE b = cur
    <3>1. b[1] = day /\ day' = day
      BY <1>5, <2>2 DEF SendEntry, SendStop, SendTarget, StepInv, AheadInv, clock
    <3>2. CASE SendEntry
      BY <2>2, <3>1, <3>2 DEF SendEntry, CurrentInv, Untouched, PhaseOf
    <3>3. CASE SendStop
      BY <2>2, <3>1, <3>3 DEF SendStop, CurrentInv, Untouched, PhaseOf
    <3>4. CASE SendTarget
      BY <2>2, <3>1, <3>4 DEF SendTarget, CurrentInv, Untouched, PhaseOf, legs
    <3> QED
      BY <1>5, <3>2, <3>3, <3>4
  <2> QED
    BY <2>1, <2>2
<1>6. CASE Engage \/ Resume \/ MarketOpens
  BY <1>6 DEF Engage, Resume, MarketOpens, legs, clock
<1>7. CASE CancelAll
  BY <1>7, SweptLeg DEF CancelAll, legs, clock, PhaseOf, LegStates
<1>8. CASE Close
  BY <1>8, SweptLeg DEF Close, PhaseOf, LegStates
<1>9. CASE HolidayPasses
  <2>1. entry[b] \notin {"held", "live"}
    BY <1>9 DEF HolidayPasses, AheadInv, Untouched
  <2> QED
    BY <1>9, <2>1 DEF HolidayPasses, legs
<1>10. ASSUME NEW a \in Brackets, FillEntry(a) \/ FillStop(a) \/ FillTarget(a)
       PROVE  /\ Phase(b)' # "torn"
              /\ target'[b] # "held"
              /\ stop'[b] = "held" => entry'[b] = "held"
              /\ entry'[b] \in {"held", "live"} => b[1] = day'
  <2>1. CASE a # b
    BY <1>10, <2>1 DEF FillEntry, FillStop, FillTarget, clock
  <2>2. CASE a = b
    BY <1>10, <2>2 DEF FillEntry, FillStop, FillTarget, clock, PhaseOf, LegStates
  <2> QED
    BY <2>1, <2>2
<1>11. CASE UNCHANGED vars
  BY <1>11 DEF vars, legs, clock
<1>12. ASSUME UNCHANGED <<legs, clock>>
       PROVE  /\ Phase(b)' # "torn"
              /\ target'[b] # "held"
              /\ stop'[b] = "held" => entry'[b] = "held"
              /\ entry'[b] \in {"held", "live"} => b[1] = day'
  BY <1>12 DEF legs, clock
<1> HIDE <1>a, <1>b, <1>c DEF Phase
<1> QED
  BY <1>1, <1>2, <1>3, <1>4, <1>5, <1>6, <1>7, <1>8, <1>9, <1>10, <1>11, <1>12 DEF Next, PlanStep

\* Entries in the market are all of one day.
LEMMA LegInvGivesOneEntry == LegInv => OneEntryPerSession
<1> SUFFICES ASSUME LegInv, NEW a \in Brackets, NEW b \in Brackets,
                    entry[a] = "live", entry[b] = "live", a[2] = b[2]
             PROVE  a = b
  BY DEF OneEntryPerSession
<1>1. a[1] = day /\ b[1] = day
  BY DEF LegInv
<1> QED
  BY <1>1, BracketIsPair

-----------------------------------------------------------------------------
(* After a kill.                                                           *)

\* A sweep leaves nothing in the market, and the plan nothing to transmit.
LEMMA SweepIsClean ==
    ASSUME TypeOK, StepInv, CurrentInv, CancelAll, link
    PROVE  /\ \A b \in Brackets : {entry'[b], stop'[b], target'[b]} \subseteq {"none", "done"}
           /\ pc \in {"stop", "target"} => entry'[cur] = "none"
<1>1. \A b \in Brackets : {entry'[b], stop'[b], target'[b]} \subseteq {"none", "done"}
  BY SweptLeg DEF CancelAll, TypeOK, LegsOK
<1>2. ASSUME pc \in {"stop", "target"} PROVE cur \in Brackets /\ entry[cur] # "done"
  BY <1>2 DEF TypeOK, PlanOK, StepInv, CurrentInv, Untouched
<1> QED
  BY <1>1, <1>2, SweptLeg DEF CancelAll, TypeOK, LegsOK

\* Until somebody resumes, no leg works.
LEMMA NextSwept ==
    TypeOK /\ StepInv /\ CurrentInv /\ SweptInv /\ SweptStaysQuiet /\ [Next]_vars
        => SweptInv' /\ SweptStaysQuiet'
<1> SUFFICES ASSUME TypeOK, StepInv, CurrentInv, SweptInv, SweptStaysQuiet, [Next]_vars, swept'
             PROVE  SweptInv' /\ SweptStaysQuiet'
  BY DEF SweptInv, SweptStaysQuiet
<1> USE DEF SweptInv, SweptStaysQuiet, TypeOK, PlanOK, LegsOK, StepInv
<1>1. CASE Boot \/ Exit \/ Drop \/ GatewayStarts
  <2>1. killed' = killed /\ swept' = swept /\ UNCHANGED legs
    BY <1>1 DEF Boot, Exit, Drop, GatewayStarts, switch
  <2>2. UNCHANGED plan \/ pc' = "idle"
    BY <1>1 DEF Boot, Exit, Drop, GatewayStarts, Idle
  <2> QED
    BY <2>1, <2>2 DEF plan, legs
<1>2. CASE GatewayStops
  BY <1>2, UnlessAt DEF GatewayStops, switch, plan
<1>3. CASE Fire
  BY <1>3 DEF Fire, switch, plan, legs
<1>4. ASSUME NEW b \in Brackets, Qualify(b) PROVE SweptInv' /\ SweptStaysQuiet'
  BY <1>4 DEF Qualify, switch, legs
<1>5. CASE Check \/ Reject \/ Abort \/ PlanEnds
  BY <1>5 DEF Check, Reject, Abort, PlanEnds, Idle, switch, legs
<1>6. CASE SendEntry
  BY <1>6 DEF SendEntry, switch
<1>7. CASE SendStop
  BY <1>7 DEF SendStop, switch
<1>8. CASE SendTarget
  BY <1>8 DEF SendTarget, switch, legs
<1>9. CASE Engage \/ Resume \/ MarketOpens
  <2>1. swept' = swept /\ (killed => killed') /\ UNCHANGED <<plan, legs>>
    BY <1>9 DEF Engage, Resume, MarketOpens, switch
  <2> QED
    BY <2>1 DEF plan, legs
<1>10. CASE CancelAll
  <2>1. CASE link
    BY <1>10, <2>1, SweepIsClean DEF CancelAll, plan
  <2>2. CASE ~link
    BY <1>10, <2>2 DEF CancelAll, plan, legs
  <2> QED
    BY <2>1, <2>2
<1>11. ASSUME NEW b \in Brackets, FillEntry(b) \/ FillStop(b) \/ FillTarget(b)
       PROVE  SweptInv' /\ SweptStaysQuiet'
  BY <1>11 DEF FillEntry, FillStop, FillTarget, switch, plan
<1>12. CASE Close
  BY <1>12, SweptLeg DEF Close, switch, plan
<1>13. CASE HolidayPasses
  BY <1>13 DEF HolidayPasses, switch, plan, legs
<1>14. CASE UNCHANGED vars
  BY <1>14 DEF vars, switch, plan, legs
<1> QED
  BY <1>1, <1>2, <1>3, <1>4, <1>5, <1>6, <1>7, <1>8, <1>9, <1>10, <1>11, <1>12, <1>13, <1>14 DEF Next, PlanStep

-----------------------------------------------------------------------------
(* The theorems.                                                           *)

\* The inductive invariant is kept by every step.
LEMMA NextIInv == IInv /\ [Next]_vars => IInv'
<1> SUFFICES ASSUME IInv, [Next]_vars PROVE IInv'
  OBVIOUS
<1> USE DEF IInv
<1>1. TypeOK'
  BY NextWorldOK, NextPlanOK, NextLegsOK DEF TypeOK
<1>2. StepInv' /\ AheadInv' /\ CurrentInv'
  BY NextStepInv, NextAheadInv, NextCurrentInv DEF TypeOK
<1>3. LegInv'
  BY NextLegInv
<1>4. OneEntryPerSession'
  <2>1. LegInv' => OneEntryPerSession'
    BY LegInvGivesOneEntry, PTL
  <2> QED
    BY <1>3, <2>1
<1>5. SweptInv' /\ SweptStaysQuiet'
  BY NextSwept
<1> QED
  BY <1>1, <1>2, <1>3, <1>4, <1>5

\* The plan, the legs and the sweep agree through lost links, restarts of the
\* Gateway and the process, kills, resumes and holidays.
THEOREM Invariance == Spec => []IInv
BY InitIInv, NextIInv, PTL DEF Spec

\* Every variable keeps its type.
THEOREM TypeCorrect == Spec => []TypeOK
<1>1. IInv => TypeOK
  BY DEF IInv
<1> QED
  BY Invariance, <1>1, PTL

\* Once a kill's cancel_all has reached IB, no leg of a bracket works until
\* somebody resumes, not even one that was checked before and sent after it.
THEOREM KillSilencesBrackets == Spec => []SweptStaysQuiet
<1>1. IInv => SweptStaysQuiet
  BY DEF IInv
<1> QED
  BY Invariance, <1>1, PTL

\* A symbol never has two entries in the market, over any number of days.
THEOREM EntriesAreSingle == Spec => []OneEntryPerSession
<1>1. IInv => OneEntryPerSession
  BY DEF IInv
<1> QED
  BY Invariance, <1>1, PTL

\* At the start every bracket is absent.
LEMMA InitRefines == Init => Promise!Init
BY Phases DEF Init, NoLeg, Promise!Init, Phase, LegStates

\* Each step places, enters or exits one bracket, or cancels all, or changes
\* the phase of none.
LEMMA StepRefines ==
    IInv /\ [Next]_vars => [Promise!Next]_([b \in Brackets |-> Phase(b)])
<1> SUFFICES ASSUME IInv, [Next]_vars
             PROVE  Promise!Next \/ UNCHANGED [b \in Brackets |-> Phase(b)]
  OBVIOUS
<1>a. LegsOK /\ LegsOK'
  BY NextLegsOK DEF IInv, TypeOK
<1>b. \A b \in Brackets :
          {entry[b], stop[b], target[b], entry'[b], stop'[b], target'[b]} \subseteq LegStates
  BY <1>a DEF LegsOK
<1>c. ASSUME \A b \in Brackets : Phase(b)' = Phase(b)
      PROVE  UNCHANGED [b \in Brackets |-> Phase(b)]
  BY <1>c
<1>d. ASSUME \A b \in Brackets : UNCHANGED <<entry[b], stop[b], target[b]>>
      PROVE  UNCHANGED [b \in Brackets |-> Phase(b)]
  BY <1>c, <1>d DEF Phase
<1>1. CASE Boot \/ Exit \/ Drop \/ GatewayStarts \/ Fire
  BY <1>d, <1>1 DEF Boot, Exit, Drop, GatewayStarts, Fire, legs
<1>2. CASE GatewayStops
  <2>1. \A b \in Brackets : Phase(b)' = Phase(b)
    BY <1>2, <1>a, <1>b, UnlessAt DEF GatewayStops, Phase, PhaseOf, LegsOK, LegStates, IInv, LegInv
  <2> QED
    BY <1>c, <2>1
<1>3. ASSUME NEW b \in Brackets, Qualify(b) PROVE UNCHANGED [a \in Brackets |-> Phase(a)]
  BY <1>d, <1>3 DEF Qualify, legs
<1>4. CASE Check \/ Reject \/ Abort \/ PlanEnds
  BY <1>d, <1>4 DEF Check, Reject, Abort, PlanEnds, legs
<1>5. CASE SendEntry \/ SendStop
  <2>1. \A b \in Brackets : Phase(b)' = Phase(b)
    BY <1>5, <1>a, <1>b DEF SendEntry, SendStop, Phase, PhaseOf, LegsOK, IInv, CurrentInv, Untouched
  <2> QED
    BY <1>c, <2>1
<1>6. CASE SendTarget
  <2>1. CASE entry[cur] # "held"
    BY <1>d, <1>6, <2>1 DEF SendTarget, legs
  <2>2. CASE entry[cur] = "held"
    <3>1. PICK b \in Brackets : b = cur
      BY <1>6 DEF SendTarget, IInv, TypeOK, PlanOK, StepInv
    <3>2. entry[b] = "held" /\ stop[b] = "held" /\ target[b] = "none"
      BY <1>6, <2>2, <3>1 DEF SendTarget, IInv, CurrentInv, Untouched
    <3>3. entry'[b] = "live" /\ stop'[b] = "live" /\ target'[b] = "live"
      BY <1>6, <1>a, <2>2, <3>1 DEF SendTarget, LegsOK
    <3>4. Phase(b) = "absent" /\ Phase(b)' = "working"
      BY <3>2, <3>3 DEF Phase, PhaseOf
    <3>5. \A a \in Brackets \ {b} : Phase(a)' = Phase(a)
      BY <1>6, <1>a, <2>2, <3>1 DEF SendTarget, Phase, LegsOK
    <3> QED
      BY <3>4, <3>5 DEF Promise!Next, Promise!Place
  <2> QED
    BY <2>1, <2>2
<1>7. CASE Engage \/ Resume \/ MarketOpens \/ HolidayPasses
  BY <1>d, <1>7 DEF Engage, Resume, MarketOpens, HolidayPasses, legs
<1>8. CASE CancelAll \/ Close
  <2>1. CASE UNCHANGED legs
    BY <1>d, <2>1 DEF legs
  <2>2. ASSUME entry' = Unless("held", Unless("live", entry)),
               stop' = Unless("held", Unless("live", stop)),
               target' = Unless("held", Unless("live", target))
        PROVE  Promise!Next
    <3>1. ASSUME NEW b \in Brackets PROVE Phase(b)' = Promise!Cancelled(Phase(b))
      <4>1. /\ entry'[b] = IF entry[b] = "done" THEN "done" ELSE "none"
            /\ stop'[b] = IF stop[b] = "done" THEN "done" ELSE "none"
            /\ target'[b] = IF target[b] = "done" THEN "done" ELSE "none"
        BY <1>a, <2>2, SweptLeg DEF LegsOK
      <4>2. Phase(b) # "torn"
        BY DEF IInv, LegInv
      <4> QED
        BY <1>b, <4>1, <4>2 DEF Phase, PhaseOf, Promise!Cancelled, LegStates
    <3>2. Promise!CancelEverything
      BY <3>1 DEF Promise!CancelEverything
    <3> QED
      BY <3>2 DEF Promise!Next
  <2> QED
    BY <1>8, <2>1, <2>2 DEF CancelAll, Close
<1>9. ASSUME NEW b \in Brackets, FillEntry(b) \/ FillStop(b) \/ FillTarget(b)
      PROVE  Promise!Next
  <2>1. \A a \in Brackets \ {b} : Phase(a)' = Phase(a)
    BY <1>9, <1>a DEF FillEntry, FillStop, FillTarget, Phase, LegsOK
  <2>2. Phase(b) # "torn"
    BY DEF IInv, LegInv
  <2>3. CASE FillEntry(b)
    <3>1. Phase(b) = "working" /\ Phase(b)' = "open"
      BY <1>a, <1>b, <2>2, <2>3 DEF FillEntry, Phase, PhaseOf, LegsOK, LegStates
    <3> QED
      BY <2>1, <3>1 DEF Promise!Next, Promise!Enter
  <2>4. CASE FillStop(b) \/ FillTarget(b)
    <3>1. Phase(b) = "open" /\ Phase(b)' = "closed"
      BY <1>a, <1>b, <2>2, <2>4 DEF FillStop, FillTarget, Phase, PhaseOf, LegsOK, LegStates
    <3> QED
      BY <2>1, <3>1 DEF Promise!Next, Promise!Exit
  <2> QED
    BY <1>9, <2>3, <2>4
<1>10. CASE UNCHANGED vars
  BY <1>d, <1>10 DEF vars, legs
<1> QED
  BY <1>1, <1>2, <1>3, <1>4, <1>5, <1>6, <1>7, <1>8, <1>9, <1>10 DEF Next, PlanStep

\* A bracket on IB is a bracket, for any symbols, days and limit on positions:
\* cut off between any two of its legs it works as a whole or not at all.
THEOREM SessionKeepsBrackets == Spec => IsBracket
BY InitRefines, StepRefines, Invariance, PTL DEF Spec, IsBracket, Promise!Spec
=============================================================================
