--------------------------- MODULE KillSwitchProofs ---------------------------
(***************************************************************************)
(* For every set of guards, jobs, commands and orders: only a reset that   *)
(* was under way when KILL was touched can undo a kill before the next     *)
(* reset begins, a job slips at most one order past it while the file is   *)
(* there, and the audit table misses at most the orders failures ate.      *)
(***************************************************************************)
EXTENDS KillSwitch, FiniteSetTheorems, TLAPS

\* The initial state satisfies the inductive invariant: nothing was placed.
LEMMA InitIInv == Init => IInv
<1> SUFFICES ASSUME Init PROVE IInv
  OBVIOUS
<1> USE DEF Init
<1>1. TypeOK
  BY DEF TypeOK, OrderStates, JobSteps, CommandSteps
<1>2. Placed = {} /\ Working = {}
  BY DEF Placed, Working
<1>3. \A j \in Jobs : Unrecorded(j) = {}
  BY <1>2 DEF Unrecorded
<1>4. FenceInv /\ StragglerBound /\ SweptClean
  BY <1>2 DEF FenceInv, StragglerBound, SweptClean, InFlight
<1>5. AuditInv
  BY <1>3, FS_EmptySet DEF AuditInv
<1>6. AuditGap
  BY <1>3, FS_EmptySet DEF AuditGap
<1> QED
  BY <1>1, <1>4, <1>5, <1>6 DEF IInv

\* Every step keeps the types.
LEMMA NextTypeOK == TypeOK /\ AuditInv /\ [Next]_vars => TypeOK'
<1> SUFFICES ASSUME TypeOK, AuditInv, [Next]_vars PROVE TypeOK'
  OBVIOUS
<1> USE GuardOfAssumption, BoundsAssumption
        DEF TypeOK, OrderStates, JobSteps, CommandSteps, KeepRest, KeepJobs,
            BeginFence, EndFence, history, codeVars
<1>1. ASSUME NEW j \in Jobs, JobStep(j) PROVE TypeOK'
  <2>1. CASE CheckFile(j)
    BY <2>1 DEF CheckFile
  <2>2. CASE CheckFlag(j)
    BY <2>2 DEF CheckFlag
  <2>3. CASE Reject(j)
    BY <2>3 DEF Reject
  <2>4. CASE Place(j)
    BY <2>4 DEF Place
  <2>5. CASE PlaceFails(j)
    BY <2>5 DEF PlaceFails
  <2>6. CASE Audit(j)
    <3>1. status[j] \in Orders
      BY <2>6 DEF Audit, AuditInv, Unrecorded, Placed
    <3> QED
      BY <2>6, <3>1 DEF Audit
  <2>7. CASE AuditFails(j)
    BY <2>7 DEF AuditFails
  <2> QED
    BY <1>1, <2>1, <2>2, <2>3, <2>4, <2>5, <2>6, <2>7 DEF JobStep
<1>2. ASSUME NEW c \in Commands, Engage(c) \/ Reset(c) \/ CommandStep(c)
      PROVE  TypeOK'
  <2>1. CASE Engage(c)
    BY <2>1 DEF Engage
  <2>2. CASE Reset(c)
    BY <2>2 DEF Reset
  <2>3. CASE Touch(c)
    BY <2>3 DEF Touch, Resetting
  <2>4. CASE CancelAll(c)
    BY <2>4 DEF CancelAll
  <2>5. CASE EngageFails(c)
    BY <2>5 DEF EngageFails
  <2>6. CASE Exists(c)
    BY <2>6 DEF Exists
  <2>7. CASE Unlink(c)
    BY <2>7 DEF Unlink
  <2> QED
    BY <1>2, <2>1, <2>2, <2>3, <2>4, <2>5, <2>6, <2>7 DEF CommandStep
<1>3. CASE ShellTouch
  BY <1>3 DEF ShellTouch, Resetting
<1>4. CASE ShellDelete
  BY <1>4 DEF ShellDelete
<1>5. ASSUME NEW o \in Orders, Fill(o) PROVE TypeOK'
  BY <1>5 DEF Fill
<1>6. CASE Crash
  BY <1>6 DEF Crash
<1>7. CASE UNCHANGED vars
  BY <1>7 DEF vars
<1> QED
  BY <1>1, <1>2, <1>3, <1>4, <1>5, <1>6, <1>7 DEF Next

\* Every step keeps the fence, its stragglers and what a completed kill swept.
LEMMA NextFence ==
    TypeOK /\ FenceInv /\ StragglerBound /\ SweptClean /\ [Next]_vars
        => FenceInv' /\ StragglerBound' /\ SweptClean'
<1> SUFFICES ASSUME TypeOK, FenceInv, StragglerBound, SweptClean, [Next]_vars
             PROVE  FenceInv' /\ StragglerBound' /\ SweptClean'
  OBVIOUS
<1> USE GuardOfAssumption, NoneAssumption
        DEF TypeOK, FenceInv, StragglerBound, SweptClean, InFlight, Resetting,
            Placed, Working, KeepRest, KeepJobs, history, codeVars
<1>1. ASSUME NEW j \in Jobs, JobStep(j)
      PROVE  FenceInv' /\ StragglerBound' /\ SweptClean'
  <2>1. CASE CheckFile(j)
    \* Passing the file means there is no file, so nothing is claimed of late.
    BY <2>1 DEF CheckFile
  <2>2. CASE CheckFlag(j)
    BY <2>2 DEF CheckFlag
  <2>3. CASE Reject(j)
    BY <2>3 DEF Reject
  <2>4. CASE Place(j)
    <3>1. PICK o \in Orders \ Placed :
             /\ order' = [order EXCEPT ![o] = "working"]
             /\ by' = [by EXCEPT ![o] = j]
             /\ late' = IF fence /\ file THEN late \cup {o} ELSE late
      BY <2>4 DEF Place
    <3>2. /\ pc' = [pc EXCEPT ![j] = "audit"]
          /\ UNCHANGED <<file, cmd, fence, contested, swept>>
      BY <2>4 DEF Place
    <3>3. /\ o \notin late /\ \A p \in late : by'[p] = by[p]
          /\ fence /\ file => \A p \in late : by[p] # j
      BY <2>4, <3>1 DEF Place
    <3>4. Placed' = Placed \cup {o} /\ Working' = Working \cup {o}
      BY <3>1
    <3>5. FenceInv'
      BY <3>1, <3>2, <3>3, <3>4
    <3>6. StragglerBound'
      BY <3>1, <3>3
    <3>7. SweptClean'
      BY <3>1, <3>2, <3>4
    <3> QED
      BY <3>5, <3>6, <3>7
  <2>5. CASE PlaceFails(j)
    BY <2>5 DEF PlaceFails
  <2>6. CASE Audit(j)
    BY <2>6 DEF Audit
  <2>7. CASE AuditFails(j)
    BY <2>7 DEF AuditFails
  <2> QED
    BY <1>1, <2>1, <2>2, <2>3, <2>4, <2>5, <2>6, <2>7 DEF JobStep
<1>2. ASSUME NEW c \in Commands, Engage(c) \/ Reset(c) \/ CommandStep(c)
      PROVE  FenceInv' /\ StragglerBound' /\ SweptClean'
  <2>1. CASE Engage(c)
    BY <2>1 DEF Engage
  <2>2. CASE Reset(c)
    BY <2>2 DEF Reset, EndFence
  <2>3. CASE Touch(c)
    BY <2>3 DEF Touch, BeginFence
  <2>4. CASE CancelAll(c)
    BY <2>4 DEF CancelAll
  <2>5. CASE EngageFails(c)
    BY <2>5 DEF EngageFails
  <2>6. CASE Exists(c)
    BY <2>6 DEF Exists
  <2>7. CASE Unlink(c)
    \* Somebody is resetting, so there is no fence or it was contested.
    BY <2>7 DEF Unlink
  <2> QED
    BY <1>2, <2>1, <2>2, <2>3, <2>4, <2>5, <2>6, <2>7 DEF CommandStep
<1>3. CASE ShellTouch
  BY <1>3 DEF ShellTouch, BeginFence
<1>4. CASE ShellDelete
  BY <1>4 DEF ShellDelete, EndFence
<1>5. ASSUME NEW o \in Orders, Fill(o)
      PROVE  FenceInv' /\ StragglerBound' /\ SweptClean'
  BY <1>5 DEF Fill
<1>6. CASE Crash
  BY <1>6 DEF Crash
<1>7. CASE UNCHANGED vars
  BY <1>7 DEF vars
<1> QED
  BY <1>1, <1>2, <1>3, <1>4, <1>5, <1>6, <1>7 DEF Next

\* A step that places nothing, writes no row and leaves every job where it is
\* inside its order keeps the audit invariants, whatever else it does.
LEMMA AuditStutter ==
    ASSUME AuditInv, AuditGap, TypeOK, TypeOK',
           UNCHANGED <<pc, status, audited, by>>,
           Placed' = Placed, faults <= faults', crashes <= crashes'
    PROVE  AuditInv' /\ AuditGap'
<1>1. \A j \in Jobs : Unrecorded(j)' = Unrecorded(j)
  BY DEF Unrecorded
<1>2. AuditInv'
  BY <1>1 DEF AuditInv
<1>3. ASSUME NEW j \in Jobs
      PROVE  Cardinality(Unrecorded(j)')
                 <= faults' + crashes' + (IF pc'[j] = "audit" THEN 1 ELSE 0)
  <2>1. Cardinality(Unrecorded(j)) \in Nat
    BY FS_CardinalityType DEF AuditInv
  <2>2. Cardinality(Unrecorded(j))
            <= faults + crashes + (IF pc[j] = "audit" THEN 1 ELSE 0)
    BY DEF AuditGap
  <2> QED
    BY <1>1, <2>1, <2>2 DEF TypeOK
<1>4. AuditGap'
  BY <1>3 DEF AuditGap
<1> QED
  BY <1>2, <1>4

\* Job j moves to a step other than "audit", placing nothing and writing no row;
\* if it abandons a row, a failure is counted.
Aside(j, step) ==
    /\ pc' = [pc EXCEPT ![j] = step]
    /\ UNCHANGED <<order, audited, by, crashes>>
    /\ \A k \in Jobs \ {j} : status'[k] = status[k]
    /\ faults' = faults \/ faults' = faults + 1
    /\ pc[j] = "audit" => faults' = faults + 1

\* Every step keeps the audit invariants.
LEMMA NextAudit ==
    TypeOK /\ TypeOK' /\ FenceInv /\ AuditInv /\ AuditGap /\ [Next]_vars
        => AuditInv' /\ AuditGap'
<1> SUFFICES ASSUME TypeOK, TypeOK', FenceInv, AuditInv, AuditGap, [Next]_vars
             PROVE  AuditInv' /\ AuditGap'
  OBVIOUS
<1> USE DEF KeepRest, KeepJobs, history, codeVars
<1>0. \A k \in Jobs :
        /\ IsFiniteSet(Unrecorded(k))
        /\ Cardinality(Unrecorded(k)) \in Nat
        /\ Cardinality(Unrecorded(k))
               <= faults + crashes + (IF pc[k] = "audit" THEN 1 ELSE 0)
  BY FS_CardinalityType DEF AuditInv, AuditGap
<1>m. ASSUME NEW j \in Jobs, NEW step \in JobSteps, step # "audit", Aside(j, step)
      PROVE  AuditInv' /\ AuditGap'
  <2>1. Placed' = Placed /\ \A k \in Jobs : Unrecorded(k)' = Unrecorded(k)
    BY <1>m DEF Unrecorded, Placed, Aside
  <2>2. \A k \in Jobs : pc'[k] = IF k = j THEN step ELSE pc[k]
    BY <1>m DEF TypeOK, Aside
  <2>3. AuditInv'
    BY <1>m, <1>0, <2>1, <2>2 DEF AuditInv, Aside
  <2>4. ASSUME NEW k \in Jobs
        PROVE  Cardinality(Unrecorded(k)')
                   <= faults' + crashes' + (IF pc'[k] = "audit" THEN 1 ELSE 0)
    BY <1>m, <1>0, <2>1, <2>2 DEF TypeOK, Aside
  <2> QED
    BY <2>3, <2>4 DEF AuditGap
<1>1. ASSUME NEW j \in Jobs, JobStep(j) PROVE AuditInv' /\ AuditGap'
  <2>1. CASE CheckFile(j)
    <3>1. Aside(j, "flag")
      BY <2>1 DEF CheckFile, Aside
    <3> QED
      BY <3>1, <1>m DEF JobSteps
  <2>2. CASE CheckFlag(j)
    <3>1. Aside(j, "place")
      BY <2>2 DEF CheckFlag, Aside
    <3> QED
      BY <3>1, <1>m DEF JobSteps
  <2>3. CASE Reject(j)
    <3>1. Aside(j, "idle")
      BY <2>3 DEF Reject, Aside
    <3> QED
      BY <3>1, <1>m DEF JobSteps
  <2>4. CASE Place(j)
    <3>1. PICK o \in Orders \ Placed :
             /\ order' = [order EXCEPT ![o] = "working"]
             /\ status' = [status EXCEPT ![j] = o]
             /\ by' = [by EXCEPT ![o] = j]
      BY <2>4 DEF Place
    <3>2. /\ pc[j] = "place"
          /\ pc' = [pc EXCEPT ![j] = "audit"]
          /\ UNCHANGED <<audited, faults, crashes>>
      BY <2>4 DEF Place
    <3>3. o \notin audited /\ o \notin Unrecorded(j)
      BY DEF AuditInv, Unrecorded
    <3>4. Placed' = Placed \cup {o}
      BY <3>1 DEF Placed, TypeOK
    <3>5. Unrecorded(j)' = Unrecorded(j) \cup {o}
      BY <3>1, <3>2, <3>3, <3>4 DEF Unrecorded, TypeOK, Placed
    <3>6. \A k \in Jobs \ {j} : Unrecorded(k)' = Unrecorded(k)
      BY <3>1, <3>2, <3>4 DEF Unrecorded, TypeOK, Placed
    <3>7. /\ IsFiniteSet(Unrecorded(j)')
          /\ Cardinality(Unrecorded(j)') = Cardinality(Unrecorded(j)) + 1
      BY <1>0, <3>3, <3>5, FS_AddElement
    <3>8. \A k \in Jobs : pc'[k] = IF k = j THEN "audit" ELSE pc[k]
      BY <3>2 DEF TypeOK
    <3>9. \A k \in Jobs : status'[k] = IF k = j THEN o ELSE status[k]
      BY <3>1 DEF TypeOK
    <3>10. AuditInv'
      BY <1>0, <3>2, <3>4, <3>5, <3>6, <3>7, <3>8, <3>9 DEF AuditInv
    <3>11. AuditGap'
      <4> SUFFICES ASSUME NEW k \in Jobs
                   PROVE  Cardinality(Unrecorded(k)')
                            <= faults' + crashes' + (IF pc'[k] = "audit" THEN 1 ELSE 0)
        BY DEF AuditGap
      <4>1. CASE k = j
        BY <4>1, <1>0, <3>2, <3>7, <3>8 DEF TypeOK
      <4>2. CASE k # j
        BY <4>2, <1>0, <3>2, <3>6, <3>8 DEF TypeOK
      <4> QED
        BY <4>1, <4>2
    <3> QED
      BY <3>10, <3>11
  <2>5. CASE PlaceFails(j)
    <3>1. Aside(j, "idle")
      BY <2>5 DEF PlaceFails, Aside
    <3> QED
      BY <3>1, <1>m DEF JobSteps
  <2>6. CASE Audit(j)
    <3>1. /\ pc[j] = "audit"
          /\ pc' = [pc EXCEPT ![j] = "idle"]
          /\ status' = [status EXCEPT ![j] = None]
          /\ audited' = audited \cup {status[j]}
          /\ UNCHANGED <<order, by, faults, crashes>>
      BY <2>6 DEF Audit
    <3>2. status[j] \in Unrecorded(j)
      BY <3>1 DEF AuditInv
    <3>3. Unrecorded(j)' = Unrecorded(j) \ {status[j]}
      BY <3>1 DEF Unrecorded, Placed
    <3>4. \A k \in Jobs \ {j} : Unrecorded(k)' = Unrecorded(k)
      BY <3>1, <3>2 DEF Unrecorded, Placed
    <3>5. /\ IsFiniteSet(Unrecorded(j)')
          /\ Cardinality(Unrecorded(j)') = Cardinality(Unrecorded(j)) - 1
      BY <1>0, <3>2, <3>3, FS_RemoveElement
    <3>6. \A k \in Jobs : /\ pc'[k] = IF k = j THEN "idle" ELSE pc[k]
                          /\ k # j => status'[k] = status[k]
      BY <3>1 DEF TypeOK
    <3>7. AuditInv'
      BY <1>0, <3>1, <3>2, <3>4, <3>5, <3>6 DEF AuditInv, Unrecorded, Placed
    <3>8. AuditGap'
      <4> SUFFICES ASSUME NEW k \in Jobs
                   PROVE  Cardinality(Unrecorded(k)')
                            <= faults' + crashes' + (IF pc'[k] = "audit" THEN 1 ELSE 0)
        BY DEF AuditGap
      <4>1. CASE k = j
        BY <4>1, <1>0, <3>1, <3>5, <3>6 DEF TypeOK
      <4>2. CASE k # j
        BY <4>2, <1>0, <3>1, <3>4, <3>6 DEF TypeOK
      <4> QED
        BY <4>1, <4>2
    <3> QED
      BY <3>7, <3>8
  <2>7. CASE AuditFails(j)
    <3>1. Aside(j, "idle")
      BY <2>7 DEF AuditFails, Aside, TypeOK
    <3> QED
      BY <3>1, <1>m DEF JobSteps
  <2> QED
    BY <1>1, <2>1, <2>2, <2>3, <2>4, <2>5, <2>6, <2>7 DEF JobStep
<1>2. ASSUME NEW c \in Commands, Engage(c) \/ Reset(c) \/ CommandStep(c)
      PROVE  AuditInv' /\ AuditGap'
  <2>1. UNCHANGED <<pc, status, audited, by>> /\ faults <= faults' /\ crashes <= crashes'
    BY <1>2 DEF Engage, Reset, CommandStep, Touch, CancelAll, EngageFails,
                Exists, Unlink, BeginFence, EndFence, TypeOK
  <2>2. Placed' = Placed
    BY <1>2 DEF Engage, Reset, CommandStep, Touch, CancelAll, EngageFails,
                Exists, Unlink, Placed, TypeOK
  <2> QED
    BY <2>1, <2>2, AuditStutter
<1>3. CASE ShellTouch \/ ShellDelete \/ UNCHANGED vars
  <2>1. UNCHANGED <<pc, status, audited, by, order, faults, crashes>>
    BY <1>3 DEF ShellTouch, ShellDelete, vars, BeginFence, EndFence
  <2> QED
    BY <2>1, AuditStutter DEF Placed, TypeOK
<1>4. ASSUME NEW o \in Orders, Fill(o) PROVE AuditInv' /\ AuditGap'
  <2>1. UNCHANGED <<pc, status, audited, by, faults, crashes>> /\ Placed' = Placed
    BY <1>4 DEF Fill, Placed, TypeOK
  <2> QED
    BY <2>1, AuditStutter DEF TypeOK
<1>5. CASE Crash
  <2>1. /\ UNCHANGED <<order, audited, by, faults>>
        /\ crashes' = crashes + 1
        /\ \A j \in Jobs : pc'[j] = "idle"
    BY <1>5 DEF Crash
  <2>2. \A j \in Jobs : Unrecorded(j)' = Unrecorded(j)
    BY <2>1 DEF Unrecorded, Placed
  <2>3. AuditInv'
    BY <2>1, <2>2 DEF AuditInv, Placed
  <2>4. AuditGap'
    BY <1>0, <2>1, <2>2 DEF AuditGap, TypeOK
  <2> QED
    BY <2>3, <2>4
<1> QED
  BY <1>1, <1>2, <1>3, <1>4, <1>5 DEF Next

\* Every step keeps the inductive invariant.
LEMMA NextIInv == IInv /\ [Next]_vars => IInv'
  BY NextTypeOK, NextFence, NextAudit DEF IInv

\* The inductive invariant holds in every reachable state.
THEOREM Invariance == Spec => []IInv
  BY InitIInv, NextIInv, PTL DEF Spec

\* Type correctness.
THEOREM TypeCorrect == Spec => []TypeOK
<1>1. IInv => TypeOK
  BY DEF IInv
<1> QED
  BY <1>1, Invariance, PTL

\* Commands, crashes, failures and the shell may interleave in any way: while no
\* reset has begun since KILL was touched, every guard blocks, or a reset was
\* already under way at that touch.
THEOREM FenceIsHeld == Spec => []FenceHolds
<1>1. IInv => FenceHolds
  BY DEF IInv, FenceInv, FenceHolds, KillSwitchActive
<1> QED
  BY <1>1, Invariance, PTL

\* Each job places at most one order past a kill while the file is there, and
\* once the kill has swept the book only such orders can be working.
THEOREM KillBoundsOrders == Spec => [](StragglerBound /\ SweptClean)
<1>1. IInv => StragglerBound /\ SweptClean
  BY DEF IInv
<1> QED
  BY <1>1, Invariance, PTL

\* The audit table lacks at most the row being written and one per failure.
THEOREM AuditGapBounded == Spec => []AuditGap
<1>1. IInv => AuditGap
  BY DEF IInv
<1> QED
  BY <1>1, Invariance, PTL
=============================================================================
