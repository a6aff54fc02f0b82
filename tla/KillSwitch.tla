------------------------------ MODULE KillSwitch ------------------------------
(***************************************************************************)
(* The kill switch of omega_ib.  A RiskGuard (risk/guard.py) blocks orders *)
(* while its own in-memory flag is set or while the KILL file exists.  The *)
(* process holds several guards: the one the scheduler's jobs and Telegram *)
(* share, and the one web/app.py builds for itself; they have in common    *)
(* only the KILL file and the broker.  Jobs place orders (check, then      *)
(* place, then audit) while commands engage and reset the switch, an       *)
(* operator touches or deletes KILL from a shell, fills arrive, writes     *)
(* fail, and the process crashes and is restarted by systemd.              *)
(*                                                                         *)
(* A rejected order changes nothing but the audit table, so a rejection is *)
(* a job that stays or becomes idle.  The audit rows of the kill and reset *)
(* commands themselves are left out; the rows of placed orders are kept.   *)
(***************************************************************************)
EXTENDS Naturals, FiniteSets

CONSTANTS
    Guards,      \* the RiskGuard instances of the process
    Jobs,        \* scheduler threads that place orders
    Commands,    \* threads that run /kill and /resume (Telegram, web requests)
    GuardOf,     \* the guard each job and each command goes through
    Orders,      \* orders the jobs may place (bounds how many)
    None,        \* no order, no job
    MaxFaults,   \* bound on failing file, broker and database calls
    MaxCrashes,  \* bound on crashes of the process
    ShellUser    \* whether somebody touches and deletes KILL from a shell

ASSUME GuardOfAssumption == GuardOf \in [Jobs \cup Commands -> Guards]
ASSUME NoneAssumption == None \notin Jobs /\ None \notin Orders
ASSUME BoundsAssumption ==
    MaxFaults \in Nat /\ MaxCrashes \in Nat /\ ShellUser \in BOOLEAN

VARIABLES
    flag,     \* RiskGuard._kill_switch_engaged_manually, per guard
    file,     \* whether the KILL file exists
    order,    \* the broker's view of each order
    pc,       \* where each job is inside RiskGuard.place_order
    status,   \* the order whose OrderStatus the job holds, None before it has one
    cmd,      \* where each command is inside engage or reset
    audited,  \* orders with an "order_placed" row
    faults,   \* failed calls so far
    crashes   \* crashes so far

\* History variables: they are only read by properties.
VARIABLES
    fence,     \* the KILL file was touched and no reset or delete began since
    contested, \* a reset was already under way when it was last touched
    swept,     \* a cancel_all ran since that touch, inside the fence
    late,      \* orders placed inside the fence while the file was there
    by         \* the job that placed each order

codeVars == <<flag, file, order, pc, status, cmd, audited, faults, crashes>>
history == <<fence, contested, swept, late, by>>
vars == <<codeVars, history>>

OrderStates == {"new", "working", "filled", "cancelled"}
JobSteps == {"idle", "flag", "place", "audit"}
CommandSteps == {"idle", "touch", "cancel", "exists", "unlink"}

Working == {o \in Orders : order[o] = "working"}
Placed == {o \in Orders : order[o] # "new"}
Resetting == \E c \in Commands : cmd[c] \in {"exists", "unlink"}

\* RiskGuard.kill_switch_active of guard g.
KillSwitchActive(g) == file \/ flag[g]

Init ==
    /\ flag = [g \in Guards |-> FALSE]
    /\ file = FALSE
    /\ order = [o \in Orders |-> "new"]
    /\ pc = [j \in Jobs |-> "idle"]
    /\ status = [j \in Jobs |-> None]
    /\ cmd = [c \in Commands |-> "idle"]
    /\ audited = {}
    /\ faults = 0
    /\ crashes = 0
    /\ fence = FALSE
    /\ contested = FALSE
    /\ swept = FALSE
    /\ late = {}
    /\ by = [o \in Orders |-> None]

-----------------------------------------------------------------------------
(* History bookkeeping: a fence begins with every touch of KILL, also with *)
(* one that comes while a reset is under way, and ends when a reset begins *)
(* or KILL is deleted by hand.  A reset that began before the touch does   *)
(* not end it: the file it may still unlink is a kill that is lost.        *)

\* KILL is touched.  A touch that creates the file is followed by new stragglers.
BeginFence ==
    /\ fence' = TRUE
    /\ contested' = Resetting
    /\ swept' = FALSE
    /\ late' = IF file THEN late ELSE {}
    /\ UNCHANGED by

EndFence ==
    /\ fence' = FALSE
    /\ contested' = FALSE
    /\ swept' = FALSE
    /\ late' = {}
    /\ UNCHANGED by

-----------------------------------------------------------------------------
(* RiskGuard.place_order, as a job runs it.                                *)

\* What only the job's own position changes.
KeepRest == UNCHANGED <<flag, file, order, status, cmd, audited, crashes, history>>

\* Mutant of CheckFile: kill_switch_active looks at the guard's flag only.
CheckFileSkipped(j) ==
    /\ pc[j] = "idle"
    /\ Placed # Orders
    /\ pc' = [pc EXCEPT ![j] = "flag"]
    /\ KeepRest /\ UNCHANGED faults

\* check_order begins with kill_switch_active, which looks at the file first.
CheckFile(j) ==
    /\ pc[j] = "idle"
    /\ Placed # Orders
    /\ ~file
    /\ pc' = [pc EXCEPT ![j] = "flag"]
    /\ KeepRest /\ UNCHANGED faults

\* ... then at the guard's own flag; here every other check passes as well.
CheckFlag(j) ==
    /\ pc[j] = "flag"
    /\ ~flag[GuardOf[j]]
    /\ pc' = [pc EXCEPT ![j] = "place"]
    /\ KeepRest /\ UNCHANGED faults

\* The flag, or one of the other checks, rejects the order.
Reject(j) ==
    /\ pc[j] = "flag"
    /\ pc' = [pc EXCEPT ![j] = "idle"]
    /\ KeepRest /\ UNCHANGED faults

\* Mutant of Place: the order is sent and place_order returns without its row.
PlaceUnaudited(j) ==
    /\ pc[j] = "place"
    /\ \E o \in Orders \ Placed :
         /\ order' = [order EXCEPT ![o] = "working"]
         /\ by' = [by EXCEPT ![o] = j]
         /\ late' = IF fence /\ file THEN late \cup {o} ELSE late
    /\ pc' = [pc EXCEPT ![j] = "idle"]
    /\ UNCHANGED <<flag, file, status, cmd, audited, faults, crashes>>
    /\ UNCHANGED <<fence, contested, swept>>

\* broker.place_order: the order reaches the broker, whatever happened to the
\* switch since it was checked.
Place(j) ==
    /\ pc[j] = "place"
    /\ \E o \in Orders \ Placed :
         /\ order' = [order EXCEPT ![o] = "working"]
         /\ status' = [status EXCEPT ![j] = o]
         /\ by' = [by EXCEPT ![o] = j]
         /\ late' = IF fence /\ file THEN late \cup {o} ELSE late
    /\ pc' = [pc EXCEPT ![j] = "audit"]
    /\ UNCHANGED <<flag, file, cmd, audited, faults, crashes, fence, contested, swept>>

\* broker.place_order raises (no connection): nothing was sent, the job aborts.
PlaceFails(j) ==
    /\ pc[j] = "place"
    /\ faults < MaxFaults
    /\ faults' = faults + 1
    /\ pc' = [pc EXCEPT ![j] = "idle"]
    /\ KeepRest

\* write_audit("order_placed"), with the id the broker returned.
Audit(j) ==
    /\ pc[j] = "audit"
    /\ audited' = audited \cup {status[j]}
    /\ status' = [status EXCEPT ![j] = None]
    /\ pc' = [pc EXCEPT ![j] = "idle"]
    /\ UNCHANGED <<flag, file, order, cmd, faults, crashes, history>>

\* The store raises: the order is live and has no row.
AuditFails(j) ==
    /\ pc[j] = "audit"
    /\ faults < MaxFaults
    /\ faults' = faults + 1
    /\ status' = [status EXCEPT ![j] = None]
    /\ pc' = [pc EXCEPT ![j] = "idle"]
    /\ UNCHANGED <<flag, file, order, cmd, audited, crashes, history>>

-----------------------------------------------------------------------------
(* engage_kill_switch and reset_kill_switch, as a command runs them.       *)

KeepJobs == UNCHANGED <<pc, status, audited, crashes>>

\* engage: self._kill_switch_engaged_manually = True.
Engage(c) ==
    /\ cmd[c] = "idle"
    /\ flag' = [flag EXCEPT ![GuardOf[c]] = TRUE]
    /\ cmd' = [cmd EXCEPT ![c] = "touch"]
    /\ KeepJobs /\ UNCHANGED <<file, order, faults, history>>

\* Mutant of Touch: the switch is kept in the guard's memory only.
TouchForgotten(c) ==
    /\ cmd[c] = "touch"
    /\ BeginFence
    /\ cmd' = [cmd EXCEPT ![c] = "cancel"]
    /\ KeepJobs /\ UNCHANGED <<flag, file, order, faults>>

\* engage: touch the KILL file.
Touch(c) ==
    /\ cmd[c] = "touch"
    /\ file' = TRUE
    /\ BeginFence
    /\ cmd' = [cmd EXCEPT ![c] = "cancel"]
    /\ KeepJobs /\ UNCHANGED <<flag, order, faults>>

\* Mutant of CancelAll: engage returns without it.
CancelForgotten(c) ==
    /\ cmd[c] = "cancel"
    /\ cmd' = [cmd EXCEPT ![c] = "idle"]
    /\ KeepJobs /\ UNCHANGED <<flag, file, order, faults, history>>

\* Mutant of CancelAll: it goes by the audit table and misses what has no row.
CancelRecorded(c) ==
    /\ cmd[c] = "cancel"
    /\ order' = [o \in Orders |->
                   IF order[o] = "working" /\ o \in audited THEN "cancelled" ELSE order[o]]
    /\ swept' = fence
    /\ cmd' = [cmd EXCEPT ![c] = "idle"]
    /\ KeepJobs /\ UNCHANGED <<flag, file, faults, fence, contested, late, by>>

\* engage: broker.cancel_all, which cancels whatever is working at that moment.
CancelAll(c) ==
    /\ cmd[c] = "cancel"
    /\ order' = [o \in Orders |-> IF order[o] = "working" THEN "cancelled" ELSE order[o]]
    /\ swept' = fence
    /\ cmd' = [cmd EXCEPT ![c] = "idle"]
    /\ KeepJobs /\ UNCHANGED <<flag, file, faults, fence, contested, late, by>>

\* engage: touch raises OSError (read-only directory) or cancel_all raises
\* (no connection); the exception leaves the steps already taken in place.
EngageFails(c) ==
    /\ cmd[c] \in {"touch", "cancel"}
    /\ faults < MaxFaults
    /\ faults' = faults + 1
    /\ cmd' = [cmd EXCEPT ![c] = "idle"]
    /\ KeepJobs /\ UNCHANGED <<flag, file, order, history>>

\* reset: self._kill_switch_engaged_manually = False.
Reset(c) ==
    /\ cmd[c] = "idle"
    /\ flag' = [flag EXCEPT ![GuardOf[c]] = FALSE]
    /\ cmd' = [cmd EXCEPT ![c] = "exists"]
    /\ EndFence
    /\ KeepJobs /\ UNCHANGED <<file, order, faults>>

\* reset: if kill_file.exists().
Exists(c) ==
    /\ cmd[c] = "exists"
    /\ cmd' = [cmd EXCEPT ![c] = IF file THEN "unlink" ELSE "idle"]
    /\ KeepJobs /\ UNCHANGED <<flag, file, order, faults, history>>

\* reset: kill_file.unlink(), which raises when somebody else was faster; the
\* file is gone either way.
Unlink(c) ==
    /\ cmd[c] = "unlink"
    /\ file' = FALSE
    /\ cmd' = [cmd EXCEPT ![c] = "idle"]
    /\ KeepJobs /\ UNCHANGED <<flag, order, faults, history>>

-----------------------------------------------------------------------------
(* The environment: the shell, the broker's fills, the crash.              *)

\* touch KILL from the command line.
ShellTouch ==
    /\ ShellUser
    /\ ~file
    /\ file' = TRUE
    /\ BeginFence
    /\ KeepJobs /\ UNCHANGED <<flag, order, cmd, faults>>

\* rm KILL from the command line.
ShellDelete ==
    /\ ShellUser
    /\ file
    /\ file' = FALSE
    /\ EndFence
    /\ KeepJobs /\ UNCHANGED <<flag, order, cmd, faults>>

\* A working order trades.
Fill(o) ==
    /\ order[o] = "working"
    /\ order' = [order EXCEPT ![o] = "filled"]
    /\ KeepJobs /\ UNCHANGED <<flag, file, cmd, faults, history>>

\* The process dies and is started again: the guards are new, every thread's
\* work is gone, the file, the orders at the broker and the rows stay.
Crash ==
    /\ crashes < MaxCrashes
    /\ crashes' = crashes + 1
    /\ flag' = [g \in Guards |-> FALSE]
    /\ pc' = [j \in Jobs |-> "idle"]
    /\ status' = [j \in Jobs |-> None]
    /\ cmd' = [c \in Commands |-> "idle"]
    /\ UNCHANGED <<file, order, audited, faults, history>>

-----------------------------------------------------------------------------
JobStep(j) ==
    \/ CheckFile(j) \/ CheckFlag(j) \/ Reject(j)
    \/ Place(j) \/ PlaceFails(j)
    \/ Audit(j) \/ AuditFails(j)

\* The steps that finish a command once it has begun.
CommandStep(c) ==
    \/ Touch(c) \/ CancelAll(c) \/ EngageFails(c)
    \/ Exists(c) \/ Unlink(c)

Next ==
    \/ \E j \in Jobs : JobStep(j)
    \/ \E c \in Commands : Engage(c) \/ Reset(c) \/ CommandStep(c)
    \/ ShellTouch
    \/ ShellDelete
    \/ \E o \in Orders : Fill(o)
    \/ Crash

Spec == Init /\ [][Next]_vars

\* A thread that has begun a command finishes it.
FairSpec == Spec /\ \A c \in Commands : WF_vars(CommandStep(c))

-----------------------------------------------------------------------------
(* Properties.                                                             *)

\* Every variable has its type.
TypeOK ==
    /\ flag \in [Guards -> BOOLEAN]
    /\ file \in BOOLEAN
    /\ order \in [Orders -> OrderStates]
    /\ pc \in [Jobs -> JobSteps]
    /\ status \in [Jobs -> Orders \cup {None}]
    /\ cmd \in [Commands -> CommandSteps]
    /\ audited \in SUBSET Orders
    /\ faults \in Nat
    /\ crashes \in Nat
    /\ fence \in BOOLEAN
    /\ contested \in BOOLEAN
    /\ swept \in BOOLEAN
    /\ late \in SUBSET Orders
    /\ by \in [Orders -> Jobs \cup {None}]

\* Once KILL was touched, every guard of the process, and every guard of the
\* process a crash starts next, stays active until a reset begins or the file is
\* deleted by hand; the one thing that may undo it sooner is a reset that was
\* already under way at the touch.  (guard.py:113: "block new ones until
\* reset_kill_switch() is called"; engage touches, reset unlinks.)
FenceHolds == fence => contested \/ \A g \in Guards : KillSwitchActive(g)

\* Inside the fence, for as long as the file is there, a job can place one order
\* at most, the one it had checked when the switch was thrown: check_order and
\* broker.place_order are not one step, and every later check is rejected.
StragglerBound ==
    \A o, p \in late : by[o] = by[p] => o = p

\* After a kill that ran to its end, the only orders that can still be working
\* are those stragglers: cancel_all took everything placed before it.
SweptClean == fence /\ file /\ swept => Working \subseteq late

\* Orders a job placed that have no row.
Unrecorded(j) == {o \in Placed : by[o] = j /\ o \notin audited}

\* A job has at most one placed order without a row in the audit table for the
\* order it is recording, and one for each failed call or crash.
AuditGap ==
    \A j \in Jobs :
        Cardinality(Unrecorded(j))
            <= faults + crashes + (IF pc[j] = "audit" THEN 1 ELSE 0)

\* What makes the fence inductive: unless it was contested the file is there and
\* nobody is resetting; while the file is there a job that is past its check has
\* placed nothing late; and outside the fence there is no history.
InFlight(j) == pc[j] \in {"flag", "place"}
FenceInv ==
    /\ fence /\ ~contested => file /\ ~Resetting
    /\ ~fence => ~contested /\ ~swept /\ late = {}
    /\ late \subseteq Placed
    /\ fence /\ file => \A j \in Jobs : InFlight(j) => \A o \in late : by[o] # j

\* What makes the audit gap inductive: a job that is about to write a row holds
\* an order of its own without one, and only placed orders have rows.
AuditInv ==
    /\ audited \subseteq Placed
    /\ \A j \in Jobs :
        /\ IsFiniteSet(Unrecorded(j))
        /\ pc[j] = "audit" => status[j] \in Unrecorded(j)

\* The inductive invariant.
IInv == TypeOK /\ FenceInv /\ StragglerBound /\ SweptClean /\ AuditInv /\ AuditGap

\* A kill by command that has touched KILL is followed by a cancel_all, unless a
\* reset begins or the file is deleted first, a call fails or the process dies:
\* nothing the jobs, the other kills or a reset that was under way do keeps it
\* from that.
CommandCancels ==
    \A c \in Commands :
        cmd[c] = "cancel" ~> (swept \/ ~fence \/ faults > 0 \/ crashes > 0)

\* guard.py:113 says of engage_kill_switch that it blocks new orders "until
\* reset_kill_switch() is called".  The code breaks it: a reset that was called
\* before the kill may unlink the file after it.
KillStands == fence => \A g \in Guards : KillSwitchActive(g)

\* README.md:9-12 says that touching KILL, like the commands, cancels every open
\* order: once the file is there, there is a cancel_all or the switch is lifted.
EveryKillCancels == fence ~> (swept \/ ~fence)

\* notify/telegram.py:101 answers a resume with "Kill switch reset. Trading
\* resumed." and web/app.py:114 with kill_switch_active False: when no other
\* command is running, no guard is active any more.
ResumeUnblocks ==
    [][\A c \in Commands :
          /\ cmd[c] \in {"exists", "unlink"}
          /\ cmd'[c] = "idle"
          /\ crashes' = crashes
          /\ \A d \in Commands \ {c} : cmd[d] = "idle"
          => \A g \in Guards : ~KillSwitchActive(g)']_vars
=============================================================================
