----------------------------- MODULE RateLimiter -----------------------------
(***************************************************************************)
(* broker/pacing.py: the lock-protected sliding window the requests of     *)
(* broker/ib.py go through.  Threads (a scheduler job, web requests)     *)
(* acquire a slot and then send their message.  Time is a clock of ticks   *)
(* that runs while a thread sleeps with the lock in its hands, and between *)
(* a thread's slot and its message.                                        *)
(***************************************************************************)
EXTENDS Naturals, Sequences, FiniteSets

CONSTANTS
    Threads,   \* callers of acquire
    None,      \* nobody
    MaxCalls,  \* RateLimiter.max_calls
    Per,       \* RateLimiter.per_seconds, in ticks
    Budget,    \* bound on the calls of all threads together
    MaxClock   \* bound on the clock, beyond which it runs only for a sleeper

ASSUME LimitsAssumption == MaxCalls \in Nat \ {0} /\ Per \in Nat \ {0}
ASSUME ThreadsAssumption == IsFiniteSet(Threads)
ASSUME NoneAssumption == None \notin Threads
ASSUME BoundsAssumption == Budget \in Nat /\ MaxClock \in Nat

VARIABLES
    clock,    \* time.monotonic()
    lock,     \* the holder of _lock, or None
    pc,       \* where each thread is
    wake,     \* when a sleeping thread wakes up
    calls,    \* _calls: the grants still in the window, as indices of granted
    granted,  \* the time stamp of every grant, in order
    sent,     \* the time of every message, in order
    asked     \* calls of acquire so far

vars == <<clock, lock, pc, wake, calls, granted, sent, asked>>

Steps == {"idle", "wait", "sleep", "send"}

Init ==
    /\ clock = 0
    /\ lock = None
    /\ pc = [t \in Threads |-> "idle"]
    /\ wake = [t \in Threads |-> 0]
    /\ calls = {}
    /\ granted = <<>>
    /\ sent = <<>>
    /\ asked = 0

\* self._calls = [t for t in self._calls if now - t < self.per_seconds]
Fresh(now) == {i \in calls : now - granted[i] < Per}

\* _calls[0] of the list kept.
Oldest(kept) == CHOOSE i \in kept : \A k \in kept : i <= k

\* Mutant of Grant: a thread that slept returns with the lock.
GrantKeepsLock(t, kept) ==
    /\ granted' = Append(granted, clock)
    /\ calls' = kept \cup {Len(granted) + 1}
    /\ pc' = [pc EXCEPT ![t] = "send"]
    /\ UNCHANGED <<lock, wake>>

\* self._calls.append(now), the return of acquire and the release of the lock.
Grant(t, kept) ==
    /\ granted' = Append(granted, clock)
    /\ calls' = kept \cup {Len(granted) + 1}
    /\ lock' = None
    /\ pc' = [pc EXCEPT ![t] = "send"]
    /\ UNCHANGED wake

\* A thread calls acquire and queues for the lock.
Acquire(t) ==
    /\ pc[t] = "idle"
    /\ asked < Budget
    /\ asked' = asked + 1
    /\ pc' = [pc EXCEPT ![t] = "wait"]
    /\ UNCHANGED <<clock, lock, wake, calls, granted, sent>>

\* Mutant of GrantNow: > max_calls where the code has >=.
GrantOneMore(t) ==
    /\ pc[t] = "wait"
    /\ lock = None
    /\ Cardinality(Fresh(clock)) <= MaxCalls
    /\ Grant(t, Fresh(clock))
    /\ UNCHANGED <<clock, sent, asked>>

\* Mutant of GrantNow: the length of the window is not looked at.
GrantAlways(t) ==
    /\ pc[t] = "wait"
    /\ lock = None
    /\ Grant(t, Fresh(clock))
    /\ UNCHANGED <<clock, sent, asked>>

\* It has the lock and the window has room.
GrantNow(t) ==
    /\ pc[t] = "wait"
    /\ lock = None
    /\ Cardinality(Fresh(clock)) < MaxCalls
    /\ Grant(t, Fresh(clock))
    /\ UNCHANGED <<clock, sent, asked>>

\* Mutant of Sleep: it sleeps a whole window from now.
SleepWholeWindow(t) ==
    /\ pc[t] = "wait"
    /\ lock = None
    /\ Cardinality(Fresh(clock)) >= MaxCalls
    /\ calls' = Fresh(clock)
    /\ wake' = [wake EXCEPT ![t] = clock + Per]
    /\ lock' = t
    /\ pc' = [pc EXCEPT ![t] = "sleep"]
    /\ UNCHANGED <<clock, granted, sent, asked>>

\* It has the lock and the window is full: it sleeps, holding the lock, until
\* the oldest call leaves the window.
Sleep(t) ==
    /\ pc[t] = "wait"
    /\ lock = None
    /\ Cardinality(Fresh(clock)) >= MaxCalls
    /\ calls' = Fresh(clock)
    /\ wake' = [wake EXCEPT ![t] = granted[Oldest(Fresh(clock))] + Per]
    /\ lock' = t
    /\ pc' = [pc EXCEPT ![t] = "sleep"]
    /\ UNCHANGED <<clock, granted, sent, asked>>

\* Mutant of Wake: the window is not pruned again after the sleep.
WakeWithoutPruning(t) ==
    /\ pc[t] = "sleep"
    /\ clock >= wake[t]
    /\ Grant(t, calls)
    /\ UNCHANGED <<clock, sent, asked>>

\* It wakes up, reads the clock again, prunes again and takes its slot.
Wake(t) ==
    /\ pc[t] = "sleep"
    /\ clock >= wake[t]
    /\ Grant(t, Fresh(clock))
    /\ UNCHANGED <<clock, sent, asked>>

\* Back in broker/ib.py: the message acquire was called for goes out.
Send(t) ==
    /\ pc[t] = "send"
    /\ sent' = Append(sent, clock)
    /\ pc' = [pc EXCEPT ![t] = "idle"]
    /\ UNCHANGED <<clock, lock, wake, calls, granted, asked>>

\* Time passes.
Tick ==
    /\ clock < MaxClock \/ \E t \in Threads : pc[t] = "sleep" /\ clock < wake[t]
    /\ clock' = clock + 1
    /\ UNCHANGED <<lock, pc, wake, calls, granted, sent, asked>>

ThreadStep(t) == GrantNow(t) \/ Sleep(t) \/ Wake(t) \/ Send(t)

Next == Tick \/ \E t \in Threads : Acquire(t) \/ ThreadStep(t)

Spec == Init /\ [][Next]_vars

\* Time passes and a runnable thread runs.  The Python lock promises no order
\* among its waiters: a waiter is only sure of it once nobody else wants it.
FairSpec ==
    /\ Spec
    /\ WF_vars(Tick)
    /\ \A t \in Threads :
         /\ WF_vars(GrantNow(t) \/ Sleep(t))
         /\ WF_vars(Wake(t))
         /\ WF_vars(Send(t))

-----------------------------------------------------------------------------
(* Properties.                                                             *)

\* Every variable has its type.
TypeOK ==
    /\ clock \in Nat
    /\ lock \in Threads \cup {None}
    /\ pc \in [Threads -> Steps]
    /\ wake \in [Threads -> Nat]
    /\ granted \in Seq(Nat)
    /\ calls \in SUBSET DOMAIN granted
    /\ sent \in Seq(Nat)
    /\ asked \in Nat

\* No window of Per ticks holds more than MaxCalls grants: a grant and the one
\* MaxCalls later are Per apart, whoever slept between them.
WindowBound ==
    \A i \in DOMAIN granted :
        i + MaxCalls <= Len(granted) => granted[i + MaxCalls] >= granted[i] + Per

\* "Blocks just long enough": a thread that sleeps could not have been granted
\* one tick earlier without breaking the window.
JustLongEnough ==
    \A t \in Threads :
        pc[t] = "sleep" =>
            /\ Len(granted) >= MaxCalls
            /\ wake[t] = granted[Len(granted) - MaxCalls + 1] + Per

\* What makes the window inductive: the grants are in time order, _calls is the
\* newest of them, at most MaxCalls, everything it dropped is out of the window,
\* and the one sleeper holds the lock and a full window.
WindowInv ==
    /\ \A i, k \in DOMAIN granted : i <= k => granted[i] <= granted[k]
    /\ \A i \in DOMAIN granted : granted[i] <= clock
    /\ \A i \in calls : \A k \in DOMAIN granted : i <= k => k \in calls
    /\ \A i \in DOMAIN granted \ calls : granted[i] + Per <= clock
    /\ Cardinality(calls) <= MaxCalls
    /\ \A t \in Threads : pc[t] = "sleep" => lock = t /\ Cardinality(calls) = MaxCalls

\* The threads that took a slot and have not sent yet.
Owing == {t \in Threads : pc[t] = "send"}

\* What ties the messages to the grants: each grant is sent or owed by a thread,
\* the messages are in time order, the k-th goes out no earlier than the k-th
\* grant, and before one grant more than there are threads has come after it.
SendInv ==
    /\ Len(granted) = Len(sent) + Cardinality(Owing)
    /\ \A i, k \in DOMAIN sent : i <= k => sent[i] <= sent[k]
    /\ \A i \in DOMAIN sent : granted[i] <= sent[i] /\ sent[i] <= clock
    /\ \A i \in DOMAIN sent :
         i + Cardinality(Threads) <= Len(granted)
           => sent[i] <= granted[i + Cardinality(Threads)]

\* The inductive invariant.
IInv == TypeOK /\ WindowInv /\ WindowBound /\ JustLongEnough /\ SendInv

\* What the Gateway sees of broker/ib.py: a window of Per ticks holds at most MaxCalls messages
\* and one more for each thread that was between its slot and its message.
MessageBound ==
    \A i \in DOMAIN sent :
        LET burst == {k \in DOMAIN sent : k >= i /\ sent[k] < sent[i] + Per}
        IN  Cardinality(burst) <= MaxCalls + Cardinality(Threads)

\* Every call of acquire returns, the kill switch's cancel_all included: a
\* thread that sleeps with the lock delays the others and stops none for good.
EveryCallGranted == \A t \in Threads : pc[t] = "wait" ~> pc[t] = "send"

-----------------------------------------------------------------------------
(* The other callers of the same connection.                               *)

\* data/market.py and data/options.py call ib_broker.ib itself, once a symbol of
\* a scan and once a contract of a chain, and acquire nothing.
Unpaced(t) ==
    /\ pc[t] = "idle"
    /\ Len(sent) < Budget
    /\ sent' = Append(sent, clock)
    /\ UNCHANGED <<clock, lock, pc, wake, calls, granted, asked>>

\* Of this specification MessageBound does not hold.
WithScans == Init /\ [][Next \/ \E t \in Threads : Unpaced(t)]_vars
=============================================================================
