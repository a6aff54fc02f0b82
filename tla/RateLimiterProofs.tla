-------------------------- MODULE RateLimiterProofs --------------------------
(***************************************************************************)
(* For any number of threads, any limit and any window length, the grants  *)
(* of the rate limiter never exceed the limit in a window, a sleeping      *)
(* thread sleeps no longer than that needs, and the messages exceed the    *)
(* limit by no more than one for each thread.                              *)
(***************************************************************************)
EXTENDS RateLimiter, FiniteSetTheorems, TLAPS

\* The newest c of the numbers 1..n are the only subset of size c that holds
\* every number above each of its members.
LEMMA NewestOnly ==
    ASSUME NEW n \in Nat, NEW C \in SUBSET (1..n),
           \A i \in C : \A k \in 1..n : i <= k => k \in C
    PROVE  /\ IsFiniteSet(C)
           /\ Cardinality(C) \in Nat
           /\ C = (n - Cardinality(C) + 1)..n
<1>1. IsFiniteSet(C) /\ Cardinality(C) \in Nat /\ Cardinality(C) <= n
  <2>1. IsFiniteSet(1..n) /\ Cardinality(1..n) = n
    BY FS_Interval
  <2> QED
    BY <2>1, FS_Subset, FS_CardinalityType
<1> DEFINE c == Cardinality(C)
<1>2. ASSUME NEW x \in C PROVE x \in (n - c + 1)..n
  <2>1. x..n \subseteq C
    OBVIOUS
  <2>2. IsFiniteSet(x..n) /\ Cardinality(x..n) = n - x + 1
    BY FS_Interval
  <2>3. n - x + 1 <= c
    BY <1>1, <2>1, <2>2, FS_Subset
  <2> QED
    BY <1>1, <2>3
<1>3. ASSUME NEW x \in (n - c + 1)..n PROVE x \in C
  <2> SUFFICES ASSUME x \notin C PROVE FALSE
    OBVIOUS
  <2>0. x \in 1..n /\ x + 1 \in Int
    BY <1>1
  <2> DEFINE above == (x + 1)..n
  <2>1. C \in SUBSET above
    BY <2>0
  <2>2. IsFiniteSet(above) /\ Cardinality(above) = n - x
    <3> DEFINE y == x + 1
    <3>1. y \in Int /\ n \in Int
      BY <2>0
    <3> HIDE DEF y
    <3>2. IsFiniteSet(y..n) /\ Cardinality(y..n) = IF y > n THEN 0 ELSE n - y + 1
      BY <3>1, FS_Interval
    <3>3. (IF y > n THEN 0 ELSE n - y + 1) = n - x
      BY <2>0 DEF y
    <3>4. IsFiniteSet(y..n) /\ Cardinality(y..n) = n - x
      BY <3>2, <3>3
    <3> QED
      BY <3>4 DEF y
  <2> HIDE DEF above
  <2>3. c <= n - x
    BY <2>1, <2>2, FS_Subset
  <2> QED
    BY <1>1, <2>0, <2>3
<1> QED
  BY <1>1, <1>2, <1>3

\* What pruning keeps is again the newest grants, and everything else has left
\* the window.
LEMMA FreshIsNewest ==
    ASSUME TypeOK, WindowInv
    PROVE  LET n == Len(granted)
               f == Fresh(clock)
           IN  /\ f \subseteq calls
               /\ IsFiniteSet(f) /\ Cardinality(f) \in Nat
               /\ Cardinality(f) <= MaxCalls
               /\ f = (n - Cardinality(f) + 1)..n
               /\ \A i \in (1..n) \ f : granted[i] + Per <= clock
               /\ \A i \in 1..n : granted[i] \in Nat
<1> DEFINE n == Len(granted)
           f == Fresh(clock)
<1> USE LimitsAssumption
<1>1. /\ n \in Nat /\ DOMAIN granted = 1..n /\ clock \in Nat
      /\ \A i \in 1..n : granted[i] \in Nat
  BY DEF TypeOK
<1>2. /\ f \in SUBSET (1..n) /\ f \subseteq calls
      /\ \A i \in calls : i \in f <=> clock - granted[i] < Per
  BY <1>1 DEF Fresh, TypeOK
<1>3. \A i \in f : \A k \in 1..n : i <= k => k \in f
  <2>1. ASSUME NEW i \in f, NEW k \in 1..n, i <= k PROVE k \in f
    <3>1. granted[i] <= granted[k] /\ k \in calls
      BY <1>1, <1>2, <2>1 DEF WindowInv
    <3>2. granted[i] \in Nat /\ granted[k] \in Nat /\ clock - granted[i] < Per
      BY <1>1, <1>2
    <3> QED
      BY <1>1, <1>2, <3>1, <3>2
  <2> QED
    BY <2>1
<1>4. IsFiniteSet(f) /\ Cardinality(f) \in Nat /\ f = (n - Cardinality(f) + 1)..n
  BY <1>1, <1>2, <1>3, NewestOnly
<1>5. Cardinality(f) <= MaxCalls
  <2>1. calls \in SUBSET (1..n)
    BY <1>1 DEF TypeOK
  <2>2. IsFiniteSet(calls) /\ Cardinality(calls) \in Nat
    BY <1>1, <2>1, NewestOnly DEF WindowInv
  <2>3. Cardinality(f) <= Cardinality(calls)
    BY <1>2, <2>2, FS_Subset
  <2> QED
    BY <1>4, <2>2, <2>3 DEF WindowInv
<1>6. \A i \in (1..n) \ f : granted[i] + Per <= clock
  <2>1. ASSUME NEW i \in (1..n) \ f PROVE granted[i] + Per <= clock
    <3>1. CASE i \in calls
      BY <1>1, <1>2, <2>1, <3>1
    <3>2. CASE i \notin calls
      BY <1>1, <2>1, <3>2 DEF WindowInv
    <3> QED
      BY <3>1, <3>2
  <2> QED
    BY <2>1
<1> QED
  BY <1>1, <1>2, <1>4, <1>5, <1>6

\* Taking a slot while fewer than MaxCalls grants are in the window keeps the
\* window within its limit.
LEMMA GrantKeepsWindow ==
    ASSUME TypeOK, WindowInv, WindowBound, NEW t \in Threads, Grant(t, Fresh(clock)),
           Cardinality(Fresh(clock)) < MaxCalls,
           \A u \in Threads \ {t} : pc[u] # "sleep",
           UNCHANGED <<clock, sent, asked>>
    PROVE  TypeOK' /\ WindowInv' /\ WindowBound' /\ JustLongEnough'
<1> DEFINE n == Len(granted)
           f == Fresh(clock)
<1> USE LimitsAssumption
<1>1. /\ n \in Nat /\ clock \in Nat
      /\ f \subseteq 1..n /\ IsFiniteSet(f) /\ Cardinality(f) \in Nat
      /\ f = (n - Cardinality(f) + 1)..n
      /\ \A i \in (1..n) \ f : granted[i] + Per <= clock
      /\ \A i \in 1..n : granted[i] \in Nat
      /\ DOMAIN granted = 1..n
  BY FreshIsNewest DEF TypeOK
<1>2. /\ granted' = Append(granted, clock)
      /\ calls' = f \cup {n + 1}
      /\ lock' = None
      /\ pc' = [pc EXCEPT ![t] = "send"]
      /\ UNCHANGED <<clock, wake, sent, asked>>
  BY DEF Grant
<1>3. /\ Len(granted') = n + 1 /\ DOMAIN granted' = 1..(n + 1)
      /\ granted'[n + 1] = clock
      /\ \A i \in 1..n : granted'[i] = granted[i]
      /\ granted' \in Seq(Nat)
  BY <1>1, <1>2 DEF TypeOK
<1>4. TypeOK'
  <2>1. calls' \subseteq 1..(n + 1)
    BY <1>1, <1>2
  <2> QED
    BY <1>2, <1>3, <2>1 DEF TypeOK, Steps
<1>5. \A u \in Threads : pc'[u] # "sleep"
  BY <1>2 DEF TypeOK
<1>6. \A i \in 1..n : granted[i] <= clock
  BY <1>1 DEF WindowInv
<1>10. calls' = f \cup {n + 1} /\ n + 1 \notin f
  BY <1>1, <1>2
<1>11. \A i \in 1..n : i + MaxCalls <= n => granted[i + MaxCalls] >= granted[i] + Per
  BY <1>1 DEF WindowBound
<1> HIDE DEF f, n
<1>7. WindowInv'
  <2>1. \A i, k \in 1..(n + 1) : i <= k => granted'[i] <= granted'[k]
    <3>1. \A i, k \in 1..n : i <= k => granted[i] <= granted[k]
      BY <1>1 DEF WindowInv
    <3>2. ASSUME NEW i \in 1..(n + 1), NEW k \in 1..(n + 1), i <= k
          PROVE  granted'[i] <= granted'[k]
      <4>1. CASE k \in 1..n
        <5>1. i \in 1..n
          BY <1>1, <3>2, <4>1
        <5>2. granted[i] <= granted[k]
          BY <3>1, <3>2, <4>1, <5>1
        <5> QED
          BY <1>3, <4>1, <5>1, <5>2
      <4>2. CASE k = n + 1 /\ i \in 1..n
        BY <1>1, <1>3, <1>6, <4>2
      <4>3. CASE k = n + 1 /\ i = n + 1
        BY <1>1, <1>3, <4>3
      <4> QED
        BY <1>1, <3>2, <4>1, <4>2, <4>3
    <3> QED
      BY <3>2
  <2>2. \A i \in 1..(n + 1) : granted'[i] <= clock
    BY <1>1, <1>3, <1>6
  <2>3. \A i \in calls' : \A k \in 1..(n + 1) : i <= k => k \in calls'
    BY <1>1, <1>10
  <2>4. \A i \in (1..(n + 1)) \ calls' : granted'[i] + Per <= clock
    BY <1>1, <1>3, <1>10
  <2>5. Cardinality(calls') <= MaxCalls
    <3>1. Cardinality(calls') = Cardinality(f) + 1
      BY <1>1, <1>10, FS_AddElement
    <3> QED
      BY <1>1, <3>1 DEF f
  <2> QED
    BY <1>2, <1>3, <1>5, <2>1, <2>2, <2>3, <2>4, <2>5 DEF WindowInv
<1>8. WindowBound'
  <2> SUFFICES ASSUME NEW i \in 1..(n + 1), i + MaxCalls <= n + 1
               PROVE  granted'[i + MaxCalls] >= granted'[i] + Per
    BY <1>3 DEF WindowBound
  <2>1. CASE i + MaxCalls <= n
    <3>1. granted[i + MaxCalls] >= granted[i] + Per
      BY <1>1, <1>11, <2>1
    <3> QED
      BY <1>1, <1>3, <2>1, <3>1
  <2>2. CASE i + MaxCalls = n + 1
    \* The grant MaxCalls before this one is not among the newest that were kept.
    <3>1. i \in 1..n /\ i \notin f
      BY <1>1, <2>2 DEF f
    <3> QED
      BY <1>1, <1>3, <2>2, <3>1
  <2> QED
    BY <1>1, <2>1, <2>2
<1>9. JustLongEnough'
  BY <1>5 DEF JustLongEnough
<1> QED
  BY <1>4, <1>7, <1>8, <1>9

\* The threads that owe a message are finitely many, at most all.
LEMMA OwingIsFinite ==
    /\ IsFiniteSet(Owing)
    /\ Cardinality(Owing) \in Nat /\ Cardinality(Threads) \in Nat
    /\ Cardinality(Owing) <= Cardinality(Threads)
  BY ThreadsAssumption, FS_Subset, FS_CardinalityType DEF Owing

\* A thread that takes a slot owes one message more.
LEMMA GrantKeepsSends ==
    ASSUME TypeOK, WindowInv, SendInv, NEW t \in Threads, pc[t] # "send",
           Grant(t, Fresh(clock)), UNCHANGED <<clock, sent, asked>>
    PROVE  SendInv'
<1> DEFINE n == Len(granted)
           o == Cardinality(Owing)
           T == Cardinality(Threads)
<1>1. /\ n \in Nat /\ Len(sent) \in Nat /\ clock \in Nat
      /\ DOMAIN granted = 1..n /\ DOMAIN sent = 1..Len(sent)
      /\ \A i \in 1..Len(sent) : sent[i] \in Nat
      /\ o \in Nat /\ T \in Nat
  BY OwingIsFinite DEF TypeOK
<1>2. /\ n = Len(sent) + o
      /\ \A i, k \in 1..Len(sent) : i <= k => sent[i] <= sent[k]
      /\ \A i \in 1..Len(sent) : granted[i] <= sent[i] /\ sent[i] <= clock
      /\ \A i \in 1..Len(sent) : i + T <= n => sent[i] <= granted[i + T]
  BY <1>1 DEF SendInv
<1>3. /\ granted' = Append(granted, clock)
      /\ pc' = [pc EXCEPT ![t] = "send"]
      /\ UNCHANGED <<clock, sent>>
  BY DEF Grant
<1>4. /\ Len(granted') = n + 1
      /\ granted'[n + 1] = clock
      /\ \A i \in 1..n : granted'[i] = granted[i]
  BY <1>1, <1>3 DEF TypeOK
<1>5. Cardinality(Owing') = o + 1
  <2>1. Owing' = Owing \cup {t} /\ t \notin Owing
    BY <1>3 DEF Owing, TypeOK
  <2> QED
    BY <2>1, OwingIsFinite, FS_AddElement
<1> HIDE DEF n, o, T
<1>6. Len(granted') = Len(sent) + Cardinality(Owing')
  BY <1>1, <1>2, <1>4, <1>5
<1>7. \A i \in 1..Len(sent) : granted'[i] <= sent[i] /\ sent[i] <= clock
  BY <1>1, <1>2, <1>4
<1>8. ASSUME NEW i \in 1..Len(sent), i + T <= n + 1
      PROVE  sent[i] <= granted'[i + T]
  <2>1. CASE i + T <= n
    BY <1>1, <1>2, <1>4, <1>8, <2>1
  <2>2. CASE i + T = n + 1
    BY <1>1, <1>2, <1>4, <2>2
  <2> QED
    BY <1>1, <1>8, <2>1, <2>2
<1> QED
  BY <1>1, <1>2, <1>3, <1>4, <1>6, <1>7, <1>8 DEF SendInv, T

\* A thread that sends owes one message less.
LEMMA SendKeepsSends ==
    ASSUME TypeOK, WindowInv, SendInv, NEW t \in Threads, Send(t)
    PROVE  SendInv'
<1> DEFINE n == Len(granted)
           m == Len(sent)
           o == Cardinality(Owing)
           T == Cardinality(Threads)
<1>1. /\ n \in Nat /\ m \in Nat /\ clock \in Nat
      /\ DOMAIN granted = 1..n /\ DOMAIN sent = 1..m
      /\ \A i \in 1..m : sent[i] \in Nat
      /\ o \in Nat /\ T \in Nat /\ o <= T
  BY OwingIsFinite DEF TypeOK
<1>2. /\ n = m + o
      /\ \A i, k \in 1..m : i <= k => sent[i] <= sent[k]
      /\ \A i \in 1..m : granted[i] <= sent[i] /\ sent[i] <= clock
      /\ \A i \in 1..m : i + T <= n => sent[i] <= granted[i + T]
      /\ \A i \in 1..n : granted[i] <= clock
  BY <1>1 DEF SendInv, WindowInv
<1>3. /\ sent' = Append(sent, clock)
      /\ pc[t] = "send" /\ pc' = [pc EXCEPT ![t] = "idle"]
      /\ UNCHANGED <<clock, granted>>
  BY DEF Send
<1>4. /\ Len(sent') = m + 1 /\ DOMAIN sent' = 1..(m + 1)
      /\ sent'[m + 1] = clock
      /\ \A i \in 1..m : sent'[i] = sent[i]
  BY <1>1, <1>3 DEF TypeOK
<1>5. Cardinality(Owing') = o - 1 /\ o >= 1
  <2>1. Owing' = Owing \ {t} /\ t \in Owing
    BY <1>3 DEF Owing, TypeOK
  <2>2. Owing' = Owing \ {t} /\ Cardinality(Owing \ {t}) = o - 1
    BY <2>1, OwingIsFinite, FS_RemoveElement
  <2>3. o # 0
    BY <2>1, OwingIsFinite, FS_EmptySet
  <2> QED
    BY <1>1, <2>2, <2>3
<1> HIDE DEF n, m, o, T
<1>6. n = Len(sent') + Cardinality(Owing')
  BY <1>1, <1>2, <1>4, <1>5
<1>7. ASSUME NEW i \in 1..(m + 1), NEW k \in 1..(m + 1), i <= k
      PROVE  sent'[i] <= sent'[k]
  <2>1. CASE k \in 1..m
    <3>1. i \in 1..m
      BY <1>1, <1>7, <2>1
    <3> QED
      BY <1>2, <1>4, <1>7, <2>1, <3>1
  <2>2. CASE k = m + 1
    <3>1. i \in 1..m \/ i = m + 1
      BY <1>1
    <3> QED
      BY <1>1, <1>2, <1>4, <2>2, <3>1
  <2> QED
    BY <1>1, <2>1, <2>2
<1>8. \A i \in 1..(m + 1) : granted[i] <= sent'[i] /\ sent'[i] <= clock
  <2>1. m + 1 \in 1..n
    BY <1>1, <1>2, <1>5
  <2> QED
    BY <1>1, <1>2, <1>4, <2>1
\* The newest message has fewer than T grants after its own.
<1>9. ASSUME NEW i \in 1..(m + 1), i + T <= n
      PROVE  sent'[i] <= granted[i + T]
  <2>1. i \in 1..m
    BY <1>1, <1>2, <1>9
  <2> QED
    BY <1>2, <1>4, <1>9, <2>1
<1>10. \A i, k \in 1..(m + 1) : i <= k => sent'[i] <= sent'[k]
  BY <1>7
<1>11. \A i \in 1..(m + 1) : i + T <= n => sent'[i] <= granted[i + T]
  BY <1>9
<1> QED
  BY <1>3, <1>4, <1>6, <1>8, <1>10, <1>11 DEF SendInv, n, T

\* A step of no thread to or from its message leaves the tie alone.
LEMMA OthersKeepSends ==
    ASSUME TypeOK, SendInv, UNCHANGED <<granted, sent>>, clock' \in Nat, clock <= clock',
           Owing' = Owing
    PROVE  SendInv'
<1>1. \A i \in DOMAIN sent : sent[i] \in Nat
  BY DEF TypeOK
<1>2. clock \in Nat
  BY DEF TypeOK
<1>3. \A i \in DOMAIN sent : sent[i] <= clock'
  BY <1>1, <1>2 DEF SendInv
<1> QED
  BY <1>3 DEF SendInv

\* The initial state has no grants.
LEMMA InitIInv == Init => IInv
<1> SUFFICES ASSUME Init PROVE IInv
  OBVIOUS
<1>1. /\ granted = <<>> /\ Len(granted) = 0 /\ DOMAIN granted = {}
      /\ granted \in Seq(Nat) /\ sent \in Seq(Nat)
  BY DEF Init
<1>2. TypeOK
  BY <1>1 DEF Init, TypeOK, Steps
<1>3. WindowInv
  BY <1>1, FS_EmptySet, LimitsAssumption DEF Init, WindowInv
<1>4. WindowBound /\ JustLongEnough
  BY <1>1 DEF Init, WindowBound, JustLongEnough
<1>5. SendInv
  <2>1. DOMAIN sent = {} /\ Len(sent) = 0 /\ Owing = {}
    BY DEF Init, Owing
  <2> QED
    BY <1>1, <2>1, FS_EmptySet DEF SendInv
<1> QED
  BY <1>2, <1>3, <1>4, <1>5 DEF IInv

\* Every step keeps the inductive invariant.
LEMMA NextIInv == IInv /\ [Next]_vars => IInv'
<1> SUFFICES ASSUME IInv, [Next]_vars PROVE IInv'
  OBVIOUS
<1> USE LimitsAssumption, NoneAssumption
<1>0. TypeOK /\ WindowInv /\ WindowBound /\ JustLongEnough /\ SendInv
  BY DEF IInv
<1>1. ASSUME NEW t \in Threads, Acquire(t) PROVE IInv'
  <2>1. TypeOK'
    BY <1>0, <1>1 DEF Acquire, TypeOK, Steps
  <2>2. WindowInv' /\ WindowBound' /\ JustLongEnough'
    BY <1>0, <1>1 DEF Acquire, TypeOK, WindowInv, WindowBound, JustLongEnough
  <2>3. SendInv'
    <3>1. Owing' = Owing
      BY <1>0, <1>1 DEF Acquire, Owing, TypeOK
    <3> QED
      BY <1>0, <1>1, <3>1, OthersKeepSends DEF Acquire, TypeOK
  <2> QED
    BY <2>1, <2>2, <2>3 DEF IInv
<1>2. ASSUME NEW t \in Threads, GrantNow(t) PROVE IInv'
  <2>1. \A u \in Threads : pc[u] # "sleep"
    \* A sleeper would hold the lock.
    BY <1>0, <1>2 DEF GrantNow, WindowInv
  <2>2. TypeOK' /\ WindowInv' /\ WindowBound' /\ JustLongEnough'
    BY <1>0, <1>2, <2>1, GrantKeepsWindow DEF GrantNow
  <2>3. SendInv'
    BY <1>0, <1>2, GrantKeepsSends DEF GrantNow
  <2> QED
    BY <2>2, <2>3 DEF IInv
<1>3. ASSUME NEW t \in Threads, Sleep(t) PROVE IInv'
  <2> DEFINE n == Len(granted)
             f == Fresh(clock)
  <2>1. /\ pc[t] = "wait" /\ lock = None /\ Cardinality(f) >= MaxCalls
        /\ calls' = f
        /\ wake' = [wake EXCEPT ![t] = granted[Oldest(f)] + Per]
        /\ lock' = t
        /\ pc' = [pc EXCEPT ![t] = "sleep"]
        /\ UNCHANGED <<clock, granted, sent, asked>>
    BY <1>3 DEF Sleep
  <2>2. /\ f \subseteq calls /\ f \subseteq 1..n /\ DOMAIN granted = 1..n
        /\ n \in Nat /\ clock \in Nat
        /\ Cardinality(f) \in Nat
        /\ Cardinality(f) <= MaxCalls
        /\ f = (n - Cardinality(f) + 1)..n
        /\ \A i \in (1..n) \ f : granted[i] + Per <= clock
        /\ \A i \in 1..n : granted[i] \in Nat
    BY <1>0, FreshIsNewest DEF TypeOK
  <2> HIDE DEF f, n
  <2>3. Cardinality(f) = MaxCalls
    BY <2>1, <2>2
  <2>4. f = (n - MaxCalls + 1)..n
    BY <2>2, <2>3
  <2>5. n - MaxCalls + 1 \in f
    BY <2>2, <2>4
  <2>6. Oldest(f) = n - MaxCalls + 1 /\ n >= MaxCalls
    <3>1. \A i \in f : n - MaxCalls + 1 <= i
      BY <2>2, <2>4
    <3>2. \A i, k \in f : i <= k /\ k <= i => i = k
      BY <2>2
    <3> QED
      BY <2>2, <2>5, <3>1, <3>2 DEF Oldest
  <2>7. TypeOK'
    <3>1. Oldest(f) \in f
      BY <2>5, <2>6
    <3>2. granted[Oldest(f)] + Per \in Nat
      BY <2>2, <3>1
    <3>3. wake' \in [Threads -> Nat] /\ calls' \in SUBSET DOMAIN granted
      BY <1>0, <2>1, <2>2, <3>2 DEF TypeOK
    <3> QED
      BY <1>0, <2>1, <3>3 DEF TypeOK, Steps
  <2>8. WindowInv'
    <3>1. \A u \in Threads : pc'[u] = "sleep" => u = t
      BY <1>0, <2>1 DEF WindowInv, TypeOK
    <3>2. \A i \in f : \A k \in 1..n : i <= k => k \in f
      BY <2>2
    <3> QED
      BY <1>0, <2>1, <2>2, <2>3, <3>1, <3>2 DEF WindowInv
  <2>9. WindowBound'
    BY <1>0, <2>1 DEF WindowBound
  <2>10. JustLongEnough'
    <3>1. \A u \in Threads : pc'[u] = "sleep" => u = t
      BY <1>0, <2>1 DEF WindowInv, TypeOK
    <3>2. wake'[t] = granted[n - MaxCalls + 1] + Per
      BY <1>0, <2>1, <2>6 DEF TypeOK
    <3> QED
      BY <2>1, <2>6, <3>1, <3>2 DEF JustLongEnough, n
  <2>11. SendInv'
    <3>1. Owing' = Owing
      BY <1>0, <2>1 DEF Owing, TypeOK
    <3> QED
      BY <1>0, <2>1, <3>1, OthersKeepSends DEF TypeOK
  <2> QED
    BY <2>7, <2>8, <2>9, <2>10, <2>11 DEF IInv
<1>4. ASSUME NEW t \in Threads, Wake(t) PROVE IInv'
  <2> DEFINE n == Len(granted)
             f == Fresh(clock)
             o == n - MaxCalls + 1
  <2>1. /\ pc[t] = "sleep" /\ clock >= wake[t]
        /\ Grant(t, f) /\ UNCHANGED <<clock, sent, asked>>
    BY <1>4 DEF Wake
  <2>2. /\ n >= MaxCalls /\ wake[t] = granted[o] + Per
        /\ \A u \in Threads \ {t} : pc[u] # "sleep"
        /\ Cardinality(calls) = MaxCalls
    BY <1>0, <2>1 DEF JustLongEnough, WindowInv
  <2>3. n \in Nat /\ clock \in Nat /\ o \in 1..n /\ granted[o] \in Nat
    BY <1>0, <2>2 DEF TypeOK
  \* The oldest call has left the window, so pruning makes room for one.
  <2>4. o \notin f
    BY <2>1, <2>2, <2>3 DEF Fresh
  <2>5. Cardinality(f) \in Nat /\ f = (n - Cardinality(f) + 1)..n
    BY <1>0, FreshIsNewest
  <2>6. Cardinality(f) < MaxCalls
    <3> HIDE DEF f
    <3> QED
      BY <2>3, <2>4, <2>5
  <2>7. TypeOK' /\ WindowInv' /\ WindowBound' /\ JustLongEnough'
    BY <1>0, <2>1, <2>2, <2>6, GrantKeepsWindow
  <2>8. SendInv'
    BY <1>0, <2>1, GrantKeepsSends
  <2> QED
    BY <2>7, <2>8 DEF IInv
<1>5. ASSUME NEW t \in Threads, Send(t) PROVE IInv'
  <2>1. TypeOK'
    BY <1>0, <1>5 DEF Send, TypeOK, Steps
  <2>2. WindowInv' /\ WindowBound' /\ JustLongEnough'
    BY <1>0, <1>5 DEF Send, TypeOK, WindowInv, WindowBound, JustLongEnough
  <2>3. SendInv'
    BY <1>0, <1>5, SendKeepsSends
  <2> QED
    BY <2>1, <2>2, <2>3 DEF IInv
<1>6. CASE Tick
  <2>1. TypeOK' /\ WindowBound' /\ JustLongEnough'
    BY <1>0, <1>6 DEF Tick, TypeOK, Steps, WindowBound, JustLongEnough
  <2>2. \A i \in DOMAIN granted : granted[i] \in Nat
    BY <1>0 DEF TypeOK
  <2>3. WindowInv'
    BY <1>0, <1>6, <2>2 DEF Tick, TypeOK, WindowInv
  <2>4. SendInv'
    <3>1. Owing' = Owing
      BY <1>6 DEF Tick, Owing
    <3> QED
      BY <1>0, <1>6, <3>1, OthersKeepSends DEF Tick, TypeOK
  <2> QED
    BY <2>1, <2>3, <2>4 DEF IInv
<1>7. CASE UNCHANGED vars
  <2>1. TypeOK'
    BY <1>0, <1>7 DEF vars, TypeOK
  <2>2. WindowInv' /\ WindowBound' /\ JustLongEnough'
    BY <1>0, <1>7 DEF vars, WindowInv, WindowBound, JustLongEnough
  <2>3. SendInv'
    <3>1. Owing' = Owing
      BY <1>7 DEF vars, Owing
    <3> QED
      BY <1>0, <1>7, <3>1, OthersKeepSends DEF vars, TypeOK
  <2> QED
    BY <2>1, <2>2, <2>3 DEF IInv
<1> QED
  BY <1>1, <1>2, <1>3, <1>4, <1>5, <1>6, <1>7 DEF Next, ThreadStep

\* The inductive invariant holds in every reachable state.
THEOREM Invariance == Spec => []IInv
  BY InitIInv, NextIInv, PTL DEF Spec

\* No window of Per ticks ever holds more than MaxCalls grants, for any limit,
\* window and number of threads.
THEOREM WindowIsBounded == Spec => []WindowBound
<1>1. IInv => WindowBound
  BY DEF IInv
<1> QED
  BY <1>1, Invariance, PTL

\* A thread that sleeps wakes at the first tick at which a grant keeps the window.
THEOREM SleepsJustLongEnough == Spec => []JustLongEnough
<1>1. IInv => JustLongEnough
  BY DEF IInv
<1> QED
  BY <1>1, Invariance, PTL

\* A message MaxCalls + |Threads| after another goes out a window later: its own
\* grant is MaxCalls after one that was given after the first message went out.
LEMMA MessagesApart ==
    ASSUME IInv, NEW i \in DOMAIN sent, NEW k \in DOMAIN sent,
           i + Cardinality(Threads) + MaxCalls <= k
    PROVE  sent[i] + Per <= sent[k]
<1> DEFINE n == Len(granted)
           T == Cardinality(Threads)
<1> USE LimitsAssumption
<1>1. TypeOK /\ WindowInv /\ WindowBound /\ SendInv
  BY DEF IInv
<1>2. /\ n \in Nat /\ Len(sent) \in Nat /\ T \in Nat
      /\ DOMAIN granted = 1..n /\ DOMAIN sent = 1..Len(sent)
      /\ \A j \in 1..n : granted[j] \in Nat
      /\ \A j \in 1..Len(sent) : sent[j] \in Nat
  <2>1. granted \in Seq(Nat) /\ sent \in Seq(Nat)
    BY <1>1 DEF TypeOK
  <2>2. T \in Nat
    BY OwingIsFinite
  <2>3. n \in Nat /\ DOMAIN granted = 1..n /\ \A j \in 1..n : granted[j] \in Nat
    BY <2>1
  <2>4. /\ Len(sent) \in Nat /\ DOMAIN sent = 1..Len(sent)
        /\ \A j \in 1..Len(sent) : sent[j] \in Nat
    BY <2>1
  <2> QED
    BY <2>2, <2>3, <2>4
<1>3. Len(sent) <= n
  BY <1>1, <1>2, OwingIsFinite DEF SendInv
<1>4. i + T \in 1..n /\ i + T + MaxCalls \in 1..n /\ k \in 1..n /\ i + T <= n
  BY <1>2, <1>3
<1>5. sent[i] <= granted[i + T] /\ granted[k] <= sent[k]
  BY <1>1, <1>4 DEF SendInv
<1>6. granted[i + T] + Per <= granted[i + T + MaxCalls]
  BY <1>1, <1>2, <1>4 DEF WindowBound
<1>7. granted[i + T + MaxCalls] <= granted[k]
  BY <1>1, <1>2, <1>4 DEF WindowInv
<1> DEFINE a == sent[i]
           b == sent[k]
           x == granted[i + T]
           y == granted[i + T + MaxCalls]
           z == granted[k]
<1>8. /\ a \in Nat /\ b \in Nat /\ x \in Nat /\ y \in Nat /\ z \in Nat
      /\ a <= x /\ x + Per <= y /\ y <= z /\ z <= b
  BY <1>2, <1>4, <1>5, <1>6, <1>7
<1> HIDE DEF a, b, x, y, z
<1>9. a + Per <= b
  BY <1>8
<1> QED
  BY <1>9 DEF a, b

\* For any number of threads, a window of Per ticks holds at most MaxCalls
\* messages and one more for each thread.
THEOREM MessagesAreBounded == Spec => []MessageBound
<1>1. IInv => MessageBound
  <2> SUFFICES ASSUME IInv, NEW i \in DOMAIN sent
               PROVE  LET burst == {k \in DOMAIN sent : k >= i /\ sent[k] < sent[i] + Per}
                      IN  Cardinality(burst) <= MaxCalls + Cardinality(Threads)
    BY DEF MessageBound
  <2> DEFINE burst == {k \in DOMAIN sent : k >= i /\ sent[k] < sent[i] + Per}
             c == MaxCalls + Cardinality(Threads)
             last == i + c - 1
  <2>0. sent \in Seq(Nat) /\ Cardinality(Threads) \in Nat
    BY OwingIsFinite DEF IInv, TypeOK
  <2>1. /\ DOMAIN sent = 1..Len(sent) /\ Len(sent) \in Nat /\ c \in Nat
        /\ i \in Int /\ last \in Int /\ c >= 1
        /\ \A j \in DOMAIN sent : sent[j] \in Nat
    BY <2>0, LimitsAssumption
  <2>2. burst \in SUBSET (i..last)
    <3>1. ASSUME NEW k \in burst PROVE k \in i..last
      <4>1. k \in DOMAIN sent /\ k >= i /\ sent[k] < sent[i] + Per
        OBVIOUS
      <4>2. ~ (i + Cardinality(Threads) + MaxCalls <= k)
        BY <2>1, <4>1, MessagesApart, LimitsAssumption
      <4> QED
        BY <2>1, <4>1, <4>2, OwingIsFinite, LimitsAssumption
    <3> QED
      BY <3>1
  <2> HIDE DEF burst, last, c
  <2>3. IsFiniteSet(i..last) /\ Cardinality(i..last) = IF i > last THEN 0 ELSE last - i + 1
    BY <2>1, FS_Interval
  <2>4. Cardinality(burst) <= Cardinality(i..last)
    BY <2>2, <2>3, FS_Subset
  <2>5. Cardinality(i..last) = c
    BY <2>1, <2>3 DEF last
  <2>6. Cardinality(burst) <= c
    BY <2>4, <2>5
  <2> QED
    BY <2>6 DEF burst, c
<1> QED
  BY <1>1, Invariance, PTL
=============================================================================
