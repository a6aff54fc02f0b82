---------------------------- MODULE FakeBrokerProofs ----------------------------
(***************************************************************************)
(* What FakeBroker promises its clients, for any finite set of symbols, any *)
(* prices and any orders: only waiting orders hang on open ones, the broker *)
(* is an OrderBook, and its books balance against the orders it filled.     *)
(*                                                                         *)
(* The books are sums over sets, which the library defines as folds that    *)
(* choose the order of the elements.  The first part shows by well-founded  *)
(* induction on the size of the set that the order does not matter; the     *)
(* later parts use only what that part says of a sum.  A lemma about a step *)
(* holds for BrokerCall, a call with any order, price or id, so that a      *)
(* client of the broker other than BrokerNext can use it.                   *)
(*                                                                         *)
(* The last part is about the guard that stands before the broker in the   *)
(* jobs and in the replay.  Sizing and check_order agree for every NAV,    *)
(* price and limit: a sized entry, scaled down or not, passes the caps it  *)
(* was sized against, and so does its protective stop.  Of a bracket's     *)
(* target nothing of the kind holds: its limit is above the entry the      *)
(* bracket was sized at.                                                   *)
(***************************************************************************)
EXTENDS FakeBroker, RiskChecks, FiniteSetTheorems, SequenceTheorems, WellFoundedInduction, TLAPS

-----------------------------------------------------------------------------
(* Sums over finite sets.                                                  *)

\* Complete induction over the natural numbers: the order is well founded.
LEMMA NatComplete ==
    ASSUME NEW A, \A n \in Nat : (\A m \in Nat : m < n => m \in A) => n \in A
    PROVE  \A n \in Nat : n \in A
<1> DEFINE R == OpToRel(<, Nat)
           T == Nat \ A
<1>1. IsWellFoundedOn(R, Nat)
  BY NatLessThanWellFounded
<1>2. \A x, y \in Nat : <<y, x>> \in R <=> y < x
  BY DEF OpToRel
<1> HIDE DEF R
<1> SUFFICES ASSUME T # {} PROVE FALSE
  OBVIOUS
<1>3. PICK x \in T : \A y \in T : ~ (<<y, x>> \in R)
  BY <1>1, WFMin
<1>4. \A y \in T : ~ (y < x)
  BY <1>2, <1>3
<1>5. x \in Nat /\ \A m \in Nat : m < x => m \in A
  BY <1>3, <1>4
<1> QED
  BY <1>3, <1>5

\* The element that the library's folds take first from a set.
Pick(s) == CHOOSE x \in s : TRUE

\* g tabulates, for the subsets of S, the sums of f taken in that order.
Sums(f, S, g) ==
    \A s \in SUBSET S : g[s] = IF s = {} THEN 0 ELSE f[Pick(s)] + g[s \ {Pick(s)}]

\* The first element of a set is one of its elements.
LEMMA PickIn == ASSUME NEW s, s # {} PROVE Pick(s) \in s
  BY DEF Pick

\* Taking an element out of a finite set makes it smaller.
LEMMA Smaller ==
    ASSUME NEW S, IsFiniteSet(S), NEW s \in SUBSET S, NEW x \in s
    PROVE  /\ Cardinality(s) \in Nat /\ Cardinality(s \ {x}) \in Nat
           /\ Cardinality(s \ {x}) < Cardinality(s)
           /\ s \ {x} \in SUBSET S
<1>1. IsFiniteSet(s)
  BY FS_Subset
<1>2. IsFiniteSet(s \ {x}) /\ Cardinality(s \ {x}) = Cardinality(s) - 1
  BY <1>1, FS_RemoveElement
<1> QED
  BY <1>1, <1>2, FS_CardinalityType

\* Induction over the subsets of a finite set, the picked element taken out.
LEMMA PickInduction ==
    ASSUME NEW S, IsFiniteSet(S), NEW A, {} \in A,
           \A s, r \in SUBSET S : s # {} /\ r = s \ {Pick(s)} /\ r \in A => s \in A
    PROVE  \A s \in SUBSET S : s \in A
<1> DEFINE B == {n \in Nat : \A s \in SUBSET S : Cardinality(s) = n => s \in A}
<1>1. ASSUME NEW n \in Nat, \A m \in Nat : m < n => m \in B PROVE n \in B
  <2> SUFFICES ASSUME NEW s \in SUBSET S, Cardinality(s) = n, s # {} PROVE s \in A
    OBVIOUS
  <2> DEFINE r == s \ {Pick(s)}
  <2>1. Cardinality(r) \in Nat /\ Cardinality(r) < n /\ r \in SUBSET S
    BY PickIn, Smaller
  <2>2. r \in A
    BY <1>1, <2>1
  <2> QED
    BY <2>1, <2>2
<1> HIDE DEF B
<1>2. \A n \in Nat : n \in B
  BY <1>1, NatComplete
<1>3. \A s \in SUBSET S : Cardinality(s) \in Nat
  BY FS_Subset, FS_CardinalityType
<1> QED
  BY <1>2, <1>3 DEF B

\* g tabulates, for the subsets of S, the folds of h from base.
Folds(h, base, S, g) ==
    \A s \in SUBSET S : g[s] = IF s = {} THEN base ELSE h[Pick(s)][g[s \ {Pick(s)}]]

\* Every finite set has such a table.
LEMMA FoldsExists ==
    ASSUME NEW S, IsFiniteSet(S), NEW V, NEW base \in V, NEW h \in [S -> [V -> V]]
    PROVE  \E g \in [SUBSET S -> V] : Folds(h, base, S, g)
<1> DEFINE UpTo(n, g) == \A s \in SUBSET S : Cardinality(s) < n =>
                             g[s] = IF s = {} THEN base ELSE h[Pick(s)][g[s \ {Pick(s)}]]
           A == {n \in Nat : \E g \in [SUBSET S -> V] : UpTo(n, g)}
<1>0. \A s \in SUBSET S : Cardinality(s) \in Nat
  BY FS_Subset, FS_CardinalityType
<1>1. ASSUME NEW n \in Nat, \A m \in Nat : m < n => m \in A PROVE n \in A
  <2>1. CASE n = 0
    <3> DEFINE g == [s \in SUBSET S |-> base]
    <3>1. g \in [SUBSET S -> V] /\ UpTo(n, g)
      BY <1>0, <2>1
    <3> QED
      BY <3>1
  <2>2. CASE n # 0
    <3> DEFINE m == n - 1
    <3>1. m \in Nat /\ m < n
      BY <2>2
    <3>2. m \in A
      BY <1>1, <3>1
    <3>3. PICK e \in [SUBSET S -> V] : UpTo(m, e)
      BY <3>2
    <3> DEFINE g == [s \in SUBSET S |-> IF s = {} THEN base ELSE h[Pick(s)][e[s \ {Pick(s)}]]]
    <3>4. g \in [SUBSET S -> V]
      <4>1. ASSUME NEW s \in SUBSET S, s # {} PROVE h[Pick(s)][e[s \ {Pick(s)}]] \in V
        <5>1. Pick(s) \in S /\ s \ {Pick(s)} \in SUBSET S
          BY <4>1, PickIn
        <5>2. e[s \ {Pick(s)}] \in V
          BY <5>1
        <5> QED
          BY <5>1, <5>2
      <4> QED
        BY <4>1
    <3>5. \A s \in SUBSET S : Cardinality(s) < m => g[s] = e[s]
      BY <3>3
    <3>6. ASSUME NEW s \in SUBSET S, Cardinality(s) < n, s # {}
          PROVE  g[s] = h[Pick(s)][g[s \ {Pick(s)}]]
      <4> DEFINE r == s \ {Pick(s)}
      <4>1. Pick(s) \in s
        BY <3>6, PickIn
      <4>2. Cardinality(r) \in Nat /\ Cardinality(r) < Cardinality(s) /\ r \in SUBSET S
        BY <4>1, Smaller
      <4>3. Cardinality(r) < m
        BY <1>0, <3>6, <4>2
      <4>4. g[r] = e[r]
        BY <3>5, <4>2, <4>3
      <4>5. g[s] = h[Pick(s)][e[r]]
        BY <3>6
      <4> QED
        BY <4>4, <4>5
    <3>7. g[{}] = base
      OBVIOUS
    <3> HIDE DEF g
    <3>8. UpTo(n, g)
      BY <3>6, <3>7
    <3> QED
      BY <3>4, <3>8
  <2> QED
    BY <2>1, <2>2
<1> HIDE DEF A
<1>2. \A n \in Nat : n \in A
  BY <1>1, NatComplete
<1>3. Cardinality(S) + 1 \in Nat
  BY <1>0
<1>4. PICK g \in [SUBSET S -> V] : UpTo(Cardinality(S) + 1, g)
  BY <1>2, <1>3 DEF A
<1>5. \A s \in SUBSET S : Cardinality(s) < Cardinality(S) + 1
  <2>1. \A s \in SUBSET S : Cardinality(s) <= Cardinality(S)
    BY FS_Subset
  <2> QED
    BY <1>0, <2>1
<1>6. Folds(h, base, S, g)
  BY <1>4, <1>5 DEF Folds
<1> QED
  BY <1>6

\* Summands that agree have the same table.
LEMMA SumsUnique ==
    ASSUME NEW S, IsFiniteSet(S), NEW f, NEW e, \A x \in S : f[x] = e[x],
           NEW g, NEW h, Sums(f, S, g), Sums(e, S, h)
    PROVE  \A s \in SUBSET S : g[s] = h[s]
<1> DEFINE A == {s \in SUBSET S : g[s] = h[s]}
<1>1. {} \in A
  BY DEF Sums
<1>2. ASSUME NEW s \in SUBSET S, NEW r \in SUBSET S, s # {}, r = s \ {Pick(s)}, r \in A
      PROVE  s \in A
  <2>1. Pick(s) \in S
    BY <1>2, PickIn
  <2>2. g[s] = f[Pick(s)] + g[r] /\ h[s] = e[Pick(s)] + h[r]
    BY <1>2 DEF Sums
  <2>3. g[r] = h[r]
    BY <1>2
  <2> QED
    BY <2>1, <2>2, <2>3
<1> HIDE DEF A
<1>3. \A s \in SUBSET S : s \in A
  BY <1>1, <1>2, PickInduction
<1> QED
  BY <1>3 DEF A

\* A finite set has a table of integer sums.
LEMMA SumsExists ==
    ASSUME NEW S, IsFiniteSet(S), NEW f, \A x \in S : f[x] \in Int
    PROVE  \E g \in [SUBSET S -> Int] : Sums(f, S, g)
<1> DEFINE h == [x \in S |-> [v \in Int |-> f[x] + v]]
<1>1. h \in [S -> [Int -> Int]] /\ 0 \in Int
  OBVIOUS
<1>2. PICK g \in [SUBSET S -> Int] : Folds(h, 0, S, g)
  <2> HIDE DEF h
  <2> QED
    BY <1>1, FoldsExists
<1>3. ASSUME NEW s \in SUBSET S PROVE g[s] = IF s = {} THEN 0 ELSE f[Pick(s)] + g[s \ {Pick(s)}]
  <2>1. CASE s = {}
    BY <1>2, <2>1 DEF Folds
  <2>2. CASE s # {}
    <3>1. Pick(s) \in S /\ g[s \ {Pick(s)}] \in Int
      BY <2>2, PickIn
    <3>2. g[s] = h[Pick(s)][g[s \ {Pick(s)}]]
      <4> HIDE DEF h
      <4> QED
        BY <1>2, <2>2 DEF Folds
    <3> QED
      BY <2>2, <3>1, <3>2
  <2> QED
    BY <2>1, <2>2
<1> QED
  BY <1>3 DEF Sums

\* The sum of the library is what the table says.
LEMMA SumIsSums ==
    ASSUME NEW S, IsFiniteSet(S), NEW f, \A x \in S : f[x] \in Int
    PROVE  \E g \in [SUBSET S -> Int] : Sums(f, S, g) /\ SumFunctionOnSet(f, S) = g[S]
<1> DEFINE Body(g) == [s \in SUBSET S |-> IF s = {} THEN 0 ELSE f[Pick(s)] + g[s \ {Pick(s)}]]
           it == CHOOSE g : g = Body(g)
<1>1. PICK h \in [SUBSET S -> Int] : Sums(f, S, h)
  BY SumsExists
<1>2. h = Body(h)
  BY <1>1 DEF Sums
<1>3. it = Body(it)
  <2> HIDE DEF Body
  <2> QED
    BY <1>2
<1>4. Sums(f, S, it)
  BY <1>3 DEF Sums
<1>5. SumFunctionOnSet(f, S) = it[S]
  BY Zenon DEF SumFunctionOnSet, FoldFunctionOnSet, MapThenFoldSet, Pick
<1> HIDE DEF it
<1>6. it[S] = h[S]
  BY <1>1, <1>4, SumsUnique
<1> QED
  BY <1>1, <1>5, <1>6

\* A table of integers, seen one entry at a time.
SumTable(f, S, g) ==
    /\ IsFiniteSet(S) /\ \A x \in S : f[x] \in Int
    /\ g \in [SUBSET S -> Int] /\ Sums(f, S, g)

\* The sum over a set is the same whichever element is taken first.
LEMMA SumsAnyOrder ==
    ASSUME NEW f, NEW S, NEW g, SumTable(f, S, g), NEW s \in SUBSET S, NEW x \in s
    PROVE  g[s] = f[x] + g[s \ {x}]
<1>0. /\ IsFiniteSet(S) /\ \A y \in S : f[y] \in Int
      /\ g \in [SUBSET S -> Int] /\ Sums(f, S, g)
  BY DEF SumTable
<1> DEFINE A == {n \in Nat : \A u \in SUBSET S : Cardinality(u) = n =>
                                \A y \in u : g[u] = f[y] + g[u \ {y}]}
<1>1. ASSUME NEW n \in Nat, \A m \in Nat : m < n => m \in A PROVE n \in A
  <2> SUFFICES ASSUME NEW u \in SUBSET S, Cardinality(u) = n, NEW y \in u
               PROVE  g[u] = f[y] + g[u \ {y}]
    OBVIOUS
  <2> DEFINE p == Pick(u)
  <2>1. p \in u
    BY PickIn
  <2>2. g[u] = f[p] + g[u \ {p}]
    BY <1>0 DEF Sums
  <2>3. CASE p = y
    BY <2>2, <2>3
  <2>4. CASE p # y
    <3> HIDE DEF p
    <3>1. Cardinality(u \ {p}) \in Nat /\ Cardinality(u \ {p}) < n /\ u \ {p} \in SUBSET S
      BY <1>0, <2>1, Smaller
    <3>2. Cardinality(u \ {y}) \in Nat /\ Cardinality(u \ {y}) < n /\ u \ {y} \in SUBSET S
      BY <1>0, Smaller
    <3>3. g[u \ {p}] = f[y] + g[(u \ {p}) \ {y}]
      <4>1. y \in u \ {p}
        BY <2>4
      <4>2. Cardinality(u \ {p}) \in A
        BY <1>1, <3>1
      <4> QED
        BY <4>1, <4>2, <3>1
    <3>4. g[u \ {y}] = f[p] + g[(u \ {y}) \ {p}]
      <4>1. p \in u \ {y}
        BY <2>1, <2>4
      <4>2. Cardinality(u \ {y}) \in A
        BY <1>1, <3>2
      <4> QED
        BY <4>1, <4>2, <3>2
    <3>5. (u \ {y}) \ {p} = (u \ {p}) \ {y} /\ (u \ {p}) \ {y} \in SUBSET S
      OBVIOUS
    <3>6. f[p] \in Int /\ f[y] \in Int /\ g[(u \ {p}) \ {y}] \in Int
      BY <1>0, <2>1, <3>5
    <3>7. g[u \ {y}] = f[p] + g[(u \ {p}) \ {y}]
      BY <3>4, <3>5, Zenon
    <3> QED
      BY <2>2, <3>3, <3>6, <3>7
  <2> QED
    BY <2>3, <2>4
<1> HIDE DEF A
<1>2. \A n \in Nat : n \in A
  BY <1>1, NatComplete
<1>3. Cardinality(s) \in Nat
  BY <1>0, FS_Subset, FS_CardinalityType
<1> QED
  BY <1>2, <1>3 DEF A

-----------------------------------------------------------------------------

\* The library's sum of integers over a finite set is an integer ...
LEMMA SumType ==
    ASSUME NEW S, IsFiniteSet(S), NEW f, \A x \in S : f[x] \in Int
    PROVE  SumFunctionOnSet(f, S) \in Int
<1>1. PICK g \in [SUBSET S -> Int] : Sums(f, S, g) /\ SumFunctionOnSet(f, S) = g[S]
  BY SumIsSums
<1> QED
  BY <1>1

\* ... zero over the empty set ...
LEMMA SumEmpty == ASSUME NEW f PROVE SumFunctionOnSet(f, {}) = 0
<1>1. PICK g \in [SUBSET {} -> Int] : Sums(f, {}, g) /\ SumFunctionOnSet(f, {}) = g[{}]
  BY SumIsSums, FS_EmptySet
<1> QED
  BY <1>1 DEF Sums

\* ... the same for summands that agree on the set ...
LEMMA SumEqual ==
    ASSUME NEW S, IsFiniteSet(S), NEW f, NEW e, \A x \in S : f[x] \in Int /\ e[x] = f[x]
    PROVE  SumFunctionOnSet(e, S) = SumFunctionOnSet(f, S)
<1>1. PICK g \in [SUBSET S -> Int] : Sums(f, S, g) /\ SumFunctionOnSet(f, S) = g[S]
  BY SumIsSums
<1>2. PICK h \in [SUBSET S -> Int] : Sums(e, S, h) /\ SumFunctionOnSet(e, S) = h[S]
  BY SumIsSums
<1>3. g[S] = h[S]
  BY <1>1, <1>2, SumsUnique
<1> QED
  BY <1>1, <1>2, <1>3

\* ... the value of any element more than the sum over the others ...
LEMMA SumWithout ==
    ASSUME NEW S, IsFiniteSet(S), NEW f, \A x \in S : f[x] \in Int, NEW x \in S
    PROVE  SumFunctionOnSet(f, S) = SumFunctionOnSet(f, S \ {x}) + f[x]
<1>1. PICK g \in [SUBSET S -> Int] : Sums(f, S, g) /\ SumFunctionOnSet(f, S) = g[S]
  BY SumIsSums
<1>2. IsFiniteSet(S \ {x})
  BY FS_Subset
<1>3. PICK h \in [SUBSET (S \ {x}) -> Int] : Sums(f, S \ {x}, h) /\ SumFunctionOnSet(f, S \ {x}) = h[S \ {x}]
  BY <1>2, SumIsSums
<1>4. Sums(f, S \ {x}, g)
  BY <1>1 DEF Sums
<1>5. g[S \ {x}] = h[S \ {x}]
  BY <1>2, <1>3, <1>4, SumsUnique
<1>6. g[S] = f[x] + g[S \ {x}]
  <2>1. SumTable(f, S, g)
    BY <1>1 DEF SumTable
  <2>2. S \in SUBSET S
    OBVIOUS
  <2> QED
    BY <2>1, <2>2, SumsAnyOrder
<1>7. g[S \ {x}] \in Int /\ f[x] \in Int
  OBVIOUS
<1> QED
  BY <1>1, <1>3, <1>5, <1>6, <1>7

\* ... and grows by its value when an element joins.
LEMMA SumWith ==
    ASSUME NEW S, IsFiniteSet(S), NEW x, x \notin S, NEW f, \A y \in S \cup {x} : f[y] \in Int
    PROVE  SumFunctionOnSet(f, S \cup {x}) = SumFunctionOnSet(f, S) + f[x]
<1>1. IsFiniteSet(S \cup {x})
  BY FS_AddElement
<1>2. (S \cup {x}) \ {x} = S
  OBVIOUS
<1> QED
  BY <1>1, <1>2, SumWithout

\* A sum of numbers that are not negative grows with its set.
LEMMA SumGrows ==
    ASSUME NEW S, IsFiniteSet(S), NEW f, \A x \in S : f[x] \in Nat, NEW T \in SUBSET S
    PROVE  SumFunctionOnSet(f, T) <= SumFunctionOnSet(f, S) /\ SumFunctionOnSet(f, T) \in Nat
<1>0. \A x \in S : f[x] \in Int
  OBVIOUS
<1>1. PICK g \in [SUBSET S -> Int] : Sums(f, S, g) /\ SumFunctionOnSet(f, S) = g[S]
  BY <1>0, SumIsSums
<1>2. \A s \in SUBSET S : IsFiniteSet(s) /\ Cardinality(s) \in Nat
  BY FS_Subset, FS_CardinalityType
<1>7. SumTable(f, S, g)
  BY <1>0, <1>1 DEF SumTable
<1>3. SumFunctionOnSet(f, T) = g[T]
  <2>0. \A x \in T : f[x] \in Int
    BY <1>0
  <2>1. PICK h \in [SUBSET T -> Int] : Sums(f, T, h) /\ SumFunctionOnSet(f, T) = h[T]
    BY <1>2, <2>0, SumIsSums
  <2>2. Sums(f, T, g)
    BY <1>1 DEF Sums
  <2> QED
    BY <1>2, <2>1, <2>2, SumsUnique
<1> DEFINE A == {n \in Nat : \A s \in SUBSET S : Cardinality(s) = n =>
                                /\ g[s] \in Nat
                                /\ \A t \in SUBSET s : g[t] <= g[s]}
<1>4. ASSUME NEW n \in Nat, \A m \in Nat : m < n => m \in A PROVE n \in A
  <2> SUFFICES ASSUME NEW s \in SUBSET S, Cardinality(s) = n
               PROVE  g[s] \in Nat /\ \A t \in SUBSET s : g[t] <= g[s]
    OBVIOUS
  <2>1. CASE s = {}
    <3>1. g[s] = 0
      BY <1>1, <2>1 DEF Sums
    <3>2. \A t \in SUBSET s : t = s
      BY <2>1
    <3> QED
      BY <3>1, <3>2
  <2>2. ASSUME NEW x \in s PROVE g[s \ {x}] \in Nat /\ g[s] \in Nat /\ \A t \in SUBSET (s \ {x}) : g[t] <= g[s]
    <3>1. Cardinality(s \ {x}) \in Nat /\ Cardinality(s \ {x}) < n /\ s \ {x} \in SUBSET S
      BY Smaller
    <3>2. g[s \ {x}] \in Nat /\ \A t \in SUBSET (s \ {x}) : g[t] <= g[s \ {x}]
      BY <1>4, <3>1
    <3>3. g[s] = f[x] + g[s \ {x}] /\ f[x] \in Nat
      BY <1>7, SumsAnyOrder
    <3>4. g[s \ {x}] <= g[s] /\ g[s] \in Nat
      BY <3>2, <3>3
    <3>5. ASSUME NEW t \in SUBSET (s \ {x}) PROVE g[t] <= g[s]
      <4>1. g[t] \in Int /\ g[t] <= g[s \ {x}]
        BY <3>2
      <4> QED
        BY <3>2, <3>4, <4>1
    <3> QED
      BY <3>2, <3>4, <3>5
  <2>3. CASE s # {}
    <3>1. g[s] \in Nat
      BY <2>2, <2>3
    <3>2. ASSUME NEW t \in SUBSET s PROVE g[t] <= g[s]
      <4>1. CASE t = s
        BY <3>1, <4>1
      <4>2. CASE t # s
        <5>1. PICK x \in s : x \notin t
          BY <4>2
        <5>2. t \in SUBSET (s \ {x})
          BY <5>1
        <5> QED
          BY <2>2, <5>2
      <4> QED
        BY <4>1, <4>2
    <3> QED
      BY <3>1, <3>2
  <2> QED
    BY <2>1, <2>3
<1> HIDE DEF A
<1>5. \A n \in Nat : n \in A
  BY <1>4, NatComplete
<1>6. Cardinality(S) \in A /\ Cardinality(T) \in A
  BY <1>2, <1>5
<1> QED
  BY <1>1, <1>3, <1>6 DEF A

-----------------------------------------------------------------------------
(* The fractions of Ratio.                                                 *)

\* A divisor that leaves no remainder can be multiplied back.
LEMMA Divides ==
    ASSUME NEW n \in Int, NEW k \in Nat \ {0}, n % k = 0
    PROVE  n \div k \in Int /\ n = k * (n \div k)
  OBVIOUS

\* A nonempty set of numbers up to n has a greatest element.
LEMMA Greatest ==
    ASSUME NEW n \in Nat, NEW T \in SUBSET (1..n), T # {}
    PROVE  \E x \in T : \A y \in T : y <= x
<1> DEFINE A == {m \in Nat : (\E x \in T : n - x = m) => \E x \in T : \A y \in T : y <= x}
<1>1. ASSUME NEW m \in Nat, \A k \in Nat : k < m => k \in A PROVE m \in A
  <2> SUFFICES ASSUME NEW x \in T, n - x = m PROVE \E z \in T : \A y \in T : y <= z
    OBVIOUS
  <2>1. CASE \A y \in T : y <= x
    BY <2>1
  <2>2. ASSUME NEW y \in T, ~ (y <= x) PROVE \E z \in T : \A u \in T : u <= z
    <3>1. n - y \in Nat /\ n - y < m
      BY <2>2
    <3>2. n - y \in A
      BY <1>1, <3>1
    <3> QED
      BY <3>2
  <2> QED
    BY <2>1, <2>2
<1> HIDE DEF A
<1>2. \A m \in Nat : m \in A
  BY <1>1, NatComplete
<1>3. PICK x \in T : TRUE
  OBVIOUS
<1>4. n - x \in A
  BY <1>2
<1> QED
  BY <1>4 DEF A

\* Frac of the model is a fraction of the value n / d, whatever their signs.
LEMMA FracReduces ==
    ASSUME NEW n \in Int, NEW d \in Int \ {0}
    PROVE  /\ Frac(n, d) \in Fraction
           /\ Frac(n, d)[1] * d = n * Frac(n, d)[2]
<1> DEFINE size == IF d < 0 THEN -d ELSE d
           common == {k \in 1..size : n % k = 0 /\ d % k = 0}
           g == CHOOSE k \in common : \A m \in common : m <= k
           sign == IF d < 0 THEN -1 ELSE 1
           a == n \div g
           b == d \div g
<1>1. 1 \in common
  OBVIOUS
<1>2. size \in Nat
  OBVIOUS
<1>3. g \in common
  <2> HIDE DEF size
  <2>1. common \in SUBSET (1..size) /\ common # {}
    BY <1>1
  <2> HIDE DEF common
  <2> QED
    BY <1>2, <2>1, Greatest
<1>4. Frac(n, d) = <<sign * a, sign * b>>
  BY DEF Frac
<1> HIDE DEF g
<1>5. a \in Int /\ b \in Int /\ n = g * a /\ d = g * b /\ g \in Nat \ {0}
  BY <1>3, Divides
<1> HIDE DEF a, b
<1>6. sign * b > 0
  BY <1>5
<1>7. (sign * a) * d = n * (sign * b)
  <2>1. a * (g * b) = (g * a) * b
    BY <1>5
  <2>2. a * d = n * b
    BY <1>5, <2>1
  <2> QED
    BY <1>5, <2>2
<1> QED
  BY <1>4, <1>5, <1>6, <1>7 DEF Fraction

\* The parts of a fraction are integers, and its denominator is positive.
LEMMA FractionParts ==
    ASSUME NEW a \in Fraction
    PROVE  a = <<a[1], a[2]>> /\ a[1] \in Int /\ a[2] \in Nat \ {0}
  BY DEF Fraction

\* The operations on fractions yield fractions: an integer ...
LEMMA WholeType == ASSUME NEW k \in Int PROVE Whole(k) \in Fraction
  BY DEF Whole, Fraction

\* ... a sum ...
LEMMA PlusType ==
    ASSUME NEW a \in Fraction, NEW b \in Fraction
    PROVE  Plus(a, b) \in Fraction
<1>1. a[1] \in Int /\ a[2] \in Nat \ {0} /\ b[1] \in Int /\ b[2] \in Nat \ {0}
  BY FractionParts
<1>2. a[1] * b[2] + b[1] * a[2] \in Int /\ a[2] * b[2] \in Int \ {0}
  BY <1>1
<1> QED
  BY <1>2, FracReduces DEF Plus

\* ... a product by an integer ...
LEMMA TimesType ==
    ASSUME NEW a \in Fraction, NEW k \in Int
    PROVE  Times(a, k) \in Fraction
<1>1. a[1] * k \in Int /\ a[2] \in Int \ {0}
  BY FractionParts
<1> QED
  BY <1>1, FracReduces DEF Times

\* ... and a quotient by one.
LEMMA OverType ==
    ASSUME NEW a \in Fraction, NEW k \in Int \ {0}
    PROVE  Over(a, k) \in Fraction
<1>1. a[1] \in Int /\ a[2] \in Nat \ {0}
  BY FractionParts
<1>2. a[2] * k \in Int \ {0}
  BY <1>1
<1> QED
  BY <1>1, <1>2, FracReduces DEF Over

-----------------------------------------------------------------------------
(* A fill: _apply_fill.                                                    *)

\* Appending to a sequence keeps its entries and adds the last.
LEMMA AppendTo ==
    ASSUME NEW S, NEW n \in Nat, NEW f \in [1..n -> S], NEW e \in S, NEW g, g = Append(f, e)
    PROVE  /\ g \in [1..(n + 1) -> S]
           /\ g[n + 1] = e
           /\ \A i \in 1..n : g[i] = f[i]
<1>1. f \in Seq(S) /\ Len(f) = n /\ DOMAIN f = 1..n
  OBVIOUS
<1>2. /\ Append(f, e) \in Seq(S) /\ Len(Append(f, e)) = n + 1
      /\ \A i \in 1..n : Append(f, e)[i] = f[i]
      /\ Append(f, e)[n + 1] = e
  BY <1>1, AppendProperties
<1>3. Append(f, e) \in [1..(n + 1) -> S]
  BY <1>2, LenProperties
<1> QED
  BY <1>2, <1>3

\* No order is for zero shares: _apply_fill always moves the position.
LEMMA SignedType == ASSUME NEW o \in OrderRequest PROVE Signed(o) \in Int \ {0}
  BY DEF OrderRequest, Signed

\* A fill yields a position, and moves its quantity by the shares traded.
LEMMA AfterFillMoves ==
    ASSUME NEW pos \in Position, NEW k \in Int \ {0}, NEW price \in Nat
    PROVE  AfterFill(pos, k, price) \in Position /\ AfterFill(pos, k, price).quantity = pos.quantity + k
<1> DEFINE new == pos.quantity + k
           average == Over(Plus(Times(pos.avg_cost, pos.quantity), Whole(price * k)), new)
<1>1. /\ pos.quantity \in Int /\ pos.avg_cost \in Fraction /\ pos.market_price \in Nat
      /\ pos.unrealized \in Fraction /\ new \in Int /\ price * k \in Int
  BY DEF Position
<1>2. Whole(0) \in Fraction /\ Whole(price) \in Fraction
  BY DEF Whole, Fraction
<1>3. Flat \in Position /\ Flat.quantity = 0
  BY <1>2 DEF Flat, Position
<1>4. CASE pos.quantity = 0
  BY <1>1, <1>2, <1>3, <1>4 DEF AfterFill, Flat, Position
<1>5. CASE pos.quantity # 0 /\ new = 0
  BY <1>3, <1>5 DEF AfterFill
<1>6. CASE pos.quantity # 0 /\ new # 0
  <2>1. average \in Fraction
    <3>1. Plus(Times(pos.avg_cost, pos.quantity), Whole(price * k)) \in Fraction
      BY <1>1, TimesType, WholeType, PlusType
    <3> QED
      BY <1>1, <1>6, <3>1, OverType
  <2> DEFINE cost == IF (pos.quantity > 0) = (k > 0) THEN average ELSE pos.avg_cost
  <2>2. cost \in Fraction
    BY <1>1, <2>1
  <2>3. AfterFill(pos, k, price)
          = [quantity |-> new, avg_cost |-> cost, market_price |-> price,
             unrealized |-> pos.unrealized]
    BY <1>6 DEF AfterFill
  <2>4. new = pos.quantity + k
    OBVIOUS
  <2> HIDE DEF cost, new
  <2> QED
    BY <1>1, <2>2, <2>3, <2>4 DEF Position
<1> QED
  BY <1>4, <1>5, <1>6

\* What a fill realizes is a fraction.
LEMMA RealizesType ==
    ASSUME NEW pos \in Position, NEW k \in Int \ {0}, NEW price \in Nat
    PROVE  Realizes(pos, k, price) \in Fraction
<1>1. pos.quantity \in Int /\ pos.avg_cost \in Fraction
  BY DEF Position
<1> DEFINE closed == IF Magnitude(k) < Magnitude(pos.quantity) THEN Magnitude(k) ELSE Magnitude(pos.quantity)
           side == IF pos.quantity > 0 THEN 1 ELSE -1
<1>2. closed * side \in Int /\ -1 \in Int
  BY <1>1 DEF Magnitude
<1>3. Plus(Whole(price), Times(pos.avg_cost, -1)) \in Fraction /\ Whole(0) \in Fraction
  <2>1. Whole(price) \in Fraction /\ Whole(0) \in Fraction
    BY WholeType
  <2>2. Times(pos.avg_cost, -1) \in Fraction
    BY <1>1, <1>2, TimesType
  <2> QED
    BY <2>1, <2>2, PlusType
<1>4. Times(Plus(Whole(price), Times(pos.avg_cost, -1)), closed * side) \in Fraction
  BY <1>2, <1>3, TimesType
<1> QED
  BY <1>3, <1>4 DEF Realizes

\* What a trade does to the books: the shares of its symbol, the cash.
LEMMA FillMoves ==
    ASSUME BrokerTypeOK, NEW o \in OrderRequest, NEW price \in Nat, ApplyFill(o, price)
    PROVE  /\ position' \in [Symbols -> Position]
           /\ \A s \in Symbols :
                position'[s].quantity = position[s].quantity + (IF s = o.symbol THEN Signed(o) ELSE 0)
           /\ cash' \in Int /\ cash' = cash - price * Signed(o)
           /\ realized' \in Fraction
           /\ crossed' \subseteq Symbols
<1>1. o.symbol \in Symbols /\ position[o.symbol] \in Position /\ Signed(o) \in Int \ {0}
  BY SignedType DEF BrokerTypeOK, OrderRequest
<1> DEFINE after == AfterFill(position[o.symbol], Signed(o), price)
<1>2. after \in Position /\ after.quantity = position[o.symbol].quantity + Signed(o)
  BY <1>1, AfterFillMoves
<1>3. position' = [position EXCEPT ![o.symbol] = after]
  BY DEF ApplyFill
<1> HIDE DEF after
<1>4. position' \in [Symbols -> Position]
  BY <1>1, <1>2, <1>3 DEF BrokerTypeOK
<1>5. \A s \in Symbols : position[s].quantity \in Int
  BY DEF BrokerTypeOK, Position
<1>6. ASSUME NEW s \in Symbols
      PROVE  position'[s].quantity = position[s].quantity + (IF s = o.symbol THEN Signed(o) ELSE 0)
  BY <1>1, <1>2, <1>3, <1>5 DEF BrokerTypeOK
<1>7. cash' = cash - price * Signed(o) /\ cash' \in Int
  BY <1>1 DEF ApplyFill, BrokerTypeOK
<1>8. realized' \in Fraction
  <2>1. Realizes(position[o.symbol], Signed(o), price) \in Fraction
    BY <1>1, RealizesType
  <2> QED
    BY <2>1, PlusType DEF ApplyFill, BrokerTypeOK
<1>9. crossed' \subseteq Symbols
  BY <1>1 DEF ApplyFill, BrokerTypeOK
<1> QED
  BY <1>4, <1>6, <1>7, <1>8, <1>9

-----------------------------------------------------------------------------
(* The calls of the broker keep its invariant.                             *)

\* The ids of the broker are the positions of its orders; NextId is fresh.
LEMMA IdsType ==
    ASSUME BrokerTypeOK
    PROVE  /\ Len(requests) \in Nat /\ Ids = 1..Len(requests)
           /\ requests \in [1..Len(requests) -> OrderRequest]
           /\ NextId \in Nat /\ NextId \notin Ids
<1>1. requests \in Seq(OrderRequest)
  BY DEF BrokerTypeOK
<1>2. Len(requests) \in Nat /\ Ids = 1..Len(requests) /\ requests \in [1..Len(requests) -> OrderRequest]
  BY <1>1, LenProperties DEF Ids
<1> QED
  BY <1>2 DEF NextId

\* The order a call adds, with its status and its fill price.
LEMMA PlacedAppends ==
    ASSUME BrokerTypeOK, NEW o \in OrderRequest, NEW st \in Statuses, NEW price \in Nat,
           requests' = Append(requests, o),
           status' = Append(status, st),
           fillPrice' = Append(fillPrice, price)
    PROVE  /\ requests' \in Seq(OrderRequest) /\ Ids' = Ids \cup {NextId}
           /\ requests'[NextId] = o /\ \A i \in Ids : requests'[i] = requests[i]
           /\ status' \in [Ids' -> Statuses]
           /\ status'[NextId] = st /\ \A i \in Ids : status'[i] = status[i]
           /\ fillPrice' \in [Ids' -> Nat]
           /\ fillPrice'[NextId] = price /\ \A i \in Ids : fillPrice'[i] = fillPrice[i]
<1>0. PICK n \in Nat : n = Len(requests)
  BY IdsType
<1>1. n \in Nat /\ Ids = 1..n /\ requests \in [1..n -> OrderRequest] /\ NextId = n + 1
  BY <1>0, IdsType DEF NextId
<1>2. status \in [1..n -> Statuses] /\ fillPrice \in [1..n -> Nat]
  BY <1>1 DEF BrokerTypeOK
<1>3. /\ requests' \in [1..(n + 1) -> OrderRequest]
      /\ requests'[n + 1] = o /\ \A i \in 1..n : requests'[i] = requests[i]
  <2>1. requests' \in [1..(n + 1) -> OrderRequest]
    BY <1>1, AppendTo
  <2>2. requests'[n + 1] = o /\ \A i \in 1..n : requests'[i] = requests[i]
    BY <1>1, AppendTo
  <2> QED
    BY <2>1, <2>2
<1>4. /\ status' \in [1..(n + 1) -> Statuses]
      /\ status'[n + 1] = st /\ \A i \in 1..n : status'[i] = status[i]
  <2>1. status' \in [1..(n + 1) -> Statuses]
    BY <1>1, <1>2, AppendTo
  <2>2. status'[n + 1] = st /\ \A i \in 1..n : status'[i] = status[i]
    BY <1>1, <1>2, AppendTo
  <2> QED
    BY <2>1, <2>2
<1>5. /\ fillPrice' \in [1..(n + 1) -> Nat]
      /\ fillPrice'[n + 1] = price /\ \A i \in 1..n : fillPrice'[i] = fillPrice[i]
  <2>1. fillPrice' \in [1..(n + 1) -> Nat]
    BY <1>1, <1>2, AppendTo
  <2>2. fillPrice'[n + 1] = price /\ \A i \in 1..n : fillPrice'[i] = fillPrice[i]
    BY <1>1, <1>2, AppendTo
  <2> QED
    BY <2>1, <2>2
<1>6. Ids' = 1..(n + 1) /\ 1..(n + 1) = Ids \cup {NextId}
  BY <1>1, <1>3 DEF Ids
<1>7. requests' \in Seq(OrderRequest)
  BY AppendProperties DEF BrokerTypeOK
<1> QED
  BY <1>1, <1>3, <1>4, <1>5, <1>6, <1>7

\* place_order of a child.
LEMMA ChildPlaced ==
    ASSUME BrokerIInv, NEW o \in OrderRequest, PlaceChild(o)
    PROVE  BrokerIInv'
<1>1. /\ requests' \in Seq(OrderRequest) /\ Ids' = Ids \cup {NextId}
      /\ status' \in [Ids' -> Statuses]
      /\ status'[NextId] = "submitted" /\ \A i \in Ids : status'[i] = status[i]
      /\ fillPrice' \in [Ids' -> Nat]
  <2>1. BrokerTypeOK /\ "submitted" \in Statuses /\ 0 \in Nat
    BY DEF BrokerIInv, Statuses
  <2>2. /\ requests' = Append(requests, o)
        /\ status' = Append(status, "submitted")
        /\ fillPrice' = Append(fillPrice, 0)
    BY DEF PlaceChild
  <2> QED
    BY <2>1, <2>2, PlacedAppends
<1>2. BrokerTypeOK'
  BY <1>1 DEF BrokerIInv, BrokerTypeOK, PlaceChild
<1>3. PendingIsOpen'
  BY <1>1 DEF BrokerIInv, PendingIsOpen, PlaceChild
<1> QED
  BY <1>2, <1>3 DEF BrokerIInv

\* place_order of any other order.
LEMMA OrderFilled ==
    ASSUME BrokerIInv, NEW o \in OrderRequest, PlaceAndFill(o)
    PROVE  BrokerIInv'
<1> DEFINE price == IF o.limit_price # 0 THEN o.limit_price ELSE prices[o.symbol]
<1>1. price \in Nat
  BY DEF BrokerIInv, BrokerTypeOK, OrderRequest
<1>2. /\ requests' \in Seq(OrderRequest) /\ Ids' = Ids \cup {NextId}
      /\ status' \in [Ids' -> Statuses]
      /\ status'[NextId] = "filled" /\ \A i \in Ids : status'[i] = status[i]
      /\ fillPrice' \in [Ids' -> Nat]
  <2>1. BrokerTypeOK /\ "filled" \in Statuses
    BY DEF BrokerIInv, Statuses
  <2>2. /\ requests' = Append(requests, o)
        /\ status' = Append(status, "filled")
        /\ fillPrice' = Append(fillPrice, price)
    BY DEF PlaceAndFill
  <2> QED
    BY <1>1, <2>1, <2>2, PlacedAppends
<1>3. /\ position' \in [Symbols -> Position] /\ cash' \in Int /\ realized' \in Fraction
      /\ crossed' \subseteq Symbols
  <2>1. BrokerTypeOK /\ ApplyFill(o, price)
    BY DEF BrokerIInv, PlaceAndFill
  <2> QED
    BY <1>1, <2>1, FillMoves
<1>4. BrokerTypeOK'
  BY <1>2, <1>3 DEF BrokerIInv, BrokerTypeOK, PlaceAndFill
<1>5. PendingIsOpen'
  <2>1. NextId \notin Ids
    BY IdsType DEF BrokerIInv
  <2> QED
    BY <1>2, <2>1 DEF BrokerIInv, PendingIsOpen, PlaceAndFill
<1> QED
  BY <1>4, <1>5 DEF BrokerIInv

\* set_price up to its loop.
LEMMA PriceSet ==
    ASSUME BrokerIInv, NEW s \in Symbols, NEW price \in Nat, SetPrice(s, price)
    PROVE  BrokerIInv' /\ \A u \in Symbols : position'[u].quantity = position[u].quantity
<1>1. position \in [Symbols -> Position] /\ pending \subseteq Ids
  BY DEF BrokerIInv, BrokerTypeOK
<1> DEFINE marked == [quantity |-> position[s].quantity, avg_cost |-> position[s].avg_cost,
                      market_price |-> price,
                      unrealized |-> Times(Plus(Whole(price), Times(position[s].avg_cost, -1)),
                                           position[s].quantity)]
<1>2. marked \in Position /\ marked.quantity = position[s].quantity
  <2>1. /\ position[s].quantity \in Int /\ position[s].avg_cost \in Fraction /\ -1 \in Int
        /\ Whole(price) \in Fraction
    BY <1>1, WholeType DEF Position
  <2>2. Plus(Whole(price), Times(position[s].avg_cost, -1)) \in Fraction
    BY <2>1, TimesType, PlusType
  <2>3. marked.unrealized \in Fraction
    BY <2>1, <2>2, TimesType
  <2> QED
    BY <2>1, <2>3 DEF Position
<1>3. position' = IF position[s].quantity = 0 THEN position ELSE [position EXCEPT ![s] = marked]
  BY <1>1 DEF SetPrice
<1> HIDE DEF marked
<1>4. position' \in [Symbols -> Position] /\ \A u \in Symbols : position'[u].quantity = position[u].quantity
  BY <1>1, <1>2, <1>3
<1>5. prices' \in [Symbols -> Nat] /\ sweep' \subseteq Ids
  BY <1>1 DEF BrokerIInv, BrokerTypeOK, SetPrice
<1>6. BrokerTypeOK'
  BY <1>4, <1>5 DEF BrokerIInv, BrokerTypeOK, SetPrice, Ids
<1>7. PendingIsOpen'
  BY DEF BrokerIInv, PendingIsOpen, SetPrice, Ids
<1> QED
  BY <1>4, <1>6, <1>7 DEF BrokerIInv

\* One turn of the loop of set_price.
LEMMA ChildFilled ==
    ASSUME BrokerIInv, FillChild
    PROVE  BrokerIInv'
<1> DEFINE i == Min(sweep)
           price == prices[requests[i].symbol]
<1>1. i \in Ids /\ i \in pending /\ sweep' = sweep \ {i}
  BY DEF BrokerIInv, BrokerTypeOK, FillChild
<1>2. requests[i] \in OrderRequest
  BY <1>1, IdsType DEF BrokerIInv
<1>3. price \in Nat
  BY <1>2 DEF BrokerIInv, BrokerTypeOK, OrderRequest
<1>4. ApplyFill(requests[i], price)
  BY DEF FillChild
<1>5. /\ position' \in [Symbols -> Position] /\ cash' \in Int /\ realized' \in Fraction
      /\ crossed' \subseteq Symbols
  BY <1>2, <1>3, <1>4, FillMoves DEF BrokerIInv
<1>6. /\ status' = [k \in Ids |-> IF k = i THEN "filled"
                                  ELSE IF k \in Siblings(i) THEN "cancelled" ELSE status[k]]
      /\ fillPrice' = [fillPrice EXCEPT ![i] = price]
      /\ pending' = pending \ (Siblings(i) \cup {i})
      /\ UNCHANGED <<requests, prices>>
  BY DEF FillChild
<1> HIDE DEF i, price
<1>7. status' \in [Ids -> Statuses] /\ fillPrice' \in [Ids -> Nat]
  BY <1>1, <1>3, <1>6 DEF BrokerIInv, BrokerTypeOK, Statuses
<1>8. BrokerTypeOK'
  BY <1>1, <1>5, <1>6, <1>7 DEF BrokerIInv, BrokerTypeOK, Ids
<1>9. PendingIsOpen'
  BY <1>1, <1>6 DEF BrokerIInv, PendingIsOpen, Siblings, Ids
<1> QED
  BY <1>8, <1>9 DEF BrokerIInv

\* Cancelling an order, or all of them, keeps the broker's invariant.
LEMMA Cancelled ==
    ASSUME BrokerIInv, SweepRaises \/ CancelAll \/ \E i \in Ids : CancelOrder(i)
    PROVE  BrokerIInv'
<1>1. CASE SweepRaises
  BY <1>1 DEF BrokerIInv, BrokerTypeOK, PendingIsOpen, SweepRaises, Ids
<1>2. CASE CancelAll
  <2>1. status' \in [Ids -> Statuses] /\ \A i \in Ids : status'[i] # "submitted"
    BY <1>2 DEF BrokerIInv, BrokerTypeOK, CancelAll, Statuses
  <2> QED
    BY <1>2, <2>1 DEF BrokerIInv, BrokerTypeOK, PendingIsOpen, CancelAll, Ids
<1>3. ASSUME NEW i \in Ids, CancelOrder(i) PROVE BrokerIInv'
  <2>1. /\ status' \in [Ids -> Statuses]
        /\ status'[i] # "submitted"
        /\ \A k \in Ids : k # i => status'[k] = status[k]
    BY <1>3 DEF BrokerIInv, BrokerTypeOK, CancelOrder, Statuses
  <2> QED
    BY <1>3, <2>1 DEF BrokerIInv, BrokerTypeOK, PendingIsOpen, CancelOrder, Ids
<1> QED
  BY <1>1, <1>2, <1>3

\* The clients of BrokerNext place well-formed orders.
LEMMA PlacesOrders ==
    ASSUME BrokerTypeOK, NEW o \in Requests, NEW p \in {NoParent} \cup Entries
    PROVE  [o EXCEPT !.parent_id = p] \in OrderRequest
<1>1. o \in OrderRequest
  BY BrokerAssumption
<1>2. p \in Nat
  BY IdsType DEF Entries, NoParent
<1> QED
  BY <1>1, <1>2 DEF OrderRequest

\* A call of the broker with any order, price or id.
BrokerCall ==
    \/ \E o \in OrderRequest : PlaceOrder(o)
    \/ \E s \in Symbols, q \in Nat : SetPrice(s, q)
    \/ FillChild
    \/ SweepRaises
    \/ \E i \in Ids : CancelOrder(i)
    \/ CancelAll

\* Every step of the clients of BrokerNext is a call of the broker.
LEMMA ClientCalls ==
    ASSUME BrokerIInv, [BrokerNext]_broker
    PROVE  [BrokerCall]_broker
<1>1. ASSUME NEW o \in Requests, NEW p \in {NoParent} \cup Entries,
             PlaceOrder([o EXCEPT !.parent_id = p])
      PROVE  BrokerCall
  BY <1>1, PlacesOrders DEF BrokerIInv, BrokerCall
<1>2. ASSUME NEW s \in Symbols, NEW q \in Quotes, SetPrice(s, q) PROVE BrokerCall
  BY <1>2, BrokerAssumption DEF BrokerCall
<1> QED
  BY <1>1, <1>2 DEF BrokerNext, BrokerCall

\* A call keeps the broker's invariant, whoever the client is.
LEMMA BrokerStep ==
    ASSUME BrokerIInv, [BrokerCall]_broker
    PROVE  BrokerIInv'
<1>1. ASSUME NEW o \in OrderRequest, PlaceOrder(o) PROVE BrokerIInv'
  BY <1>1, ChildPlaced, OrderFilled DEF PlaceOrder
<1>2. ASSUME NEW s \in Symbols, NEW q \in Nat, SetPrice(s, q) PROVE BrokerIInv'
  BY <1>2, PriceSet
<1>3. CASE FillChild
  BY <1>3, ChildFilled
<1>4. CASE SweepRaises \/ CancelAll \/ \E i \in Ids : CancelOrder(i)
  BY <1>4, Cancelled
<1>5. CASE UNCHANGED broker
  BY <1>5 DEF BrokerIInv, BrokerTypeOK, PendingIsOpen, broker, Ids
<1> QED
  BY <1>1, <1>2, <1>3, <1>4, <1>5 DEF BrokerCall

\* A new broker has its invariant.
LEMMA BrokerStarts == BrokerInit => BrokerIInv
<1> SUFFICES ASSUME BrokerInit PROVE BrokerIInv
  OBVIOUS
<1>1. requests = <<>> /\ Ids = {} /\ requests \in Seq(OrderRequest)
  BY DEF BrokerInit, Ids
<1>2. Flat \in Position /\ Whole(0) \in Fraction
  BY WholeType DEF Flat, Position
<1> QED
  BY <1>1, <1>2, BrokerAssumption DEF BrokerInit, BrokerIInv, BrokerTypeOK, PendingIsOpen

\* Every order the broker knows, every position and every price is well formed,
\* and whatever waits, waits for something: the inductive invariant.
THEOREM BrokerInvariance == BrokerSpec => []BrokerIInv
<1>1. BrokerIInv /\ [BrokerNext]_broker => BrokerIInv'
  BY ClientCalls, BrokerStep
<1> QED
  BY <1>1, BrokerStarts, PTL DEF BrokerSpec

\* PendingIsOpen, for any number of orders: set_price and cancel_order take out
\* of _pending_children exactly the orders they close.
THEOREM WaitingIsOpen == BrokerSpec => []PendingIsOpen
<1>1. BrokerIInv => PendingIsOpen
  BY DEF BrokerIInv
<1> QED
  BY <1>1, BrokerInvariance, PTL

\* The net asset value of the account is an integer.
LEMMA EquityType == ASSUME BrokerTypeOK PROVE Equity \in Int
<1> DEFINE f == [s \in Symbols |-> position[s].market_price * position[s].quantity]
<1>1. \A s \in Symbols : f[s] \in Int
  BY DEF BrokerTypeOK, Position
<1>2. DOMAIN f = Symbols
  OBVIOUS
<1> HIDE DEF f
<1>3. SumFunctionOnSet(f, Symbols) \in Int
  BY <1>1, BrokerAssumption, SumType
<1>4. SumFunction(f) = SumFunctionOnSet(f, Symbols)
  BY <1>2, Zenon DEF SumFunction, FoldFunction, SumFunctionOnSet
<1>5. cash \in Int
  BY DEF BrokerTypeOK
<1> QED
  BY <1>3, <1>4, <1>5 DEF Equity, f

-----------------------------------------------------------------------------
(* The broker implements the order book.                                   *)

\* The clients never place more than MaxOrders orders.
LEMMA BoundHolds ==
    ASSUME BrokerIInv, Len(requests) <= MaxOrders, [BrokerNext]_broker
    PROVE  Len(requests') <= MaxOrders
<1>1. ASSUME NEW o \in Requests, NEW p \in {NoParent} \cup Entries,
             NextId <= MaxOrders /\ PlaceOrder([o EXCEPT !.parent_id = p])
      PROVE  Len(requests') <= MaxOrders
  <2>1. [o EXCEPT !.parent_id = p] \in OrderRequest
    BY PlacesOrders DEF BrokerIInv
  <2>2. requests' = Append(requests, [o EXCEPT !.parent_id = p])
    BY <1>1 DEF PlaceOrder, PlaceChild, PlaceAndFill
  <2>3. Len(requests') = Len(requests) + 1
    BY <2>1, <2>2, AppendProperties DEF BrokerIInv, BrokerTypeOK
  <2> QED
    BY <1>1, <2>3 DEF NextId
<1>2. CASE UNCHANGED requests
  BY <1>2
<1> QED
  BY <1>1, <1>2 DEF BrokerNext, SetPrice, FillChild, SweepRaises, CancelOrder, CancelAll, broker

\* The parents of the orders, as IsOrderBook maps them.
Parents == [i \in Ids |-> requests[i].parent_id]

\* Placing an order submits it to the book.
LEMMA BookSubmits ==
    ASSUME BrokerIInv, Len(requests) <= MaxOrders, NextId <= MaxOrders,
           NEW o \in OrderRequest, o.parent_id \in 0..MaxOrders, PlaceOrder(o)
    PROVE  OB!Submit
<1> DEFINE g == o.parent_id
<1>1. PICK n \in Nat : n = Len(requests)
  BY IdsType DEF BrokerIInv
<1>2. Ids = 1..n /\ NextId = n + 1
  BY <1>1, IdsType DEF BrokerIInv, NextId
<1>3. requests' = Append(requests, o)
      /\ status' = Append(status, IF g = 0 THEN "filled" ELSE "submitted")
  BY DEF PlaceOrder, PlaceChild, PlaceAndFill, NoParent
<1>4. requests \in [1..n -> OrderRequest]
  BY <1>1, IdsType DEF BrokerIInv
<1>5. requests' \in [1..(n + 1) -> OrderRequest]
  BY <1>3, <1>4, AppendTo
<1>6. requests'[n + 1] = o /\ \A i \in 1..n : requests'[i] = requests[i]
  BY <1>3, <1>4, AppendTo
<1>7. Parents \in [1..n -> Nat] /\ Parents' \in [1..(n + 1) -> Nat]
  BY <1>2, <1>4, <1>5 DEF Parents, Ids, OrderRequest
<1>8. Append(Parents, g) \in [1..(n + 1) -> Nat]
  BY <1>7, AppendTo DEF OrderRequest
<1>9. Append(Parents, g)[n + 1] = g /\ \A i \in 1..n : Append(Parents, g)[i] = Parents[i]
  BY <1>7, AppendTo DEF OrderRequest
<1>10. \A i \in 1..(n + 1) : Parents'[i] = Append(Parents, g)[i]
  <2>1. Parents'[n + 1] = g
    BY <1>5, <1>6 DEF Parents, Ids
  <2>2. \A i \in 1..n : Parents'[i] = Parents[i]
    BY <1>2, <1>5, <1>6 DEF Parents, Ids
  <2>3. \A i \in 1..(n + 1) : i = n + 1 \/ i \in 1..n
    OBVIOUS
  <2> QED
    BY <1>9, <2>1, <2>2, <2>3
<1>11. Parents' = Append(Parents, g)
  BY <1>7, <1>8, <1>10
<1> QED
  BY <1>3, <1>11 DEF OB!Submit, Parents

\* Every step of the broker is a step of the book, or leaves it as it was.
LEMMA BookStep ==
    ASSUME BrokerIInv, Len(requests) <= MaxOrders, [BrokerNext]_broker
    PROVE  [OB!Next]_<<status, Parents>>
<1>1. DOMAIN status = Ids /\ OB!Working = pending /\ pending \subseteq Ids
  BY DEF OB!Working, BrokerIInv, PendingIsOpen, BrokerTypeOK
<1>2. ASSUME NEW o \in Requests, NEW p \in {NoParent} \cup Entries,
             NextId <= MaxOrders /\ PlaceOrder([o EXCEPT !.parent_id = p])
      PROVE  OB!Submit
  <2>1. [o EXCEPT !.parent_id = p] \in OrderRequest
    BY PlacesOrders DEF BrokerIInv
  <2>2. [o EXCEPT !.parent_id = p].parent_id = p /\ p \in 0..MaxOrders
    <3>1. o \in OrderRequest
      BY BrokerAssumption
    <3>2. p \in 0..MaxOrders
      BY IdsType, BrokerAssumption DEF Entries, NoParent, BrokerIInv
    <3> QED
      BY <3>1, <3>2 DEF OrderRequest
  <2> QED
    BY <1>2, <2>1, <2>2, BookSubmits
<1>3. CASE FillChild
  <2> DEFINE i == Min(sweep)
  <2>1. i \in pending /\ requests' = requests
    BY <1>3 DEF FillChild
  <2>2. status' = [k \in Ids |-> IF k = i THEN "filled"
                                 ELSE IF k \in Siblings(i) THEN "cancelled" ELSE status[k]]
    BY <1>3 DEF FillChild
  <2> HIDE DEF i
  <2>3. \A k \in Ids \ {i} : k \in Siblings(i) <=> k \in OB!Working /\ Parents[k] = Parents[i]
    BY <1>1, <2>1 DEF Siblings, Parents
  <2>4. status' = [k \in DOMAIN status |->
                     IF k = i THEN "filled"
                     ELSE IF k \in OB!Working /\ Parents[k] = Parents[i] THEN "cancelled"
                     ELSE status[k]]
    BY <1>1, <2>2, <2>3
  <2>5. UNCHANGED Parents
    BY <2>1 DEF Parents, Ids
  <2> QED
    BY <1>1, <2>1, <2>4, <2>5 DEF OB!Next, OB!Trade, Parents
<1>4. status \in [Ids -> Statuses]
  BY DEF BrokerIInv, BrokerTypeOK
<1>5. ASSUME NEW i \in Ids, CancelOrder(i) PROVE OB!Withdraw
  <2> DEFINE open == {i} \cap pending
  <2>1. requests' = requests /\ open \in SUBSET pending
    BY <1>5 DEF CancelOrder
  <2>2. status' = [k \in Ids |-> IF k \in open THEN "cancelled" ELSE status[k]]
    <3>1. i \in pending <=> status[i] \notin {"filled", "cancelled"}
      BY <1>4 DEF BrokerIInv, PendingIsOpen, Statuses
    <3>2. status' = [status EXCEPT ![i] = IF @ \in {"filled", "cancelled"} THEN @ ELSE "cancelled"]
      BY <1>5 DEF CancelOrder
    <3> QED
      BY <1>4, <3>1, <3>2
  <2>3. UNCHANGED Parents
    BY <2>1 DEF Parents, Ids
  <2> HIDE DEF open
  <2> QED
    BY <1>1, <2>1, <2>2, <2>3 DEF OB!Withdraw, Parents
<1>6. ASSUME CancelAll PROVE OB!Withdraw
  <2>1. requests' = requests
    BY <1>6 DEF CancelAll
  <2>2. status' = [k \in Ids |-> IF k \in pending THEN "cancelled" ELSE status[k]]
    <3>1. \A k \in Ids : k \in pending <=> status[k] \notin {"filled", "cancelled"}
      BY <1>4 DEF BrokerIInv, PendingIsOpen, Statuses
    <3>2. status' = [k \in Ids |-> IF status[k] \in {"filled", "cancelled"} THEN status[k] ELSE "cancelled"]
      BY <1>6 DEF CancelAll
    <3> QED
      BY <3>1, <3>2
  <2>3. UNCHANGED Parents
    BY <2>1 DEF Parents, Ids
  <2> QED
    BY <1>1, <2>1, <2>2, <2>3 DEF OB!Withdraw, Parents
<1>7. CASE UNCHANGED <<requests, status>>
  BY <1>7 DEF Parents, Ids
<1> QED
  BY <1>2, <1>3, <1>5, <1>6, <1>7 DEF BrokerNext, SetPrice, SweepRaises, broker, OB!Next

\* FakeBroker implements OrderBook: a child that trades takes its siblings with
\* it, and no call, nor a sequence of them, revives a filled or cancelled order.
THEOREM ImplementsOrderBook == BrokerSpec => IsOrderBook
<1>1. BrokerInit => OB!Init
  BY DEF BrokerInit, OB!Init, Ids
<1>2. BrokerInit => BrokerIInv /\ Len(requests) <= MaxOrders
  BY BrokerStarts, BrokerAssumption DEF BrokerInit
<1>3. BrokerIInv /\ Len(requests) <= MaxOrders /\ [BrokerNext]_broker
        => BrokerIInv' /\ (Len(requests) <= MaxOrders)' /\ [OB!Next]_<<status, Parents>>
  BY ClientCalls, BrokerStep, BoundHolds, BookStep
<1> QED
  BY <1>1, <1>2, <1>3, PTL DEF BrokerSpec, IsOrderBook, OB!Spec, Parents

-----------------------------------------------------------------------------
(* The books.                                                              *)

\* The sum grows by a new entry, when the other entries keep their values.
LEMMA SumAppends ==
    ASSUME NEW S, IsFiniteSet(S), NEW i, i \notin S, NEW f, NEW e,
           \A k \in S : f[k] \in Int /\ e[k] = f[k], e[i] \in Int
    PROVE  SumFunctionOnSet(e, S \cup {i}) = SumFunctionOnSet(f, S) + e[i]
<1>1. \A k \in S \cup {i} : e[k] \in Int
  OBVIOUS
<1>2. SumFunctionOnSet(e, S \cup {i}) = SumFunctionOnSet(e, S) + e[i]
  BY <1>1, SumWith
<1>3. SumFunctionOnSet(e, S) = SumFunctionOnSet(f, S)
  BY SumEqual
<1> QED
  BY <1>2, <1>3

\* The shares, and the money, that each order moves once it is filled.
Shares == [i \in Ids |-> Signed(requests[i])]
Payments == [i \in Ids |-> fillPrice[i] * Signed(requests[i])]

\* What the sums over the filled orders need of their entries.
LedgerOK ==
    /\ IsFiniteSet(Filled) /\ \A s : IsFiniteSet(FilledIn(s))
    /\ \A i \in Ids : Shares[i] = Signed(requests[i]) /\ Shares[i] \in Int
    /\ \A i \in Ids : Payments[i] = fillPrice[i] * Signed(requests[i]) /\ Payments[i] \in Int

\* Sums over the filled orders, of all symbols or of one, are sums of integers
\* over a finite set ...
LEMMA LedgerType == BrokerTypeOK => LedgerOK
<1> SUFFICES ASSUME BrokerTypeOK PROVE LedgerOK
  OBVIOUS
<1>1. IsFiniteSet(Ids)
  <2>1. Len(requests) \in Int /\ 1 \in Int /\ Ids = 1..Len(requests)
    BY IdsType
  <2> QED
    BY <2>1, FS_Interval
<1>2. IsFiniteSet(Filled) /\ \A s : IsFiniteSet(FilledIn(s))
  BY <1>1, FS_Subset DEF Filled, FilledIn
<1>3. ASSUME NEW i \in Ids PROVE Signed(requests[i]) \in Int /\ fillPrice[i] \in Int
  <2>1. requests[i] \in OrderRequest
    BY IdsType
  <2> QED
    BY <2>1, SignedType DEF BrokerTypeOK
<1> QED
  BY <1>2, <1>3 DEF LedgerOK, Shares, Payments

\* ... and so they are after a step.
LEMMA LedgerNext == BrokerTypeOK' => LedgerOK'
  BY LedgerType, PTL

\* A fill at a price that is recorded for its order keeps shares and cash
\* equal to what the filled orders moved.
LEMMA TradeBalances ==
    ASSUME BrokerTypeOK, BrokerTypeOK', SharesBalance, CashBalances,
           NEW i, NEW o \in OrderRequest, NEW price \in Nat,
           ApplyFill(o, price),
           Filled' = Filled \cup {i}, i \notin Filled,
           requests'[i] = o, fillPrice'[i] = price,
           \A k \in Filled : requests'[k] = requests[k] /\ fillPrice'[k] = fillPrice[k]
    PROVE  SharesBalance' /\ CashBalances'
<1>1. i \in Ids' /\ Filled \subseteq Ids /\ Filled \subseteq Ids'
  BY DEF Filled
<1>2. /\ IsFiniteSet(Filled) /\ \A s : IsFiniteSet(FilledIn(s))
      /\ \A k \in Ids : Shares[k] = Signed(requests[k]) /\ Shares[k] \in Int
      /\ \A k \in Ids : Payments[k] = fillPrice[k] * Signed(requests[k]) /\ Payments[k] \in Int
  BY LedgerType DEF LedgerOK
<1>3. /\ \A k \in Ids' : Shares'[k] = Signed(requests'[k]) /\ Shares'[k] \in Int
      /\ \A k \in Ids' : Payments'[k] = fillPrice'[k] * Signed(requests'[k]) /\ Payments'[k] \in Int
  BY LedgerNext DEF LedgerOK
<1>4. \A k \in Filled : Shares'[k] = Shares[k] /\ Payments'[k] = Payments[k]
  BY <1>1, <1>2, <1>3 DEF Filled
<1>5. Shares'[i] = Signed(o) /\ Payments'[i] = price * Signed(o)
  BY <1>1, <1>3
<1>6. /\ \A s \in Symbols :
           position'[s].quantity = position[s].quantity + (IF s = o.symbol THEN Signed(o) ELSE 0)
      /\ cash' = cash - price * Signed(o)
  BY FillMoves
<1>7. CashBalances'
  <2>1. SumFunctionOnSet(Payments', Filled') = SumFunctionOnSet(Payments, Filled) + price * Signed(o)
    <3>1. \A k \in Filled : Payments[k] \in Int /\ Payments'[k] = Payments[k]
      BY <1>1, <1>2, <1>4
    <3>2. Payments'[i] \in Int
      BY <1>1, <1>3
    <3>3. SumFunctionOnSet(Payments', Filled \cup {i}) = SumFunctionOnSet(Payments, Filled) + Payments'[i]
      BY <1>2, <3>1, <3>2, SumAppends
    <3> QED
      BY <1>5, <3>3
  <2>2. SumFunctionOnSet(Payments, Filled) \in Int
    BY <1>1, <1>2, SumType
  <2>3. cash = StartingNav - SumFunctionOnSet(Payments, Filled)
    BY DEF CashBalances, Payments
  <2>4. price * Signed(o) \in Int
    BY SignedType
  <2>5. cash' = StartingNav - SumFunctionOnSet(Payments', Filled')
    BY <1>6, <2>1, <2>2, <2>3, <2>4, BrokerAssumption
  <2> QED
    BY <2>5 DEF CashBalances, Payments
<1>8. ASSUME NEW s \in Symbols
      PROVE  position'[s].quantity = SumFunctionOnSet(Shares', FilledIn(s)')
  <2>1. position[s].quantity = SumFunctionOnSet(Shares, FilledIn(s))
    BY DEF SharesBalance, Shares
  <2>2. FilledIn(s) \subseteq Filled
    BY DEF FilledIn
  <2>3. CASE s = o.symbol
    <3>1. FilledIn(s)' = FilledIn(s) \cup {i} /\ i \notin FilledIn(s)
      BY <2>3 DEF FilledIn
    <3>2. SumFunctionOnSet(Shares', FilledIn(s)') = SumFunctionOnSet(Shares, FilledIn(s)) + Signed(o)
      <4>1. \A k \in FilledIn(s) : Shares[k] \in Int /\ Shares'[k] = Shares[k]
        BY <1>1, <1>2, <1>4, <2>2
      <4>2. Shares'[i] \in Int
        BY <1>1, <1>3
      <4>3. SumFunctionOnSet(Shares', FilledIn(s) \cup {i}) = SumFunctionOnSet(Shares, FilledIn(s)) + Shares'[i]
        BY <1>2, <3>1, <4>1, <4>2, SumAppends
      <4> QED
        BY <1>5, <3>1, <4>3
    <3> QED
      BY <1>6, <2>1, <2>3, <3>2
  <2>4. CASE s # o.symbol
    <3>1. FilledIn(s)' = FilledIn(s)
      BY <2>4 DEF FilledIn
    <3>2. SumFunctionOnSet(Shares', FilledIn(s)) = SumFunctionOnSet(Shares, FilledIn(s))
      BY <1>1, <1>2, <1>4, <2>2, SumEqual
    <3>3. position[s].quantity \in Int
      BY DEF BrokerTypeOK, Position
    <3> QED
      BY <1>6, <2>1, <2>4, <3>1, <3>2, <3>3
  <2> QED
    BY <2>3, <2>4
<1>9. SharesBalance'
  BY <1>8 DEF SharesBalance, Shares
<1> QED
  BY <1>7, <1>9

\* So does a step that fills nothing and moves neither shares nor cash.
LEMMA NoTradeBalances ==
    ASSUME BrokerTypeOK, BrokerTypeOK', SharesBalance, CashBalances,
           Filled' = Filled,
           \A k \in Filled : requests'[k] = requests[k] /\ fillPrice'[k] = fillPrice[k],
           \A s \in Symbols : position'[s].quantity = position[s].quantity,
           cash' = cash
    PROVE  SharesBalance' /\ CashBalances'
<1>1. Filled \subseteq Ids /\ Filled \subseteq Ids'
  BY DEF Filled
<1>2. /\ IsFiniteSet(Filled) /\ \A s : IsFiniteSet(FilledIn(s))
      /\ \A k \in Ids : Shares[k] = Signed(requests[k]) /\ Shares[k] \in Int
      /\ \A k \in Ids : Payments[k] = fillPrice[k] * Signed(requests[k]) /\ Payments[k] \in Int
  BY LedgerType DEF LedgerOK
<1>3. /\ \A k \in Ids' : Shares'[k] = Signed(requests'[k])
      /\ \A k \in Ids' : Payments'[k] = fillPrice'[k] * Signed(requests'[k])
  BY LedgerNext DEF LedgerOK
<1>4. \A k \in Filled : Shares'[k] = Shares[k] /\ Payments'[k] = Payments[k]
  BY <1>1, <1>2, <1>3
<1>5. SumFunctionOnSet(Payments', Filled) = SumFunctionOnSet(Payments, Filled)
  BY <1>1, <1>2, <1>4, SumEqual
<1>6. CashBalances'
  BY <1>5 DEF CashBalances, Payments
<1>7. ASSUME NEW s \in Symbols
      PROVE  position'[s].quantity = SumFunctionOnSet(Shares', FilledIn(s)')
  <2>1. FilledIn(s)' = FilledIn(s) /\ FilledIn(s) \subseteq Filled
    BY DEF FilledIn
  <2>2. SumFunctionOnSet(Shares', FilledIn(s)) = SumFunctionOnSet(Shares, FilledIn(s))
    BY <1>1, <1>2, <1>4, <2>1, SumEqual
  <2>3. position[s].quantity = SumFunctionOnSet(Shares, FilledIn(s))
    BY DEF SharesBalance, Shares
  <2> QED
    BY <2>1, <2>2, <2>3
<1>8. SharesBalance'
  BY <1>7 DEF SharesBalance, Shares
<1> QED
  BY <1>6, <1>8

-----------------------------------------------------------------------------
(* Fractions over a common denominator.                                    *)

\* a is the fraction v / D.
At(D, a, v) == v * a[2] = a[1] * D

\* A common factor other than zero cancels.
LEMMA CancelFactor ==
    ASSUME NEW x \in Int, NEW y \in Int, NEW k \in Int \ {0}, x * k = y * k
    PROVE  x = y
  OBVIOUS

\* A fraction has one numerator over a denominator.
LEMMA AtUnique ==
    ASSUME NEW a \in Fraction, NEW D \in Int, NEW v \in Int, NEW w \in Int, At(D, a, v), At(D, a, w)
    PROVE  v = w
<1>1. a[2] \in Int \ {0} /\ v * a[2] = w * a[2]
  BY FractionParts DEF At
<1> QED
  BY <1>1, CancelFactor

\* Equal fractions have the same numerator over a denominator.
LEMMA AtEquals ==
    ASSUME NEW a \in Fraction, NEW b \in Fraction, NEW D \in Nat \ {0}, NEW v \in Int, At(D, a, v)
    PROVE  Equals(a, b) <=> At(D, b, v)
<1>1. PICK n, d, m, e \in Int : n = a[1] /\ d = a[2] /\ m = b[1] /\ e = b[2] /\ d # 0 /\ e # 0
  BY FractionParts
<1>2. v * d = n * D
  BY <1>1 DEF At
<1>3. ASSUME n * e = m * d PROVE v * e = m * D
  <2>1. (v * e) * d = (v * d) * e /\ (m * D) * d = (m * d) * D /\ (n * D) * e = (n * e) * D
    OBVIOUS
  <2>2. (v * e) * d = (m * D) * d
    BY <1>2, <1>3, <2>1
  <2>3. PICK x, y \in Int : x = v * e /\ y = m * D
    OBVIOUS
  <2>4. x = y
    <3>1. x * d = y * d
      BY <2>2, <2>3
    <3> QED
      BY <1>1, <3>1, CancelFactor
  <2> QED
    BY <2>3, <2>4
<1>4. ASSUME v * e = m * D PROVE n * e = m * d
  <2>1. (n * e) * D = (n * D) * e /\ (m * d) * D = (m * D) * d /\ (v * d) * e = (v * e) * d
    OBVIOUS
  <2>2. (n * e) * D = (m * d) * D
    BY <1>2, <1>4, <2>1
  <2>3. n * e \in Int /\ m * d \in Int
    OBVIOUS
  <2> QED
    BY <2>2, <2>3, CancelFactor
<1> QED
  BY <1>1, <1>3, <1>4 DEF Equals, At

\* The numerators of the results of the operations: of an integer ...
LEMMA AtWhole == ASSUME NEW D \in Int, NEW n \in Int PROVE At(D, Whole(n), n * D)
  BY DEF At, Whole

\* ... of a quotient of integers ...
LEMMA AtFrac ==
    ASSUME NEW n \in Int, NEW d \in Int \ {0}, NEW D \in Int, NEW v \in Int
    PROVE  At(D, Frac(n, d), v) <=> v * d = n * D
<1>1. PICK p, q \in Int : p = Frac(n, d)[1] /\ q = Frac(n, d)[2] /\ q # 0 /\ p * d = n * q
  <2>1. Frac(n, d) \in Fraction /\ Frac(n, d)[1] * d = n * Frac(n, d)[2]
    BY FracReduces
  <2>2. Frac(n, d)[1] \in Int /\ Frac(n, d)[2] \in Int /\ Frac(n, d)[2] # 0
    BY <2>1, FractionParts
  <2> QED
    BY <2>1, <2>2
<1>2. ASSUME v * q = p * D PROVE v * d = n * D
  <2>1. (v * d) * q = (v * q) * d /\ (n * D) * q = (n * q) * D /\ (p * D) * d = (p * d) * D
    OBVIOUS
  <2>2. (v * d) * q = (n * D) * q
    BY <1>1, <1>2, <2>1
  <2> QED
    BY <1>1, <2>2, CancelFactor
<1>3. ASSUME v * d = n * D PROVE v * q = p * D
  <2>1. (v * q) * d = (v * d) * q /\ (p * D) * d = (p * d) * D /\ (n * D) * q = (n * q) * D
    OBVIOUS
  <2>2. (v * q) * d = (p * D) * d
    BY <1>1, <1>3, <2>1
  <2> QED
    BY <2>2, CancelFactor
<1> QED
  BY <1>1, <1>2, <1>3 DEF At

\* ... of a sum ...
LEMMA AtPlus ==
    ASSUME NEW a \in Fraction, NEW b \in Fraction, NEW D \in Int,
           NEW v \in Int, NEW w \in Int, At(D, a, v), At(D, b, w)
    PROVE  At(D, Plus(a, b), v + w)
<1>1. PICK n, m \in Int, d, e \in Nat \ {0} : n = a[1] /\ d = a[2] /\ m = b[1] /\ e = b[2]
  BY FractionParts
<1>2. v * d = n * D /\ w * e = m * D
  BY <1>1 DEF At
<1>3. (v + w) * (d * e) = (n * e + m * d) * D
  <2>1. (v + w) * (d * e) = (v * d) * e + (w * e) * d
    OBVIOUS
  <2>2. (n * e + m * d) * D = (n * D) * e + (m * D) * d
    OBVIOUS
  <2> QED
    BY <1>2, <2>1, <2>2
<1>4. PICK s, t, u \in Int : s = n * e + m * d /\ t = d * e /\ u = v + w
  OBVIOUS
<1>5. t # 0
  BY <1>1, <1>4
<1>6. Plus(a, b) = Frac(s, t)
  BY <1>1, <1>4 DEF Plus
<1>7. u * t = s * D
  BY <1>3, <1>4
<1>8. At(D, Frac(s, t), u)
  BY <1>5, <1>7, AtFrac
<1> QED
  BY <1>4, <1>6, <1>8

\* ... and of a product by an integer.
LEMMA AtTimes ==
    ASSUME NEW a \in Fraction, NEW k \in Int, NEW D \in Int, NEW v \in Int, At(D, a, v)
    PROVE  At(D, Times(a, k), v * k)
<1>1. PICK n, d \in Int : n = a[1] /\ d = a[2] /\ d # 0
  BY FractionParts
<1>2. (v * k) * d = (n * k) * D
  <2>1. v * d = n * D
    BY <1>1 DEF At
  <2>2. (v * k) * d = (v * d) * k /\ (n * k) * D = (n * D) * k
    OBVIOUS
  <2> QED
    BY <2>1, <2>2
<1>3. n * k \in Int /\ v * k \in Int
  OBVIOUS
<1> QED
  BY <1>1, <1>2, <1>3, AtFrac DEF Times

\* The converse for a quotient: what it is times the divisor.
LEMMA AtOver ==
    ASSUME NEW a \in Fraction, NEW k \in Int \ {0}, NEW D \in Int, NEW w \in Int, At(D, Over(a, k), w)
    PROVE  At(D, a, w * k)
<1>1. PICK n, d \in Int : n = a[1] /\ d = a[2] /\ d # 0
  BY FractionParts
<1>2. PICK t \in Int : t = d * k
  OBVIOUS
<1>3. t # 0 /\ Over(a, k) = Frac(n, t)
  BY <1>1, <1>2 DEF Over
<1>4. w * t = n * D
  <2>1. At(D, Frac(n, t), w)
    BY <1>3
  <2>2. t \in Int \ {0}
    BY <1>2, <1>3
  <2>3. At(D, Frac(n, t), w) <=> w * t = n * D
    BY <2>2, AtFrac
  <2> QED
    BY <2>1, <2>3
<1>5. (w * k) * d = w * (d * k)
  OBVIOUS
<1>6. (w * k) * d = n * D
  BY <1>2, <1>4, <1>5
<1> QED
  BY <1>1, <1>6 DEF At

\* A fraction has a numerator over every multiple of its own denominator.
LEMMA AtOwn ==
    ASSUME NEW a \in Fraction, NEW m \in Int
    PROVE  At(a[2] * m, a, a[1] * m) /\ a[1] * m \in Int
<1>1. PICK n, d \in Int : n = a[1] /\ d = a[2]
  BY FractionParts
<1>2. (n * m) * d = n * (d * m)
  OBVIOUS
<1> QED
  BY <1>1, <1>2 DEF At

\* Five fractions have a common denominator.
LEMMA CommonTerms ==
    ASSUME NEW a \in Fraction, NEW b \in Fraction, NEW c \in Fraction, NEW d \in Fraction, NEW e \in Fraction
    PROVE  \E D \in Nat \ {0}, va, vb, vc, vd, ve \in Int :
              At(D, a, va) /\ At(D, b, vb) /\ At(D, c, vc) /\ At(D, d, vd) /\ At(D, e, ve)
<1>1. PICK p, q, r, s, t \in Nat \ {0} : p = a[2] /\ q = b[2] /\ r = c[2] /\ s = d[2] /\ t = e[2]
  BY FractionParts
<1> DEFINE D == p * (q * (r * (s * t)))
<1>2. D \in Nat \ {0}
  <2>1. s * t \in Nat \ {0}
    OBVIOUS
  <2>2. r * (s * t) \in Nat \ {0}
    BY <2>1
  <2>3. q * (r * (s * t)) \in Nat \ {0}
    BY <2>2
  <2> QED
    BY <2>3
<1>3. /\ D = q * (p * (r * (s * t))) /\ D = r * (p * (q * (s * t)))
      /\ D = s * (p * (q * (r * t))) /\ D = t * (p * (q * (r * s)))
  OBVIOUS
<1>4. /\ q * (r * (s * t)) \in Int /\ p * (r * (s * t)) \in Int /\ p * (q * (s * t)) \in Int
      /\ p * (q * (r * t)) \in Int /\ p * (q * (r * s)) \in Int
  OBVIOUS
<1>5. \E v \in Int : At(D, a, v)
  BY <1>1, <1>4, AtOwn
<1>6. \E v \in Int : At(D, b, v)
  <2>1. PICK m \in Int : m = p * (r * (s * t))
    BY <1>4
  <2>2. D = q * m /\ b[2] = q
    BY <1>1, <1>3, <2>1
  <2> HIDE DEF D
  <2> QED
    BY <2>2, AtOwn
<1>7. \E v \in Int : At(D, c, v)
  <2>1. PICK m \in Int : m = p * (q * (s * t))
    BY <1>4
  <2>2. D = r * m /\ c[2] = r
    BY <1>1, <1>3, <2>1
  <2> HIDE DEF D
  <2> QED
    BY <2>2, AtOwn
<1>8. \E v \in Int : At(D, d, v)
  <2>1. PICK m \in Int : m = p * (q * (r * t))
    BY <1>4
  <2>2. D = s * m /\ d[2] = s
    BY <1>1, <1>3, <2>1
  <2> HIDE DEF D
  <2> QED
    BY <2>2, AtOwn
<1>9. \E v \in Int : At(D, e, v)
  <2>1. PICK m \in Int : m = p * (q * (r * s))
    BY <1>4
  <2>2. D = t * m /\ e[2] = t
    BY <1>1, <1>3, <2>1
  <2> HIDE DEF D
  <2> QED
    BY <2>2, AtOwn
<1> HIDE DEF D
<1> QED
  BY <1>2, <1>5, <1>6, <1>7, <1>8, <1>9

-----------------------------------------------------------------------------
(* Sums of fractions.                                                      *)

\* g tabulates, for the subsets of S, the totals of the fractions f.
Totals(f, S, g) ==
    \A s \in SUBSET S : g[s] = IF s = {} THEN Whole(0) ELSE Plus(f[Pick(s)], g[s \ {Pick(s)}])

\* The totals of a finite set are determined by its fractions ...
LEMMA TotalsUnique ==
    ASSUME NEW S, IsFiniteSet(S), NEW f, NEW e, \A x \in S : f[x] = e[x],
           NEW g, NEW h, Totals(f, S, g), Totals(e, S, h)
    PROVE  \A s \in SUBSET S : g[s] = h[s]
<1> DEFINE A == {s \in SUBSET S : g[s] = h[s]}
<1>1. {} \in A
  BY DEF Totals
<1>2. ASSUME NEW s \in SUBSET S, NEW r \in SUBSET S, s # {}, r = s \ {Pick(s)}, r \in A
      PROVE  s \in A
  <2>1. Pick(s) \in S
    BY <1>2, PickIn
  <2>2. g[s] = Plus(f[Pick(s)], g[r]) /\ h[s] = Plus(e[Pick(s)], h[r])
    BY <1>2 DEF Totals
  <2>3. g[r] = h[r]
    BY <1>2
  <2> QED
    BY <2>1, <2>2, <2>3
<1> HIDE DEF A
<1>3. \A s \in SUBSET S : s \in A
  BY <1>1, <1>2, PickInduction
<1> QED
  BY <1>3 DEF A

\* ... they exist ...
LEMMA TotalsExists ==
    ASSUME NEW S, IsFiniteSet(S), NEW f \in [S -> Fraction]
    PROVE  \E g \in [SUBSET S -> Fraction] : Totals(f, S, g)
<1> DEFINE h == [x \in S |-> [v \in Fraction |-> Plus(f[x], v)]]
<1>1. h \in [S -> [Fraction -> Fraction]] /\ Whole(0) \in Fraction
  BY PlusType, WholeType
<1>2. PICK g \in [SUBSET S -> Fraction] : Folds(h, Whole(0), S, g)
  <2> HIDE DEF h
  <2> QED
    BY <1>1, FoldsExists
<1>3. ASSUME NEW s \in SUBSET S
      PROVE  g[s] = IF s = {} THEN Whole(0) ELSE Plus(f[Pick(s)], g[s \ {Pick(s)}])
  <2>1. CASE s = {}
    BY <1>2, <2>1 DEF Folds
  <2>2. CASE s # {}
    <3>1. Pick(s) \in S /\ g[s \ {Pick(s)}] \in Fraction
      BY <2>2, PickIn
    <3>2. g[s] = h[Pick(s)][g[s \ {Pick(s)}]]
      <4> HIDE DEF h
      <4> QED
        BY <1>2, <2>2 DEF Folds
    <3> QED
      BY <2>2, <3>1, <3>2
  <2> QED
    BY <2>1, <2>2
<1> QED
  BY <1>3 DEF Totals

\* ... and FoldFunction of the library computes them.
LEMMA FoldIsTotals ==
    ASSUME NEW S, IsFiniteSet(S), NEW f \in [S -> Fraction]
    PROVE  \E g \in [SUBSET S -> Fraction] :
              Totals(f, S, g) /\ FoldFunction(Plus, Whole(0), f) = g[S]
<1> DEFINE Body(g) == [s \in SUBSET S |-> IF s = {} THEN Whole(0) ELSE Plus(f[Pick(s)], g[s \ {Pick(s)}])]
           it == CHOOSE g : g = Body(g)
<1>1. PICK h \in [SUBSET S -> Fraction] : Totals(f, S, h)
  BY TotalsExists
<1>2. h = Body(h)
  BY <1>1 DEF Totals
<1>3. it = Body(it)
  <2> HIDE DEF Body
  <2> QED
    BY <1>2
<1>4. Totals(f, S, it)
  BY <1>3 DEF Totals
<1>5. FoldFunctionOnSet(Plus, Whole(0), f, S) = it[S]
  BY Zenon DEF FoldFunctionOnSet, MapThenFoldSet, Pick
<1>6. FoldFunction(Plus, Whole(0), f) = FoldFunctionOnSet(Plus, Whole(0), f, S)
  <2>1. DOMAIN f = S
    OBVIOUS
  <2> QED
    BY <2>1, Zenon DEF FoldFunction
<1> HIDE DEF it
<1>7. it[S] = h[S]
  BY <1>1, <1>4, TotalsUnique
<1> QED
  BY <1>1, <1>5, <1>6, <1>7

\* Fractions are equal when their numerators over a common denominator are.
LEMMA EqualValues ==
    ASSUME NEW a \in Fraction, NEW b \in Fraction, NEW D \in Nat \ {0},
           NEW v \in Int, NEW w \in Int, At(D, a, v), At(D, b, w)
    PROVE  Equals(a, b) <=> v = w
<1>1. Equals(a, b) <=> At(D, b, v)
  BY AtEquals
<1>2. ASSUME At(D, b, v) PROVE v = w
  BY <1>2, AtUnique
<1> QED
  BY <1>1, <1>2

\* The addition of fractions does not care about the order ...
LEMMA PlusSwaps ==
    ASSUME NEW a \in Fraction, NEW b \in Fraction, NEW c \in Fraction
    PROVE  Equals(Plus(Plus(a, c), b), Plus(Plus(b, c), a))
<1>1. PICK D \in Nat \ {0}, u, v, w, x, y \in Int :
         At(D, a, u) /\ At(D, b, v) /\ At(D, c, w) /\ At(D, c, x) /\ At(D, c, y)
  BY CommonTerms
<1>2. Plus(a, c) \in Fraction /\ Plus(b, c) \in Fraction /\ D \in Int
  BY PlusType
<1>3. At(D, Plus(a, c), u + w) /\ At(D, Plus(b, c), v + w) /\ u + w \in Int /\ v + w \in Int
  BY <1>1, <1>2, AtPlus
<1>4. Plus(Plus(a, c), b) \in Fraction /\ Plus(Plus(b, c), a) \in Fraction
  BY <1>2, PlusType
<1>5. At(D, Plus(Plus(a, c), b), (u + w) + v) /\ At(D, Plus(Plus(b, c), a), (v + w) + u)
  BY <1>1, <1>2, <1>3, AtPlus
<1>6. (u + w) + v = (v + w) + u /\ (u + w) + v \in Int /\ (v + w) + u \in Int
  OBVIOUS
<1> QED
  BY <1>4, <1>5, <1>6, EqualValues

\* ... and carries an equality of sums along.
LEMMA PlusCarries ==
    ASSUME NEW a \in Fraction, NEW b \in Fraction, NEW c \in Fraction, NEW d \in Fraction,
           NEW e \in Fraction, Equals(Plus(a, b), Plus(d, e))
    PROVE  Equals(Plus(Plus(c, a), b), Plus(Plus(c, d), e))
<1>1. PICK D \in Nat \ {0}, u, v, w, x, y \in Int :
         At(D, a, u) /\ At(D, b, v) /\ At(D, c, w) /\ At(D, d, x) /\ At(D, e, y)
  BY CommonTerms, ZenonT(40)
<1>2. /\ Plus(a, b) \in Fraction /\ Plus(d, e) \in Fraction
      /\ Plus(c, a) \in Fraction /\ Plus(c, d) \in Fraction /\ D \in Int
  BY PlusType
<1>3. /\ At(D, Plus(a, b), u + v) /\ At(D, Plus(d, e), x + y)
      /\ At(D, Plus(c, a), w + u) /\ At(D, Plus(c, d), w + x)
  BY <1>1, <1>2, AtPlus
<1>4. u + v \in Int /\ x + y \in Int /\ w + u \in Int /\ w + x \in Int
  OBVIOUS
<1>5. u + v = x + y
  BY <1>2, <1>3, <1>4, EqualValues
<1>6. Plus(Plus(c, a), b) \in Fraction /\ Plus(Plus(c, d), e) \in Fraction
  BY <1>2, PlusType
<1>7. At(D, Plus(Plus(c, a), b), (w + u) + v) /\ At(D, Plus(Plus(c, d), e), (w + x) + y)
  BY <1>1, <1>2, <1>3, <1>4, AtPlus
<1>8. (w + u) + v = (w + x) + y /\ (w + u) + v \in Int /\ (w + x) + y \in Int
  BY <1>5
<1> QED
  BY <1>6, <1>7, <1>8, EqualValues

\* A total moves by what one of its summands moves by.
LEMMA TotalMoves ==
    ASSUME NEW S, IsFiniteSet(S), NEW f \in [S -> Fraction], NEW e \in [S -> Fraction],
           NEW x \in S, \A y \in S : y # x => e[y] = f[y]
    PROVE  /\ FoldFunction(Plus, Whole(0), f) \in Fraction
           /\ FoldFunction(Plus, Whole(0), e) \in Fraction
           /\ Equals(Plus(FoldFunction(Plus, Whole(0), e), f[x]),
                     Plus(FoldFunction(Plus, Whole(0), f), e[x]))
<1>1. PICK g \in [SUBSET S -> Fraction] : Totals(f, S, g) /\ FoldFunction(Plus, Whole(0), f) = g[S]
  BY FoldIsTotals
<1>2. PICK h \in [SUBSET S -> Fraction] : Totals(e, S, h) /\ FoldFunction(Plus, Whole(0), e) = h[S]
  BY FoldIsTotals
<1> DEFINE A == {s \in SUBSET S : IF x \in s THEN Equals(Plus(h[s], f[x]), Plus(g[s], e[x]))
                                  ELSE h[s] = g[s]}
<1>3. {} \in A
  BY <1>1, <1>2 DEF Totals
<1>4. ASSUME NEW s \in SUBSET S, NEW r \in SUBSET S, s # {}, r = s \ {Pick(s)}, r \in A
      PROVE  s \in A
  <2> DEFINE p == Pick(s)
  <2>1. p \in s /\ p \in S
    BY <1>4, PickIn
  <2>2. g[s] = Plus(f[p], g[r]) /\ h[s] = Plus(e[p], h[r])
    BY <1>1, <1>2, <1>4 DEF Totals
  <2>3. /\ f[x] \in Fraction /\ e[x] \in Fraction /\ f[p] \in Fraction
        /\ g[r] \in Fraction /\ h[r] \in Fraction
    BY <2>1
  <2>4. r = s \ {p}
    BY <1>4
  <2> HIDE DEF p
  <2>5. CASE x \notin s
    <3>1. h[r] = g[r] /\ e[p] = f[p]
      BY <1>4, <2>1, <2>4, <2>5
    <3> QED
      BY <2>2, <2>5, <3>1
  <2>6. CASE x \in s /\ p = x
    <3>1. h[r] = g[r]
      BY <1>4, <2>4, <2>6
    <3>2. Equals(Plus(Plus(e[x], g[r]), f[x]), Plus(Plus(f[x], g[r]), e[x]))
      BY <2>3, PlusSwaps
    <3> QED
      BY <2>2, <2>6, <3>1, <3>2
  <2>7. CASE x \in s /\ p # x
    <3>1. Equals(Plus(h[r], f[x]), Plus(g[r], e[x]))
      BY <1>4, <2>4, <2>7
    <3>2. e[p] = f[p]
      BY <2>1, <2>7
    <3>3. Equals(Plus(Plus(f[p], h[r]), f[x]), Plus(Plus(f[p], g[r]), e[x]))
      BY <2>3, <3>1, PlusCarries
    <3> QED
      BY <2>2, <2>7, <3>2, <3>3
  <2> QED
    BY <2>5, <2>6, <2>7
<1> HIDE DEF A
<1>5. \A s \in SUBSET S : s \in A
  BY <1>3, <1>4, PickInduction
<1>6. S \in A
  BY <1>5
<1>7. g[S] \in Fraction /\ h[S] \in Fraction
  OBVIOUS
<1> QED
  BY <1>1, <1>2, <1>6, <1>7 DEF A

-----------------------------------------------------------------------------
(* What a position cost.                                                   *)

\* What the shares of a position cost: what it contributes to Costs.
Cost(pos) == Times(pos.avg_cost, pos.quantity)

\* A trade that does not carry its position through zero changes what the
\* position cost by what it paid and what it realized.
LEMMA CostMoves ==
    ASSUME NEW pos \in Position, NEW k \in Int \ {0}, NEW price \in Nat,
           ~ (pos.quantity * (pos.quantity + k) < 0),
           NEW D \in Nat \ {0}, NEW v \in Int, NEW w \in Int,
           At(D, pos.avg_cost, v), At(D, AfterFill(pos, k, price).avg_cost, w)
    PROVE  \E z \in Int : /\ At(D, Realizes(pos, k, price), z)
                          /\ w * (pos.quantity + k) = v * pos.quantity + (price * k) * D + z
<1>1. PICK q \in Int : q = pos.quantity /\ pos.avg_cost \in Fraction
  BY DEF Position
<1> DEFINE after == AfterFill(pos, k, price)
<1>2. D \in Int /\ after \in Position /\ after.avg_cost \in Fraction
  BY AfterFillMoves DEF Position
<1>3. PICK paid \in Int : paid = price * k
  OBVIOUS
<1>4. At(D, Whole(0), 0)
  BY AtWhole DEF At, Whole
<1>5. CASE q = 0
  <2>1. after.avg_cost = Whole(price) /\ Realizes(pos, k, price) = Whole(0)
    BY <1>1, <1>5 DEF AfterFill, Realizes
  <2>2. At(D, Whole(price), price * D) /\ price * D \in Int /\ Whole(price) \in Fraction
    BY AtWhole, WholeType
  <2>3. w = price * D
    BY <1>2, <2>1, <2>2, AtUnique
  <2>4. w * (0 + k) = v * 0 + (price * k) * D + 0
    BY <2>3
  <2> QED
    BY <1>1, <1>4, <1>5, <2>1, <2>4
<1>6. ASSUME q # 0, (q > 0) = (k > 0)
      PROVE  /\ Realizes(pos, k, price) = Whole(0)
             /\ w * (q + k) = v * q + paid * D
  <2>1. q + k \in Int \ {0}
    BY <1>6
  <2> DEFINE total == Plus(Times(pos.avg_cost, q), Whole(paid))
  <2>2. after.avg_cost = Over(total, q + k) /\ Realizes(pos, k, price) = Whole(0)
    BY <1>1, <1>3, <1>6, <2>1 DEF AfterFill, Realizes
  <2>3. Times(pos.avg_cost, q) \in Fraction /\ Whole(paid) \in Fraction
    BY <1>1, TimesType, WholeType
  <2>4. At(D, Times(pos.avg_cost, q), v * q) /\ At(D, Whole(paid), paid * D)
    BY <1>1, <1>2, AtTimes, AtWhole
  <2>5. PICK a, b \in Int : a = v * q /\ b = paid * D
    OBVIOUS
  <2>6. total \in Fraction /\ At(D, total, a + b)
    BY <1>2, <2>3, <2>4, <2>5, PlusType, AtPlus
  <2> HIDE DEF total
  <2>7. PICK n \in Int \ {0} : n = q + k
    BY <2>1
  <2>8. At(D, total, w * n)
    <3>1. At(D, Over(total, n), w)
      BY <2>2, <2>7
    <3> QED
      BY <1>2, <2>6, <2>7, <3>1, AtOver
  <2>9. PICK c \in Int : c = w * n
    OBVIOUS
  <2>10. c = a + b
    BY <1>2, <2>6, <2>8, <2>9, AtUnique
  <2> QED
    BY <2>2, <2>5, <2>7, <2>9, <2>10
<1>7. ASSUME q # 0, (q > 0) # (k > 0)
      PROVE  \E z \in Int : /\ At(D, Realizes(pos, k, price), z)
                            /\ w * (q + k) = v * q + paid * D + z
  <2> DEFINE gain == Plus(Whole(price), Times(pos.avg_cost, -1))
             z == (price * D + v * (-1)) * (-k)
  <2>1. Realizes(pos, k, price) = Times(gain, -k)
    <3> DEFINE shares == Magnitude(k)
               open == Magnitude(q)
               closed == IF shares < open THEN shares ELSE open
               side == IF q > 0 THEN 1 ELSE -1
    <3>1. ~ (q * (q + k) < 0)
      BY <1>1
    <3>2. shares <= open
      <4>1. CASE q > 0
        <5>1. k < 0
          BY <1>7, <4>1
        <5>2. q + k >= 0
          BY <3>1, <4>1
        <5> QED
          BY <4>1, <5>1, <5>2 DEF Magnitude
      <4>2. CASE q < 0
        <5>1. k > 0
          BY <1>7, <4>2
        <5>2. q + k <= 0
          BY <3>1, <4>2
        <5> QED
          BY <4>2, <5>1, <5>2 DEF Magnitude
      <4> QED
        BY <1>7, <4>1, <4>2
    <3>3. closed = shares
      BY <3>2 DEF Magnitude
    <3>4. shares * side = -k
      BY <1>7 DEF Magnitude
    <3>5. Realizes(pos, k, price) = Times(gain, closed * side)
      BY <1>1, <1>7 DEF Realizes
    <3> QED
      BY <3>3, <3>4, <3>5
  <2>2. z \in Int /\ At(D, Realizes(pos, k, price), z)
    <3>1. Whole(price) \in Fraction /\ Times(pos.avg_cost, -1) \in Fraction /\ -1 \in Int /\ -k \in Int
      <4>1. Whole(price) \in Fraction
        BY WholeType
      <4>2. Times(pos.avg_cost, -1) \in Fraction
        BY <1>1, TimesType
      <4> QED
        BY <4>1, <4>2
    <3>2. At(D, Whole(price), price * D) /\ At(D, Times(pos.avg_cost, -1), v * (-1))
      <4>1. At(D, Whole(price), price * D)
        BY <1>2, AtWhole
      <4>2. At(D, Times(pos.avg_cost, -1), v * (-1))
        BY <1>1, <1>2, <3>1, AtTimes
      <4> QED
        BY <4>1, <4>2
    <3>3. PICK a, b \in Int : a = price * D /\ b = v * (-1)
      OBVIOUS
    <3>4. gain \in Fraction /\ At(D, gain, a + b)
      BY <1>2, <3>1, <3>2, <3>3, PlusType, AtPlus
    <3> HIDE DEF gain
    <3>5. PICK c \in Int : c = a + b
      OBVIOUS
    <3>6. At(D, Times(gain, -k), c * (-k))
      BY <1>2, <3>1, <3>4, <3>5, AtTimes
    <3> QED
      BY <2>1, <3>3, <3>5, <3>6
  <2>3. v * q + paid * D + z = v * (q + k)
    BY <1>3
  <2>4. CASE q + k = 0
    <3>1. w * (q + k) = 0 /\ v * (q + k) = 0
      BY <2>4
    <3> QED
      BY <2>2, <2>3, <3>1
  <2>5. CASE q + k # 0
    <3>1. after.avg_cost = pos.avg_cost
      BY <1>1, <1>7, <2>5 DEF AfterFill
    <3>2. w = v
      BY <1>1, <1>2, <3>1, AtUnique
    <3> QED
      BY <2>2, <2>3, <3>2
  <2> QED
    BY <2>4, <2>5
<1>8. CASE q # 0 /\ (q > 0) = (k > 0)
  <2>1. w * (q + k) = v * q + paid * D + 0
    BY <1>6, <1>8
  <2> QED
    BY <1>1, <1>3, <1>4, <1>6, <1>8, <2>1
<1>9. CASE q # 0 /\ (q > 0) # (k > 0)
  BY <1>1, <1>3, <1>7, <1>9
<1> QED
  BY <1>5, <1>8, <1>9

\* Every position costs a fraction.
LEMMA CostsType ==
    ASSUME position \in [Symbols -> Position]
    PROVE  Costs \in [Symbols -> Fraction]
<1>1. ASSUME NEW s \in Symbols PROVE Times(position[s].avg_cost, position[s].quantity) \in Fraction
  BY TimesType DEF Position
<1> QED
  BY <1>1 DEF Costs

\* A fill keeps cash and costs equal to what was there and was realized.
LEMMA TradeCosts ==
    ASSUME BrokerTypeOK, CostBalances, NEW o \in OrderRequest, NEW price \in Nat, ApplyFill(o, price)
    PROVE  CostBalances'
<1> SUFFICES ASSUME crossed' = {}
             PROVE  Equals(Plus(Whole(cash'), FoldFunction(Plus, Whole(0), Costs')),
                           Plus(Whole(StartingNav), realized'))
  BY DEF CostBalances
<1> DEFINE x == o.symbol
           k == Signed(o)
           pos == position[x]
           after == AfterFill(pos, k, price)
<1>1. /\ x \in Symbols /\ pos \in Position /\ k \in Int \ {0}
      /\ position \in [Symbols -> Position] /\ position' \in [Symbols -> Position]
      /\ realized \in Fraction /\ cash \in Int /\ IsFiniteSet(Symbols)
  BY SignedType, FillMoves, BrokerAssumption DEF BrokerTypeOK, OrderRequest
<1>2. after \in Position /\ after.quantity = pos.quantity + k
  BY <1>1, AfterFillMoves
<1>3. /\ position' = [position EXCEPT ![x] = after]
      /\ realized' = Plus(realized, Realizes(pos, k, price))
      /\ cash' = cash - price * k
      /\ ~ (pos.quantity * (pos.quantity + k) < 0)
      /\ crossed = {}
  BY DEF ApplyFill
<1> HIDE DEF after, pos, k, x
<1>4. Costs \in [Symbols -> Fraction] /\ Costs' \in [Symbols -> Fraction]
  <2>1. Costs' \in [Symbols -> Fraction]
    <3>1. ASSUME NEW s \in Symbols PROVE Times(position'[s].avg_cost, position'[s].quantity) \in Fraction
      BY <1>1, TimesType DEF Position
    <3> QED
      BY <3>1 DEF Costs
  <2> QED
    BY <1>1, <2>1, CostsType
<1>5. Costs[x] = Times(pos.avg_cost, pos.quantity) /\ Costs'[x] = Times(after.avg_cost, pos.quantity + k)
  BY <1>1, <1>2, <1>3 DEF Costs, pos
<1>6. \A s \in Symbols : s # x => Costs'[s] = Costs[s]
  BY <1>1, <1>3 DEF Costs
<1> DEFINE F == FoldFunction(Plus, Whole(0), Costs)
           G == FoldFunction(Plus, Whole(0), Costs')
<1>7. F \in Fraction /\ G \in Fraction /\ Equals(Plus(G, Costs[x]), Plus(F, Costs'[x]))
  BY <1>1, <1>4, <1>6, TotalMoves
<1>8. Equals(Plus(Whole(cash), F), Plus(Whole(StartingNav), realized))
  BY <1>3 DEF CostBalances
<1> HIDE DEF F, G
<1>9. pos.avg_cost \in Fraction /\ after.avg_cost \in Fraction /\ pos.quantity \in Int
  BY <1>1, <1>2 DEF Position
<1>10. PICK D \in Nat \ {0}, f, g, v, w, r \in Int :
         At(D, F, f) /\ At(D, G, g) /\ At(D, pos.avg_cost, v) /\ At(D, after.avg_cost, w) /\ At(D, realized, r)
  <2>1. /\ F \in Fraction /\ G \in Fraction /\ pos.avg_cost \in Fraction
        /\ after.avg_cost \in Fraction /\ realized \in Fraction
    BY <1>1, <1>7, <1>9
  <2> QED
    BY <2>1, CommonTerms
<1>11. PICK z \in Int : /\ At(D, Realizes(pos, k, price), z)
                        /\ w * (pos.quantity + k) = v * pos.quantity + (price * k) * D + z
  BY <1>1, <1>3, <1>10, CostMoves DEF after
<1>12. PICK q, t, paid, c0, c1, n0 \in Int :
         /\ q = v * pos.quantity /\ t = w * (pos.quantity + k) /\ paid = (price * k) * D
         /\ c0 = cash * D /\ c1 = (cash - price * k) * D /\ n0 = StartingNav * D
  <2>1. price * k \in Int /\ cash - price * k \in Int /\ StartingNav \in Int /\ pos.quantity + k \in Int
    BY <1>1, <1>9, BrokerAssumption
  <2>2. v * pos.quantity \in Int /\ w * (pos.quantity + k) \in Int /\ (price * k) * D \in Int
    BY <1>9, <2>1
  <2>3. cash * D \in Int /\ (cash - price * k) * D \in Int /\ StartingNav * D \in Int
    BY <1>1, <2>1
  <2> QED
    BY <2>2, <2>3
<1>13. c1 = c0 - paid /\ t = q + paid + z
  BY <1>1, <1>11, <1>12
<1>14. At(D, Costs[x], q) /\ At(D, Costs'[x], t)
  <2>1. At(D, Costs[x], q)
    <3>1. PICK m \in Int : m = pos.quantity
      BY <1>9
    <3>2. PICK avg \in Fraction : avg = pos.avg_cost
      BY <1>9
    <3>3. D \in Int /\ At(D, avg, v)
      BY <1>10, <3>2
    <3>4. At(D, Times(avg, m), v * m)
      BY <3>3, AtTimes
    <3> QED
      BY <1>5, <1>12, <3>1, <3>2, <3>4
  <2>2. PICK m \in Int : m = pos.quantity + k
    BY <1>1, <1>9
  <2>3. At(D, Times(after.avg_cost, m), w * m)
    <3>1. PICK avg \in Fraction : avg = after.avg_cost
      BY <1>9
    <3>2. D \in Int /\ At(D, avg, w)
      BY <1>10, <3>1
    <3>3. At(D, Times(avg, m), w * m)
      BY <3>2, AtTimes
    <3> QED
      BY <3>1, <3>3
  <2> QED
    BY <1>5, <1>12, <2>1, <2>2, <2>3
<1>15. g + q = f + t
  <2>1. Costs[x] \in Fraction /\ Costs'[x] \in Fraction
    BY <1>1, <1>4
  <2>2. At(D, Plus(G, Costs[x]), g + q) /\ At(D, Plus(F, Costs'[x]), f + t)
    BY <1>7, <1>10, <1>14, <2>1, AtPlus
  <2>3. Plus(G, Costs[x]) \in Fraction /\ Plus(F, Costs'[x]) \in Fraction
    BY <1>7, <2>1, PlusType
  <2> QED
    BY <1>7, <2>2, <2>3, EqualValues
<1>16. Whole(cash) \in Fraction /\ Whole(cash') \in Fraction /\ Whole(StartingNav) \in Fraction
  BY <1>1, <1>3, BrokerAssumption, WholeType
<1>17. At(D, Whole(cash), c0) /\ At(D, Whole(cash'), c1) /\ At(D, Whole(StartingNav), n0)
  <2>1. cash \in Int /\ cash' \in Int /\ StartingNav \in Int /\ D \in Int
    BY <1>1, <1>3, BrokerAssumption
  <2>2. At(D, Whole(cash), cash * D) /\ At(D, Whole(cash'), cash' * D)
        /\ At(D, Whole(StartingNav), StartingNav * D)
    BY <2>1, AtWhole
  <2> QED
    BY <1>3, <1>12, <2>2
<1>18. c0 + f = n0 + r
  <2>1. At(D, Plus(Whole(cash), F), c0 + f) /\ At(D, Plus(Whole(StartingNav), realized), n0 + r)
    BY <1>1, <1>7, <1>10, <1>16, <1>17, AtPlus
  <2>2. Plus(Whole(cash), F) \in Fraction /\ Plus(Whole(StartingNav), realized) \in Fraction
    BY <1>1, <1>7, <1>16, PlusType
  <2> QED
    BY <1>8, <2>1, <2>2, EqualValues
<1>19. c1 + g = n0 + (r + z)
  BY <1>13, <1>15, <1>18
<1>20. Realizes(pos, k, price) \in Fraction
  BY <1>1, RealizesType
<1>21. realized' \in Fraction /\ At(D, realized', r + z)
  BY <1>1, <1>3, <1>10, <1>11, <1>20, PlusType, AtPlus
<1>22. At(D, Plus(Whole(cash'), G), c1 + g) /\ At(D, Plus(Whole(StartingNav), realized'), n0 + (r + z))
  BY <1>7, <1>10, <1>16, <1>17, <1>21, AtPlus
<1>23. Plus(Whole(cash'), G) \in Fraction /\ Plus(Whole(StartingNav), realized') \in Fraction
  BY <1>7, <1>16, <1>21, PlusType
<1>24. Equals(Plus(Whole(cash'), G), Plus(Whole(StartingNav), realized'))
  BY <1>19, <1>22, <1>23, EqualValues
<1> QED
  BY <1>24 DEF G

\* So does a step that moves neither positions nor money.
LEMMA NoTradeCosts ==
    ASSUME BrokerTypeOK, BrokerTypeOK', CostBalances,
           \A s \in Symbols : /\ position'[s].quantity = position[s].quantity
                              /\ position'[s].avg_cost = position[s].avg_cost,
           UNCHANGED <<cash, realized, crossed>>
    PROVE  CostBalances'
<1>1. Costs' = Costs
  BY DEF Costs
<1> QED
  BY <1>1 DEF CostBalances

\* A call keeps the books balanced, whoever the client is.
LEMMA BooksStep ==
    ASSUME BrokerIInv, BooksBalance, [BrokerCall]_broker
    PROVE  BooksBalance'
<1>1. BrokerTypeOK /\ BrokerTypeOK' /\ SharesBalance /\ CashBalances /\ CostBalances
  BY BrokerStep DEF BrokerIInv, BooksBalance
<1>2. /\ status \in [Ids -> Statuses] /\ fillPrice \in [Ids -> Nat]
      /\ pending = {i \in Ids : status[i] = "submitted"} /\ NextId \notin Ids
  BY <1>1, IdsType DEF BrokerTypeOK, BrokerIInv, PendingIsOpen
<1>3. ASSUME NEW i, NEW o \in OrderRequest, NEW price \in Nat, ApplyFill(o, price),
             Filled' = Filled \cup {i}, i \notin Filled,
             requests'[i] = o, fillPrice'[i] = price,
             \A k \in Filled : requests'[k] = requests[k] /\ fillPrice'[k] = fillPrice[k]
      PROVE  BooksBalance'
  <2>1. SharesBalance' /\ CashBalances'
    BY <1>1, <1>3, TradeBalances
  <2>2. CostBalances'
    BY <1>1, <1>3, TradeCosts
  <2> QED
    BY <2>1, <2>2 DEF BooksBalance
<1>4. ASSUME Filled' = Filled,
             \A k \in Filled : requests'[k] = requests[k] /\ fillPrice'[k] = fillPrice[k],
             \A s \in Symbols : /\ position'[s].quantity = position[s].quantity
                                /\ position'[s].avg_cost = position[s].avg_cost,
             UNCHANGED <<cash, realized, crossed>>
      PROVE  BooksBalance'
  <2>1. SharesBalance' /\ CashBalances'
    BY <1>1, <1>4, NoTradeBalances
  <2>2. CostBalances'
    BY <1>1, <1>4, NoTradeCosts
  <2> QED
    BY <2>1, <2>2 DEF BooksBalance
<1>5. ASSUME NEW o \in OrderRequest, PlaceChild(o) PROVE BooksBalance'
  <2>1. /\ requests' = Append(requests, o)
        /\ status' = Append(status, "submitted")
        /\ fillPrice' = Append(fillPrice, 0)
        /\ "submitted" \in Statuses /\ 0 \in Nat
    BY <1>5 DEF PlaceChild, Statuses
  <2>2. /\ Ids' = Ids \cup {NextId} /\ status'[NextId] = "submitted"
        /\ \A k \in Ids : /\ requests'[k] = requests[k] /\ status'[k] = status[k]
                          /\ fillPrice'[k] = fillPrice[k]
    BY <1>1, <2>1, PlacedAppends
  <2>3. Filled' = Filled /\ Filled \subseteq Ids
    BY <1>2, <2>2 DEF Filled
  <2>4. UNCHANGED <<position, cash, realized, crossed>>
    BY <1>5 DEF PlaceChild
  <2> QED
    BY <1>4, <2>2, <2>3, <2>4
<1>6. ASSUME NEW o \in OrderRequest, PlaceAndFill(o) PROVE BooksBalance'
  <2> DEFINE price == IF o.limit_price # 0 THEN o.limit_price ELSE prices[o.symbol]
  <2>1. price \in Nat
    BY <1>1 DEF BrokerTypeOK, OrderRequest
  <2>2. /\ requests' = Append(requests, o)
        /\ status' = Append(status, "filled")
        /\ fillPrice' = Append(fillPrice, price)
        /\ ApplyFill(o, price) /\ "filled" \in Statuses
    BY <1>6 DEF PlaceAndFill, Statuses
  <2> HIDE DEF price
  <2>3. /\ Ids' = Ids \cup {NextId} /\ status'[NextId] = "filled"
        /\ requests'[NextId] = o /\ fillPrice'[NextId] = price
        /\ \A k \in Ids : /\ requests'[k] = requests[k] /\ status'[k] = status[k]
                          /\ fillPrice'[k] = fillPrice[k]
    BY <1>1, <2>1, <2>2, PlacedAppends
  <2>4. Filled' = Filled \cup {NextId} /\ NextId \notin Filled /\ Filled \subseteq Ids
    BY <1>2, <2>3 DEF Filled
  <2> QED
    BY <1>3, <2>1, <2>2, <2>3, <2>4
<1>7. ASSUME NEW s \in Symbols, NEW price \in Nat, SetPrice(s, price) PROVE BooksBalance'
  <2>1. UNCHANGED <<requests, status, fillPrice, cash, realized, crossed>>
    BY <1>7 DEF SetPrice
  <2>2. ASSUME NEW u \in Symbols
        PROVE  position'[u].quantity = position[u].quantity /\ position'[u].avg_cost = position[u].avg_cost
    <3>1. position \in [Symbols -> Position]
      BY <1>1 DEF BrokerTypeOK
    <3> QED
      BY <1>7, <3>1 DEF SetPrice
  <2>3. Filled' = Filled
    BY <2>1 DEF Filled, Ids
  <2> QED
    BY <1>4, <2>1, <2>2, <2>3
<1>8. CASE FillChild
  <2> DEFINE i == Min(sweep)
             price == prices[requests[i].symbol]
  <2>1. i \in pending /\ i \in Ids /\ requests[i] \in OrderRequest
    BY <1>1, <1>2, <1>8, IdsType DEF FillChild
  <2>2. price \in Nat
    BY <1>1, <2>1 DEF BrokerTypeOK, OrderRequest
  <2>3. /\ ApplyFill(requests[i], price)
        /\ status' = [k \in Ids |-> IF k = i THEN "filled"
                                    ELSE IF k \in Siblings(i) THEN "cancelled" ELSE status[k]]
        /\ fillPrice' = [fillPrice EXCEPT ![i] = price]
        /\ requests' = requests
    BY <1>8 DEF FillChild
  <2> HIDE DEF i, price
  <2>4. Filled' = Filled \cup {i} /\ i \notin Filled
    BY <1>2, <2>1, <2>3 DEF Filled, Siblings, Ids
  <2>5. fillPrice'[i] = price /\ \A k \in Filled : fillPrice'[k] = fillPrice[k]
    BY <1>2, <2>1, <2>3, <2>4 DEF Filled
  <2> QED
    BY <1>3, <2>1, <2>2, <2>3, <2>4, <2>5
<1>9. CASE SweepRaises \/ UNCHANGED broker
  <2>1. UNCHANGED <<requests, status, fillPrice, position, cash, realized, crossed>>
    BY <1>9 DEF SweepRaises, broker
  <2>2. Filled' = Filled
    BY <2>1 DEF Filled, Ids
  <2> QED
    BY <1>4, <2>1, <2>2
<1>10. CASE CancelAll \/ \E i \in Ids : CancelOrder(i)
  <2>1. UNCHANGED <<requests, fillPrice, position, cash, realized, crossed>>
    BY <1>10 DEF CancelAll, CancelOrder
  <2>2. \A k \in Ids : status'[k] = status[k] \/ (status[k] # "filled" /\ status'[k] = "cancelled")
    BY <1>2, <1>10 DEF CancelAll, CancelOrder
  <2>3. Filled' = Filled
    BY <2>1, <2>2 DEF Filled, Ids
  <2> QED
    BY <1>4, <2>1, <2>3
<1> QED
  BY <1>5, <1>6, <1>7, <1>8, <1>9, <1>10 DEF BrokerCall, PlaceOrder

\* The books of a new broker balance.
LEMMA BooksStart == BrokerInit => BooksBalance
<1> SUFFICES ASSUME BrokerInit PROVE BooksBalance
  OBVIOUS
<1>1. /\ Ids = {} /\ Filled = {} /\ \A s : FilledIn(s) = {}
      /\ cash = StartingNav /\ realized = Whole(0)
      /\ position = [s \in Symbols |-> Flat]
  BY DEF BrokerInit, Ids, Filled, FilledIn
<1>2. SharesBalance
  BY <1>1, SumEmpty DEF SharesBalance, Flat
<1>3. CashBalances
  BY <1>1, SumEmpty, BrokerAssumption DEF CashBalances
<1>4. CostBalances
  <2>1. Costs = [s \in Symbols |-> Times(Whole(0), 0)]
    BY <1>1 DEF Costs, Flat
  <2>2. Times(Whole(0), 0) \in Fraction /\ Whole(0) \in Fraction
    BY WholeType, TimesType
  <2>3. PICK g \in [SUBSET Symbols -> Fraction] :
           Totals(Costs, Symbols, g) /\ FoldFunction(Plus, Whole(0), Costs) = g[Symbols]
    <3>1. Costs \in [Symbols -> Fraction]
      BY <2>1, <2>2
    <3> QED
      BY <3>1, BrokerAssumption, FoldIsTotals
  <2> DEFINE A == {s \in SUBSET Symbols : At(1, g[s], 0)}
  <2>4. At(1, Whole(0), 0) /\ At(1, Times(Whole(0), 0), 0)
    <3>1. At(1, Whole(0), 0)
      BY DEF At, Whole
    <3>2. At(1, Times(Whole(0), 0), 0 * 0)
      BY <2>2, <3>1, AtTimes
    <3> QED
      BY <3>1, <3>2
  <2>5. {} \in A
    BY <2>3, <2>4 DEF Totals
  <2>6. ASSUME NEW s \in SUBSET Symbols, NEW r \in SUBSET Symbols, s # {}, r = s \ {Pick(s)}, r \in A
        PROVE  s \in A
    <3>1. Pick(s) \in Symbols
      BY <2>6, PickIn
    <3>2. g[s] = Plus(Times(Whole(0), 0), g[r])
      BY <2>1, <2>3, <2>6, <3>1 DEF Totals
    <3>3. At(1, Plus(Times(Whole(0), 0), g[r]), 0 + 0)
      BY <2>2, <2>4, <2>6, AtPlus
    <3> QED
      BY <3>2, <3>3
  <2> HIDE DEF A
  <2>7. \A s \in SUBSET Symbols : s \in A
    BY <2>5, <2>6, BrokerAssumption, PickInduction
  <2>8. At(1, g[Symbols], 0) /\ g[Symbols] \in Fraction
    BY <2>7 DEF A
  <2>9. Whole(StartingNav) \in Fraction /\ At(1, Whole(StartingNav), StartingNav) /\ StartingNav \in Int
    BY BrokerAssumption, WholeType DEF At, Whole
  <2>10. /\ At(1, Plus(Whole(StartingNav), g[Symbols]), StartingNav + 0)
         /\ At(1, Plus(Whole(StartingNav), Whole(0)), StartingNav + 0)
    BY <2>2, <2>4, <2>8, <2>9, AtPlus
  <2>11. /\ Plus(Whole(StartingNav), g[Symbols]) \in Fraction
         /\ Plus(Whole(StartingNav), Whole(0)) \in Fraction
    BY <2>2, <2>8, <2>9, PlusType
  <2>12. Equals(Plus(Whole(StartingNav), g[Symbols]), Plus(Whole(StartingNav), Whole(0)))
    BY <2>9, <2>10, <2>11, EqualValues
  <2> QED
    BY <1>1, <2>3, <2>12 DEF CostBalances
<1> QED
  BY <1>2, <1>3, <1>4 DEF BooksBalance

\* The books balance at every moment: the shares held and the cash are the sums
\* over the filled orders, and the cash with what the positions cost is the
\* starting value with what was realized, unless a fill crossed through zero.
THEOREM BooksAlwaysBalance == BrokerSpec => []BooksBalance
<1>1. BrokerIInv /\ BooksBalance /\ [BrokerNext]_broker => BooksBalance'
  BY ClientCalls, BooksStep
<1> QED
  BY <1>1, BooksStart, BrokerInvariance, PTL DEF BrokerSpec

-----------------------------------------------------------------------------
(* The guard in front of the broker: sizing and check_order agree.         *)

\* Floor division by a positive number stays below the quotient.
LEMMA FloorTimes ==
    ASSUME NEW a \in Nat, NEW b \in Nat \ {0}
    PROVE  a \div b \in Nat /\ (a \div b) * b <= a
  OBVIOUS

\* Multiplying by a natural number keeps the order.
LEMMA TimesMonotone ==
    ASSUME NEW c \in Int, NEW b \in Nat, NEW q \in Int, q <= c
    PROVE  q * b <= c * b
  OBVIOUS

\* The product of two positive numbers is positive.
LEMMA PositiveTimes ==
    ASSUME NEW a \in Nat \ {0}, NEW b \in Nat \ {0}
    PROVE  a * b \in Nat \ {0}
  OBVIOUS

\* max(0, min(a, b, c)) of natural numbers is the least of them.
LEMMA LeastOfThree ==
    ASSUME NEW a \in Nat, NEW b \in Nat, NEW c \in Nat
    PROVE  LET q == Max({0, Min({a, b, c})})
           IN  q \in Nat /\ q <= a /\ q <= b /\ q <= c
<1> DEFINE S == {a, b, c}
           m == Min(S)
<1>1. PICK x \in S : \A y \in S : x <= y
  OBVIOUS
<1>2. m \in S /\ \A y \in S : m <= y
  BY <1>1 DEF Min
<1>3. m \in Nat /\ m <= a /\ m <= b /\ m <= c
  BY <1>2
<1> HIDE DEF m
<1>4. m \in {0, m} /\ \A y \in {0, m} : m >= y
  BY <1>3
<1>5. Max({0, m}) \in {0, m} /\ \A y \in {0, m} : Max({0, m}) >= y
  BY <1>4 DEF Max
<1>6. Max({0, m}) = m
  BY <1>3, <1>5
<1> QED BY <1>3, <1>6 DEF m

\* max(0, min(a, b, c)) of integers is a natural number.
LEMMA ThreeCapped ==
    ASSUME NEW a \in Int, NEW b \in Int, NEW c \in Int
    PROVE  Max({0, Min({a, b, c})}) \in Nat
<1> DEFINE S == {a, b, c}
           m == Min(S)
<1>1. PICK x \in S : \A y \in S : x <= y
  OBVIOUS
<1>2. m \in S /\ \A y \in S : m <= y
  BY <1>1 DEF Min
<1>3. m \in Int
  BY <1>2
<1> HIDE DEF m
<1>4. PICK z \in {0, m} : \A y \in {0, m} : z >= y
  BY <1>3
<1>5. Max({0, m}) \in {0, m} /\ \A y \in {0, m} : Max({0, m}) >= y
  BY <1>4 DEF Max
<1>6. Max({0, m}) \in Nat
  BY <1>3, <1>5
<1> QED BY <1>6 DEF m

\* fixed_fractional_size returns a natural number, whatever the NAV has become.
LEMMA SizeIsNat ==
    ASSUME NEW nav \in Int, NEW risk \in Nat, NEW entry \in Nat \ {0}, NEW stop \in Nat, stop < entry
    PROVE  FixedFractionalSize(nav, risk, entry, stop, 1) \in Nat
<1>1. PICK d \in Nat \ {0} : d = Abs(entry - stop) * 1
  BY DEF Abs
<1>2. PICK a, b, c \in Int : /\ a = (nav * risk) \div (Whole100 * d)
                             /\ b = MaxOrderNotional \div (entry * 1)
                             /\ c = (nav * MaxPosition) \div (Whole100 * (entry * 1))
  <2>1. (nav * risk) \div (Whole100 * d) \in Int
    BY <1>1 DEF Whole100
  <2>2. MaxOrderNotional \div (entry * 1) \in Int
    BY LimitsAssumption
  <2>3. (nav * MaxPosition) \div (Whole100 * (entry * 1)) \in Int
    BY LimitsAssumption DEF Whole100
  <2> QED
    BY <2>1, <2>2, <2>3
<1>3. Max({0, Min({a, b, c})}) \in Nat
  BY ThreeCapped
<1> QED
  BY <1>1, <1>2, <1>3 DEF FixedFractionalSize

\* A quantity that fixed_fractional_size returns risks at most the given share
\* of NAV at its stop and exceeds neither max_order_notional nor
\* max_position_pct_nav: "a sizing bug can never itself become a limit breach".
THEOREM SizeIsSafe ==
    ASSUME NEW nav \in Nat, NEW risk \in Nat, NEW entry \in Nat, NEW stop \in Nat,
           NEW multiplier \in Nat \ {0}
    PROVE  LET q == FixedFractionalSize(nav, risk, entry, stop, multiplier)
           IN  /\ q \in Nat
               /\ q * (entry * multiplier) <= MaxOrderNotional
               /\ q * (Whole100 * (entry * multiplier)) <= nav * MaxPosition
               /\ q * (Whole100 * (Abs(entry - stop) * multiplier)) <= nav * risk
<1> DEFINE perUnit == Abs(entry - stop) * multiplier
           unit == entry * multiplier
           byRisk == (nav * risk) \div (Whole100 * perUnit)
           byOrder == MaxOrderNotional \div unit
           byPosition == (nav * MaxPosition) \div (Whole100 * unit)
           q == FixedFractionalSize(nav, risk, entry, stop, multiplier)
<1>1. nav * risk \in Nat /\ nav * MaxPosition \in Nat /\ MaxOrderNotional \in Nat
  BY LimitsAssumption DEF Whole100
<1>2. unit \in Nat /\ perUnit \in Nat
  <2>1. Abs(entry - stop) \in Nat
    BY DEF Abs
  <2> QED BY <2>1
<1>3. Whole100 * unit \in Nat /\ Whole100 * perUnit \in Nat
  <2> HIDE DEF unit, perUnit
  <2> QED BY <1>2 DEF Whole100
<1>4. CASE perUnit <= 0 \/ entry <= 0
  <2>1. q = 0
    BY <1>4 DEF FixedFractionalSize
  <2> HIDE DEF unit, perUnit, q
  <2>2. q * unit = 0 /\ q * (Whole100 * unit) = 0 /\ q * (Whole100 * perUnit) = 0
    BY <2>1, <1>2, <1>3
  <2> QED BY <2>1, <2>2, <1>1 DEF q, unit, perUnit
<1>5. CASE ~(perUnit <= 0 \/ entry <= 0)
  <2>1. unit \in Nat \ {0} /\ perUnit \in Nat \ {0}
    <3>1. entry \in Nat \ {0}
      BY <1>5
    <3>2. unit \in Nat \ {0}
      BY <3>1, PositiveTimes
    <3> HIDE DEF unit, perUnit
    <3> QED BY <3>2, <1>2, <1>5
  <2>2. q = Max({0, Min({byRisk, byOrder, byPosition})})
    BY <1>5 DEF FixedFractionalSize
  <2> HIDE DEF unit, perUnit, q
  <2>3. Whole100 * unit \in Nat \ {0} /\ Whole100 * perUnit \in Nat \ {0}
    BY <2>1, PositiveTimes DEF Whole100
  <2>4. byRisk \in Nat /\ byRisk * (Whole100 * perUnit) <= nav * risk
    BY <1>1, <2>3, FloorTimes
  <2>5. byOrder \in Nat /\ byOrder * unit <= MaxOrderNotional
    BY <1>1, <2>1, FloorTimes
  <2>6. byPosition \in Nat /\ byPosition * (Whole100 * unit) <= nav * MaxPosition
    BY <1>1, <2>3, FloorTimes
  <2> HIDE DEF byRisk, byOrder, byPosition
  <2>7. q \in Nat /\ q <= byRisk /\ q <= byOrder /\ q <= byPosition
    BY <2>2, <2>4, <2>5, <2>6, LeastOfThree
  <2>8. /\ q * unit <= byOrder * unit
        /\ q * (Whole100 * unit) <= byPosition * (Whole100 * unit)
        /\ q * (Whole100 * perUnit) <= byRisk * (Whole100 * perUnit)
    <3> DEFINE u100 == Whole100 * unit
               p100 == Whole100 * perUnit
    <3>1. u100 \in Nat /\ p100 \in Nat
      BY <1>3
    <3> HIDE DEF u100, p100
    <3>2. q * unit <= byOrder * unit /\ q * u100 <= byPosition * u100
          /\ q * p100 <= byRisk * p100
      BY <3>1, <1>2, <2>4, <2>5, <2>6, <2>7, TimesMonotone
    <3> QED BY <3>2 DEF u100, p100
  <2>9. /\ q * unit \in Nat /\ byOrder * unit \in Nat
        /\ q * (Whole100 * unit) \in Nat /\ byPosition * (Whole100 * unit) \in Nat
        /\ q * (Whole100 * perUnit) \in Nat /\ byRisk * (Whole100 * perUnit) \in Nat
    BY <1>2, <1>3, <2>4, <2>5, <2>6, <2>7
  <2>10. /\ q * unit <= MaxOrderNotional
         /\ q * (Whole100 * unit) <= nav * MaxPosition
         /\ q * (Whole100 * perUnit) <= nav * risk
    BY <1>1, <2>4, <2>5, <2>6, <2>8, <2>9
  <2> QED BY <2>7, <2>10 DEF q, unit, perUnit
<1> QED BY <1>4, <1>5

-----------------------------------------------------------------------------
\* A reviewer's multiplier, at most 100 percent, only shrinks a size.
LEMMA ScaledShrinks ==
    ASSUME NEW q \in Nat, NEW percent \in 0..100
    PROVE  Scaled(q, percent) \in Nat /\ Scaled(q, percent) <= q
  BY DEF Scaled

\* With the context run_pre_market_plan builds, a stock order within the two
\* notional limits meets no other check than the kill switch, the trading mode
\* and the count of open positions.
LEMMA OnlyCountAndSwitches ==
    ASSUME NEW nav \in Nat, NEW open \in Nat, NEW killed \in BOOLEAN, NEW o,
           o.sec_type = "STK",
           ~NotionalTooLarge(o, Context(nav, open, TRUE)),
           ~PositionTooLarge(o, Context(nav, open, TRUE))
    PROVE  Admits(killed, o, Context(nav, open, TRUE))
               <=> ~killed /\ ~ReadOnly /\ open < MaxOpenPositions
<1> DEFINE ctx == Context(nav, open, TRUE)
<1>1. /\ ctx.nav = nav /\ ctx.open_positions = open /\ ctx.is_new_position = TRUE
      /\ ctx.day_realized_pnl = <<0, 1>> /\ ctx.day_unrealized_pnl = <<0, 1>>
      /\ ctx.is_day_trade = FALSE
  BY DEF Context, Whole
<1>2. ~IsOption(o) /\ ShortCallCovered(o, ctx)
  BY DEF IsOption, ShortCallCovered
<1>3. ~DailyLossBreached(ctx)
  <2> DEFINE loss == MaxDailyLoss * nav
  <2>1. nav > 0 => loss \in Nat \ {0}
    BY PositiveTimes, LimitsAssumption DEF Whole100
  <2>2. (0 * 1 + 0 * 1) * Whole100 = 0 /\ loss * (1 * 1) = loss
    <3>1. loss \in Nat
      BY LimitsAssumption
    <3> HIDE DEF loss
    <3> QED BY <3>1 DEF Whole100
  <2> HIDE DEF ctx, loss
  <2>3. nav > 0 => ~((0 * 1 + 0 * 1) * Whole100 <= -(loss * (1 * 1)))
    BY <2>1, <2>2
  <2>4. DailyLossBreached(ctx)
          <=> nav > 0 /\ (0 * 1 + 0 * 1) * Whole100 <= -(MaxDailyLoss * nav * (1 * 1))
    BY <1>1 DEF DailyLossBreached
  <2> QED BY <2>3, <2>4 DEF loss
<1>4. ~DayTradeLimit(ctx)
  BY <1>1 DEF DayTradeLimit
<1>5. TooManyPositions(ctx) <=> ~(open < MaxOpenPositions)
  <2> HIDE DEF ctx
  <2> QED BY <1>1, LimitsAssumption DEF TooManyPositions
<1> HIDE DEF ctx
<1>6. Admits(killed, o, ctx) <=>
        ~killed /\ ~ReadOnly /\ ~NotionalTooLarge(o, ctx) /\ ~PositionTooLarge(o, ctx)
        /\ ~TooManyPositions(ctx)
  BY <1>2, <1>3, <1>4, LimitsAssumption DEF Admits
<1> QED BY <1>5, <1>6 DEF ctx

\* run_pre_market_plan sizes an entry, lets the reviewer shrink it and hands it
\* to the guard with the NAV it was sized from: neither notional check can then
\* reject it, so what stops an entry is the kill switch, the trading mode or the
\* count of open positions.
THEOREM SizedEntryAdmitted ==
    ASSUME NEW nav \in Nat, NEW risk \in Nat, NEW entry \in Nat \ {0}, NEW stop \in Nat,
           NEW percent \in 0..100, NEW open \in Nat, NEW killed \in BOOLEAN, NEW o,
           o.sec_type = "STK", o.action = "BUY", o.limit_price = entry,
           o.quantity = Scaled(FixedFractionalSize(nav, risk, entry, stop, 1), percent)
    PROVE  Admits(killed, o, Context(nav, open, TRUE))
               <=> ~killed /\ ~ReadOnly /\ open < MaxOpenPositions
<1> DEFINE size == FixedFractionalSize(nav, risk, entry, stop, 1)
           q == Scaled(size, percent)
           ctx == Context(nav, open, TRUE)
<1>1. size \in Nat /\ size * entry <= MaxOrderNotional
      /\ size * (Whole100 * entry) <= nav * MaxPosition
  <2>1. entry * 1 = entry
    OBVIOUS
  <2> QED BY <2>1, SizeIsSafe
<1> HIDE DEF size
<1>2. q \in Nat /\ q <= size
  BY <1>1, ScaledShrinks
<1>3. o.quantity = q
  BY DEF size
<1> HIDE DEF q
<1>4. q * entry <= size * entry /\ q * (Whole100 * entry) <= size * (Whole100 * entry)
  <2>1. Whole100 * entry \in Nat
    BY DEF Whole100
  <2> DEFINE w == Whole100 * entry
  <2> HIDE DEF w
  <2>2. q * w <= size * w
    BY <1>1, <1>2, <2>1, TimesMonotone DEF w
  <2> QED BY <1>1, <1>2, <2>2, TimesMonotone DEF w
<1>5. Priced(o, ctx) /\ Notional(o, ctx) = entry * q
  <2>1. PriceOf(o, ctx) = entry
    BY DEF PriceOf
  <2>2. entry # NoPrice
    BY LimitsAssumption
  <2>3. ~IsOption(o)
    BY DEF IsOption
  <2>4. entry * q * 1 = entry * q
    BY <1>2
  <2> QED BY <1>3, <2>1, <2>2, <2>3, <2>4 DEF Priced, Notional
<1>6. ~NotionalTooLarge(o, ctx)
  <2>1. entry * q = q * entry /\ q * entry \in Nat /\ size * entry \in Nat
    BY <1>1, <1>2
  <2> HIDE DEF ctx
  <2>2. ~(Notional(o, ctx) > MaxOrderNotional)
    BY <1>1, <1>4, <1>5, <2>1, LimitsAssumption
  <2> QED BY <2>2 DEF NotionalTooLarge
<1>7. ~PositionTooLarge(o, ctx)
  <2>1. ctx.nav = nav /\ ctx.current_position_notional = 0
    BY DEF Context
  <2>2. (0 + entry * q) * Whole100 = q * (Whole100 * entry)
    BY <1>2 DEF Whole100
  <2>3. MaxPosition * nav = nav * MaxPosition
    BY LimitsAssumption
  <2>4. q * (Whole100 * entry) <= nav * MaxPosition
    <3>1. q * (Whole100 * entry) \in Nat /\ size * (Whole100 * entry) \in Nat
          /\ nav * MaxPosition \in Nat
      BY <1>1, <1>2, LimitsAssumption DEF Whole100
    <3> QED BY <1>1, <1>4, <3>1
  <2>5. (0 + entry * q) * Whole100 <= MaxPosition * nav
    BY <2>2, <2>3, <2>4
  <2>6. (0 + entry * q) * Whole100 \in Int /\ MaxPosition * nav \in Int
    BY <1>2, LimitsAssumption DEF Whole100
  <2> HIDE DEF ctx
  <2>7. ~((0 + entry * q) * Whole100 > MaxPosition * nav)
    BY <2>5, <2>6
  <2> QED BY <1>5, <2>1, <2>7 DEF PositionTooLarge
<1> QED BY <1>6, <1>7, OnlyCountAndSwitches

\* What the plan places for a signal, at the price of its entry, is within
\* max_order_notional.
LEMMA SizedNotional ==
    ASSUME NEW nav \in Nat, NEW risk \in Nat, NEW entry \in Nat \ {0}, NEW stop \in Nat,
           NEW percent \in 0..100
    PROVE  LET q == Scaled(FixedFractionalSize(nav, risk, entry, stop, 1), percent)
           IN  q \in Nat /\ q * entry \in Nat /\ q * entry <= MaxOrderNotional
<1> DEFINE size == FixedFractionalSize(nav, risk, entry, stop, 1)
           q == Scaled(size, percent)
<1>1. size \in Nat /\ size * entry <= MaxOrderNotional
  <2>1. entry * 1 = entry
    OBVIOUS
  <2> QED BY <2>1, SizeIsSafe
<1> HIDE DEF size
<1>2. q \in Nat /\ q <= size
  BY <1>1, ScaledShrinks
<1> HIDE DEF q
<1>3. q * entry <= size * entry
  BY <1>1, <1>2, TimesMonotone
<1>4. q * entry \in Nat /\ size * entry \in Nat /\ MaxOrderNotional \in Nat
  BY <1>1, <1>2, LimitsAssumption
<1>5. q * entry <= MaxOrderNotional
  <2> DEFINE a == q * entry
             b == size * entry
  <2> HIDE DEF a, b
  <2>1. a \in Nat /\ b \in Nat /\ a <= b /\ b <= MaxOrderNotional
    BY <1>1, <1>3, <1>4 DEF a, b
  <2>2. a <= MaxOrderNotional
    BY <1>4, <2>1
  <2> QED BY <2>2 DEF a
<1> QED BY <1>2, <1>4, <1>5 DEF q, size

\* The stop of an entry that is within max_order_notional, at or below its price.
LEMMA StopWithinLimits ==
    ASSUME NEW nav \in Nat, NEW entry \in Nat \ {0}, NEW stop \in Nat \ {0}, stop <= entry,
           NEW q \in Nat, q * entry <= MaxOrderNotional, NEW open \in Nat,
           NEW killed \in BOOLEAN, NEW o,
           o.sec_type = "STK", o.action = "SELL", o.limit_price = 0, o.stop_price = stop,
           o.quantity = q
    PROVE  Admits(killed, o, Context(nav, open, TRUE))
               <=> ~killed /\ ~ReadOnly /\ open < MaxOpenPositions
<1> DEFINE ctx == Context(nav, open, TRUE)
<1>4. Priced(o, ctx) /\ Notional(o, ctx) = stop * q
  <2>1. PriceOf(o, ctx) = stop
    <3>1. stop # 0
      OBVIOUS
    <3> HIDE DEF ctx
    <3> QED BY <3>1 DEF PriceOf
  <2>2. stop # NoPrice /\ ~IsOption(o)
    BY LimitsAssumption DEF IsOption
  <2>3. stop * q * 1 = stop * q
    OBVIOUS
  <2> QED BY <2>1, <2>2, <2>3 DEF Priced, Notional
<1>5. stop * q \in Nat /\ stop * q <= MaxOrderNotional
  <2>1. stop * q <= entry * q
    BY TimesMonotone
  <2>2. entry * q = q * entry /\ stop * q \in Nat /\ q * entry \in Nat /\ MaxOrderNotional \in Nat
    BY LimitsAssumption
  <2> DEFINE a == stop * q
             b == q * entry
  <2>3. a \in Nat /\ b \in Nat /\ a <= b /\ b <= MaxOrderNotional
    BY <2>1, <2>2
  <2> HIDE DEF a, b
  <2>4. a <= MaxOrderNotional
    BY <2>2, <2>3
  <2> QED BY <2>2, <2>4 DEF a
<1>6. ~NotionalTooLarge(o, ctx)
  <2> HIDE DEF ctx
  <2> QED BY <1>4, <1>5, LimitsAssumption DEF NotionalTooLarge
<1>7. ~PositionTooLarge(o, ctx)
  <2>1. ctx.nav = nav /\ ctx.current_position_notional = 0
    BY DEF Context
  <2> HIDE DEF ctx
  <2> DEFINE n == stop * q
  <2>2. n \in Nat /\ Notional(o, ctx) = n
    BY <1>4, <1>5
  <2> HIDE DEF n
  <2>3. Max({0, 0 - n}) = 0
    <3>1. 0 \in {0, 0 - n} /\ \A y \in {0, 0 - n} : 0 >= y
      BY <2>2
    <3>2. Max({0, 0 - n}) \in {0, 0 - n} /\ \A y \in {0, 0 - n} : Max({0, 0 - n}) >= y
      BY <3>1 DEF Max
    <3> QED BY <2>2, <3>2
  <2>4. 0 * Whole100 = 0 /\ MaxPosition * nav \in Nat
    BY LimitsAssumption DEF Whole100
  <2>5. ~(0 * Whole100 > MaxPosition * nav)
    BY <2>4
  <2> QED BY <2>1, <2>2, <2>3, <2>5 DEF PositionTooLarge
<1> QED BY <1>6, <1>7, OnlyCountAndSwitches

\* The protective stop of a sized bracket, at or below its entry, is admitted
\* under the same conditions as the entry: a bracket whose entry was accepted is
\* never refused its stop for its size.
THEOREM SizedStopAdmitted ==
    ASSUME NEW nav \in Nat, NEW risk \in Nat, NEW entry \in Nat \ {0}, NEW stop \in Nat \ {0},
           stop <= entry, NEW percent \in 0..100, NEW open \in Nat, NEW killed \in BOOLEAN, NEW o,
           o.sec_type = "STK", o.action = "SELL", o.limit_price = 0, o.stop_price = stop,
           o.quantity = Scaled(FixedFractionalSize(nav, risk, entry, stop, 1), percent)
    PROVE  Admits(killed, o, Context(nav, open, TRUE))
               <=> ~killed /\ ~ReadOnly /\ open < MaxOpenPositions
<1>1. PICK q \in Nat : q = Scaled(FixedFractionalSize(nav, risk, entry, stop, 1), percent)
                       /\ q * entry <= MaxOrderNotional
  BY SizedNotional
<1>2. o.quantity = q
  BY <1>1
<1>3. Admits(FALSE, o, Context(nav, open, TRUE)) <=> ~ReadOnly /\ open < MaxOpenPositions
  BY <1>1, <1>2, StopWithinLimits
<1>4. ~Admits(TRUE, o, Context(nav, open, TRUE))
  BY DEF Admits
<1>5. killed = TRUE \/ killed = FALSE
  OBVIOUS
<1> QED BY <1>3, <1>4, <1>5
=================================================================================
