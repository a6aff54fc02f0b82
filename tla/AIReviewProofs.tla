---------------------------- MODULE AIReviewProofs ----------------------------
(***************************************************************************)
(* Whatever the model answers and whichever transactions fail, the reviews *)
(* applied are a valid answer or the fallback, they are recorded, they     *)
(* never add a signal or a share, and a veto counts.  For any symbols,     *)
(* multipliers, lengths of answers and numbers of failures.                *)
(***************************************************************************)
EXTENDS AIReview, FiniteSetTheorems, FunctionTheorems, SequenceTheorems,
        WellFoundedInduction, TLAPS

-----------------------------------------------------------------------------
(* Facts about sequences.                                                  *)

\* The elements of a finite set can be put in a sequence, each once.
LEMMA SetToSeqOrders ==
    ASSUME NEW S, IsFiniteSet(S)
    PROVE  SetToSeq(S) \in [1..Cardinality(S) -> S] /\ IsInjective(SetToSeq(S))
<1>1. ExistsBijection(1..Cardinality(S), S)
  BY FS_CardinalityType
<1>2. Bijection(1..Cardinality(S), S) # {}
  BY <1>1, Fun_ExistsBij
<1>3. PICK f \in Bijection(1..Cardinality(S), S) : TRUE
  BY <1>2
<1>4. f \in [1..Cardinality(S) -> S] /\ IsInjective(f)
  BY <1>3 DEF Bijection, Injection
<1>5. \E g \in [1..Cardinality(S) -> S] : IsInjective(g)
  BY <1>4
<1> QED
  BY <1>5 DEF SetToSeq

\* A set of numbers up to n has a greatest member.
LEMMA GreatestExists ==
    ASSUME NEW n \in Nat, NEW T \in SUBSET (1..n), T # {}
    PROVE  \E x \in T : \A y \in T : y <= x
<1> DEFINE R == OpToRel(<, Nat)
           U == {n - x : x \in T}
<1>1. IsWellFoundedOn(R, Nat)
  BY NatLessThanWellFounded
<1>2. \A x, y \in Nat : <<y, x>> \in R <=> y < x
  BY DEF OpToRel
<1>3. U \in SUBSET Nat /\ U # {}
  <2>1. \A x \in T : n - x \in Nat
    OBVIOUS
  <2>2. PICK x \in T : TRUE
    OBVIOUS
  <2>3. n - x \in U
    BY <2>2
  <2> QED
    BY <2>1, <2>3
<1> HIDE DEF R
<1>4. PICK u \in U : \A v \in U : ~ (<<v, u>> \in R)
  BY <1>1, <1>3, WFMin
<1>5. \A v \in U : ~ (v < u)
  BY <1>2, <1>3, <1>4
<1>6. PICK x \in T : u = n - x
  BY <1>4
<1>7. \A y \in T : ~ (n - y < n - x)
  BY <1>5, <1>6
<1>8. \A y \in T : y <= x
  BY <1>6, <1>7
<1> QED
  BY <1>6, <1>8

\* A fallback approves every signal in full: it is valid and vetoes nothing.
LEMMA FallbackApproves ==
    ASSUME signals \in SUBSET Symbols
    PROVE  /\ FallbackReviews \in Seq(Review) /\ Valid(FallbackReviews)
           /\ \A i \in DOMAIN FallbackReviews :
                FallbackReviews[i].action = "approve" /\ FallbackReviews[i].multiplier = 100
<1> DEFINE approvals == {[symbol |-> s, action |-> "approve", multiplier |-> 100] : s \in signals}
           n == Cardinality(approvals)
<1>1. IsFiniteSet(signals)
  BY ReviewAssumption, FS_Subset
<1>2. IsFiniteSet(approvals)
  <2> DEFINE f == [s \in signals |-> [symbol |-> s, action |-> "approve", multiplier |-> 100]]
  <2>1. f \in Surjection(signals, approvals)
    BY DEF Surjection
  <2> HIDE DEF f, approvals
  <2> QED
    BY <1>1, <2>1, FS_Surjection
<1>3. approvals \in SUBSET Review
  BY ReviewAssumption DEF Review, Actions
<1>4. \A r \in approvals : r.action = "approve" /\ r.multiplier = 100
  OBVIOUS
<1>5. n \in Nat
  BY <1>2, FS_CardinalityType
<1>6. FallbackReviews = SetToSeq(approvals)
  BY DEF FallbackReviews
<1> HIDE DEF approvals
<1>7. FallbackReviews \in [1..n -> approvals]
  BY <1>2, <1>6, SetToSeqOrders
<1>8. FallbackReviews \in Seq(Review)
  BY <1>3, <1>5, <1>7
<1>9. \A i \in DOMAIN FallbackReviews :
         FallbackReviews[i].action = "approve" /\ FallbackReviews[i].multiplier = 100
  BY <1>4, <1>7
<1>10. 100 \in 0..100
  OBVIOUS
<1> QED
  BY <1>8, <1>9, <1>10 DEF Valid

\* The review that counts of a symbol is its last one.
LEMMA ReviewOfIsLast ==
    ASSUME NEW reviews \in Seq(Review), NEW s, About(s, reviews) # {}
    PROVE  \E i \in About(s, reviews) :
             /\ \A k \in About(s, reviews) : k <= i
             /\ ReviewOf(s, reviews) = reviews[i]
<1> DEFINE A == About(s, reviews)
           i == CHOOSE i \in A : \A k \in A : k <= i
<1>1. A \in SUBSET (1..Len(reviews)) /\ Len(reviews) \in Nat
  BY DEF About
<1>2. \E x \in A : \A y \in A : y <= x
  BY <1>1, GreatestExists
<1>3. i \in A /\ \A k \in A : k <= i
  BY <1>2
<1>4. ReviewOf(s, reviews) = reviews[i]
  BY DEF ReviewOf
<1> QED
  BY <1>3, <1>4

-----------------------------------------------------------------------------
(* The invariant.                                                          *)

LEMMA InitInv == Init => IInv
<1> SUFFICES ASSUME Init PROVE IInv
  OBVIOUS
<1>1. ~Answered /\ ~fallback /\ pc = "ask"
  BY DEF Init, Answered
<1>2. /\ response \in Seq(Review) /\ DOMAIN response = {}
      /\ audits \in Seq([fallback : BOOLEAN, reviews : Seq(Review)]) /\ Len(audits) = 0
  BY DEF Init, Nothing
<1>3. TypeOK
  <2>1. pc \in Steps /\ signals \in SUBSET Symbols \ {{}} /\ fallback \in BOOLEAN
    BY DEF Init, Steps
  <2>2. decisions \subseteq Review /\ faults \in 0..MaxFaults /\ Len(audits) <= 2
    BY <1>2, ReviewAssumption DEF Init
  <2> QED
    BY <1>1, <1>2, <2>1, <2>2 DEF TypeOK, Valid
<1>4. ReviewInv
  BY <1>1, <1>2 DEF ReviewInv
<1> QED
  BY <1>3, <1>4 DEF IInv

\* What falling back does to the parts about the outcome.
LEMMA FallBackIsValid ==
    ASSUME TypeOK, FallBack, UNCHANGED signals
    PROVE  /\ pc' = "audit" /\ fallback' = TRUE
           /\ response' = FallbackReviews' /\ response' \in Seq(Review) /\ Valid(response)'
<1>1. signals \in SUBSET Symbols
  BY DEF TypeOK
<1>2. response' = FallbackReviews /\ FallbackReviews' = FallbackReviews
  BY DEF FallBack, FallbackReviews
<1>3. FallbackReviews \in Seq(Review) /\ Valid(FallbackReviews)
  BY <1>1, FallbackApproves
<1>4. Valid(response)'
  BY <1>2, <1>3 DEF Valid
<1> QED
  BY <1>2, <1>3, <1>4 DEF FallBack

\* The model answers.
LEMMA AskStep == ASSUME IInv, Ask PROVE IInv'
<1>1. /\ pc = "ask" /\ pc' = "validate" /\ ~fallback
      /\ UNCHANGED <<signals, response, fallback, audits, decisions, kept, faults>>
      /\ TypeOK /\ ReviewInv
  BY DEF Ask, IInv, ReviewInv
<1>2. answer' \in Seq(Review)
  <2>1. answer' \in UNION {[1..m -> Review] : m \in 0..MaxReviews}
    BY DEF Ask, BoundedSeq, SeqOf
  <2>2. PICK m \in 0..MaxReviews : answer' \in [1..m -> Review]
    BY <2>1
  <2>3. m \in Nat
    BY ReviewAssumption
  <2> QED
    BY <2>2, <2>3
<1>3. Answered'
  BY <1>2, NoAnswerAssumption DEF Answered
<1>4. TypeOK'
  BY <1>1, <1>2 DEF TypeOK, Steps, Valid
<1>5. ReviewInv'
  BY <1>1, <1>3 DEF ReviewInv
<1> QED
  BY <1>4, <1>5 DEF IInv

\* A cause to fall back: no answer, an invalid one, or a failing transaction.
LEMMA FallBackStep == ASSUME IInv, AskFails \/ ValidationFails \/ StoreFails PROVE IInv'
<1>1. /\ TypeOK /\ ReviewInv /\ ~fallback /\ FallBack
      /\ UNCHANGED <<signals, answer, audits, decisions, kept>>
      /\ pc \in {"ask", "validate", "audit", "decisions"}
  BY DEF AskFails, ValidationFails, StoreFails, IInv, ReviewInv
<1>2. /\ pc' = "audit" /\ fallback' = TRUE
      /\ response' = FallbackReviews' /\ response' \in Seq(Review) /\ Valid(response)'
  BY <1>1, FallBackIsValid
<1>3. faults \in Nat /\ faults' \in 0..MaxFaults
  BY <1>1, ReviewAssumption DEF AskFails, ValidationFails, StoreFails, TypeOK
<1>4. faults' > 0 \/ ~Answered \/ ~Valid(answer)
  BY <1>1, <1>3 DEF AskFails, ValidationFails, StoreFails, ReviewInv
<1>5. Answered' = Answered /\ Valid(answer)' = Valid(answer)
  BY <1>1 DEF Answered, Valid
<1>6. Len(audits) <= 1 /\ Len(audits) \in Nat
  <2>1. Len(audits) \in Nat
    BY <1>1 DEF TypeOK
  <2> QED
    BY <1>1, <2>1 DEF ReviewInv
<1>7. TypeOK'
  BY <1>1, <1>2, <1>3, <1>5 DEF TypeOK, Steps
<1>8. ReviewInv'
  BY <1>1, <1>2, <1>4, <1>5, <1>6 DEF ReviewInv
<1> QED
  BY <1>7, <1>8 DEF IInv

\* A valid answer becomes the outcome.
LEMMA ValidateStep == ASSUME IInv, Validate PROVE IInv'
<1>1. /\ pc = "validate" /\ pc' = "audit" /\ ~fallback /\ Answered /\ Valid(answer)
      /\ response' = answer
      /\ UNCHANGED <<signals, answer, fallback, audits, decisions, kept, faults>>
      /\ TypeOK /\ ReviewInv
  BY DEF Validate, IInv, ReviewInv
<1>2. Valid(response)' /\ Valid(answer)' /\ Answered'
  BY <1>1 DEF Valid, Answered
<1>3. TypeOK'
  BY <1>1, <1>2 DEF TypeOK, Steps
<1>4. ReviewInv'
  BY <1>1, <1>2 DEF ReviewInv
<1> QED
  BY <1>3, <1>4 DEF IInv

\* The audit row of the outcome is appended.
LEMMA AuditStep == ASSUME IInv, WriteAudit PROVE IInv'
<1> DEFINE Row == [fallback : BOOLEAN, reviews : Seq(Review)]
           row == [fallback |-> fallback, reviews |-> response]
<1>1. /\ pc = "audit" /\ pc' = "decisions" /\ audits' = Append(audits, row)
      /\ UNCHANGED <<signals, answer, response, fallback, decisions, kept, faults>>
      /\ TypeOK /\ ReviewInv
  BY DEF WriteAudit, IInv
<1>2. row \in Row /\ audits \in Seq(Row)
  BY <1>1 DEF TypeOK
<1> HIDE DEF Row, row
<1>3. /\ audits' \in Seq(Row) /\ Len(audits') = Len(audits) + 1
      /\ audits'[Len(audits) + 1] = row /\ Len(audits) \in Nat
  BY <1>1, <1>2, AppendProperties, LenProperties
<1>4. audits' # <<>> /\ Last(audits') = row
  BY <1>3 DEF Last
<1>5. Len(audits') <= (IF fallback THEN 1 ELSE 0) + 1
  BY <1>1, <1>3 DEF ReviewInv
<1>6. Valid(response)' = Valid(response) /\ Valid(answer)' = Valid(answer)
      /\ Answered' = Answered /\ FallbackReviews' = FallbackReviews
  BY <1>1 DEF Valid, Answered, FallbackReviews
<1>7. TypeOK'
  <2>1. Len(audits') <= 2
    BY <1>3, <1>5
  <2> QED
    BY <1>1, <1>3, <1>6, <2>1 DEF TypeOK, Steps, Row
<1>8. ReviewInv'
  BY <1>1, <1>4, <1>5, <1>6 DEF ReviewInv, row
<1> QED
  BY <1>7, <1>8 DEF IInv

\* The decisions are written, applied, or lost together with the fallback.
LEMMA LaterSteps ==
    ASSUME IInv, WriteDecisions \/ Apply \/ FallbackRaises \/ UNCHANGED vars
    PROVE  IInv'
<1>1. /\ UNCHANGED <<signals, answer, response, fallback, audits>>
      /\ TypeOK /\ ReviewInv
  BY DEF WriteDecisions, Apply, FallbackRaises, vars, IInv
<1>2. Valid(response)' = Valid(response) /\ Valid(answer)' = Valid(answer)
      /\ Answered' = Answered /\ FallbackReviews' = FallbackReviews
  BY <1>1 DEF Valid, Answered, FallbackReviews
<1>3. faults' \in 0..MaxFaults
  BY <1>1, ReviewAssumption DEF WriteDecisions, Apply, FallbackRaises, vars, TypeOK
<1>4. decisions' \subseteq Review
  <2>1. ToSet(response) \subseteq Review
    BY <1>1 DEF TypeOK, ToSet
  <2> QED
    BY <1>1, <2>1 DEF WriteDecisions, Apply, FallbackRaises, vars, TypeOK
<1>5. pc' \in Steps
  BY <1>1 DEF WriteDecisions, Apply, FallbackRaises, vars, TypeOK, Steps
<1>6. TypeOK'
  BY <1>1, <1>2, <1>3, <1>4, <1>5 DEF TypeOK
<1>7. CASE WriteDecisions
  <2>1. /\ pc = "decisions" /\ pc' = "apply" /\ decisions' = decisions \cup ToSet(response)
        /\ UNCHANGED <<kept, faults>>
    BY <1>7 DEF WriteDecisions
  <2>2. ReviewInv'
    BY <1>1, <1>2, <2>1 DEF ReviewInv
  <2> QED
    BY <1>6, <2>2 DEF IInv
<1>8. CASE Apply
  <2>1. /\ pc = "apply" /\ pc' = "done" /\ UNCHANGED <<decisions, faults>>
        /\ kept' = [s \in {x \in signals : ~Vetoed(x, response)} |-> Multiplier(s, response)]
    BY <1>8 DEF Apply
  <2>2. kept' = [s \in {x \in signals' : ~Vetoed(x, response)'} |-> Multiplier(s, response)']
    BY <1>1, <2>1 DEF Vetoed, Multiplier, About, ReviewOf
  <2>3. ReviewInv'
    BY <1>1, <1>2, <2>1, <2>2 DEF ReviewInv
  <2> QED
    BY <1>6, <2>3 DEF IInv
<1>9. CASE FallbackRaises
  <2>1. /\ pc \in {"audit", "decisions"} /\ pc' = "raised" /\ fallback
        /\ faults' = faults + 1 /\ UNCHANGED <<decisions, kept>>
    BY <1>9 DEF FallbackRaises
  <2>2. Len(audits) <= 2 /\ Len(audits) \in Nat /\ faults \in Nat
    BY <1>1, ReviewAssumption DEF TypeOK
  <2>3. ReviewInv'
    BY <1>1, <1>2, <2>1, <2>2 DEF ReviewInv
  <2> QED
    BY <1>6, <2>3 DEF IInv
<1>10. CASE UNCHANGED vars
  <2>1. UNCHANGED <<pc, decisions, kept, faults>>
    BY <1>10 DEF vars
  <2>2. \A s : /\ Vetoed(s, response)' = Vetoed(s, response)
               /\ Multiplier(s, response)' = Multiplier(s, response)
    BY <1>1 DEF Vetoed, Multiplier, About, ReviewOf
  <2>3. ReviewInv'
    BY <1>1, <1>2, <2>1, <2>2 DEF ReviewInv
  <2> QED
    BY <1>6, <2>3 DEF IInv
<1> QED
  BY <1>7, <1>8, <1>9, <1>10

\* The inductive invariant holds in every reachable state.
THEOREM Invariance == Spec => []IInv
<1>1. IInv /\ [Next]_vars => IInv'
  BY AskStep, FallBackStep, ValidateStep, AuditStep, LaterSteps DEF Next
<1> QED
  BY InitInv, <1>1, PTL DEF Spec

-----------------------------------------------------------------------------
(* What follows from it.                                                   *)

\* The AI is advisory: for any answer, no signal is added and no size grows.
THEOREM AIIsAdvisory == Spec => []NeverSizesUp
<1>1. IInv => NeverSizesUp
  <2> SUFFICES ASSUME IInv, pc = "done"
               PROVE  /\ DOMAIN kept \subseteq signals
                      /\ \A s \in DOMAIN kept : kept[s] \in 0..100
    BY DEF IInv, NeverSizesUp
  <2>1. /\ response \in Seq(Review) /\ Valid(response)
        /\ kept = [s \in {x \in signals : ~Vetoed(x, response)} |-> Multiplier(s, response)]
    BY DEF IInv, TypeOK, ReviewInv
  <2>2. ASSUME NEW s \in DOMAIN kept PROVE kept[s] \in 0..100
    <3>1. kept[s] = Multiplier(s, response)
      BY <2>1
    <3>2. CASE About(s, response) # {} /\ ReviewOf(s, response).action = "tighten"
      <4>1. PICK i \in About(s, response) : ReviewOf(s, response) = response[i]
        BY <2>1, <3>2, ReviewOfIsLast
      <4>2. response[i].multiplier \in 0..100
        BY <2>1, <4>1 DEF About, Valid
      <4> QED
        BY <3>1, <3>2, <4>1, <4>2 DEF Multiplier
    <3>3. CASE ~(About(s, response) # {} /\ ReviewOf(s, response).action = "tighten")
      <4>1. kept[s] = 100
        BY <3>1, <3>3 DEF Multiplier
      <4> QED
        BY <4>1
    <3> QED
      BY <3>2, <3>3
  <2> QED
    BY <2>1, <2>2
<1> QED
  BY <1>1, Invariance, PTL

\* A signal is dropped by the last word of a valid answer and by nothing else,
\* and only a failing store overrules a veto.
THEOREM VetoesCount == Spec => []VetoCounts
<1>1. IInv => VetoCounts
  <2> SUFFICES ASSUME IInv, pc = "done" PROVE VetoCounts
    BY DEF VetoCounts
  <2> DEFINE last(s) == {i \in DOMAIN answer : answer[i].symbol = s /\
                           \A k \in DOMAIN answer : answer[k].symbol = s => k <= i}
             veto(s) == Answered /\ Valid(answer) /\ \E i \in last(s) : answer[i].action = "veto"
  <2>1. /\ response \in Seq(Review) /\ signals \in SUBSET Symbols
        /\ kept = [s \in {x \in signals : ~Vetoed(x, response)} |-> Multiplier(s, response)]
        /\ fallback => response = FallbackReviews /\ (faults > 0 \/ ~Answered \/ ~Valid(answer))
        /\ ~fallback => Answered /\ Valid(answer) /\ response = answer
    BY DEF IInv, TypeOK, ReviewInv
  <2>2. ASSUME NEW s \in signals \ DOMAIN kept PROVE veto(s)
    <3>1. About(s, response) # {} /\ ReviewOf(s, response).action = "veto"
      BY <2>1 DEF Vetoed
    <3>2. PICK i \in About(s, response) : /\ \A k \in About(s, response) : k <= i
                                          /\ ReviewOf(s, response) = response[i]
      BY <2>1, <3>1, ReviewOfIsLast
    <3>3. response[i].action = "veto" /\ i \in DOMAIN response
      BY <3>1, <3>2 DEF About
    \* A fallback has no veto.
    <3>4. ~fallback
      BY <2>1, <3>3, FallbackApproves
    <3>5. i \in last(s)
      BY <2>1, <3>2, <3>3, <3>4 DEF About
    <3> QED
      BY <2>1, <3>3, <3>4, <3>5
  <2>3. ASSUME NEW s \in DOMAIN kept, veto(s) PROVE fallback /\ faults > 0
    <3>1. PICK i \in last(s) : answer[i].action = "veto"
      BY <2>3
    <3>2. fallback
      <4> SUFFICES ASSUME ~fallback PROVE FALSE
        OBVIOUS
      <4>1. i \in About(s, response) /\ response = answer
        BY <2>1, <3>1 DEF About
      <4>2. PICK k \in About(s, response) : /\ \A j \in About(s, response) : j <= k
                                            /\ ReviewOf(s, response) = response[k]
        BY <2>1, <4>1, ReviewOfIsLast
      <4>3. k = i
        <5>1. k <= i /\ i <= k
          BY <3>1, <4>1, <4>2 DEF About
        <5>2. k \in Nat /\ i \in Nat
          BY <2>1, <4>1, <4>2 DEF About
        <5> QED
          BY <5>1, <5>2
      <4>4. Vetoed(s, response)
        BY <3>1, <4>1, <4>2, <4>3 DEF Vetoed
      <4> QED
        BY <2>1, <4>4
    <3> QED
      BY <2>1, <2>3, <3>2
  <2> QED
    BY <2>2, <2>3 DEF VetoCounts
<1> QED
  BY <1>1, Invariance, PTL

\* What is applied is what the store has recorded, whichever transactions failed.
THEOREM AppliedIsRecorded == Spec => []UsedIsRecorded
<1>1. IInv => UsedIsRecorded
  BY DEF IInv, ReviewInv, UsedIsRecorded
<1> QED
  BY <1>1, Invariance, PTL
=============================================================================
