------------------------------- MODULE AIReview -------------------------------
(***************************************************************************)
(* ai/reviewer.py as run_pre_market_plan uses it: AIReviewer.review asks   *)
(* the model, validates the answer and logs it in two transactions, the    *)
(* audit row and the ai_decisions rows.  Any failure on that way, the      *)
(* store's included, makes it log and return a fallback that approves      *)
(* everything; a failure while logging the fallback leaves review.         *)
(* apply_reviews_to_signals then keeps, drops or shrinks the signals.      *)
(***************************************************************************)
EXTENDS Integers, Sequences, FiniteSets, SequencesExt

CONSTANTS
    Symbols,      \* symbols signals may be about
    Multipliers,  \* size multipliers an answer may carry, in percent
    NoAnswer,     \* no answer of the model
    MaxReviews,   \* bound on the reviews of one answer
    MaxFaults     \* bound on failing transactions of the store

ASSUME ReviewAssumption ==
    /\ IsFiniteSet(Symbols)
    /\ 100 \in Multipliers /\ Multipliers \subseteq Int
    /\ MaxReviews \in Nat /\ MaxFaults \in Nat

VARIABLES
    pc,         \* where review and its caller are
    signals,    \* the symbols of the ranked signals, one signal each
    answer,     \* the reviews of the model's answer, NoAnswer without one
    response,   \* the reviews of the outcome being logged
    fallback,   \* outcome.used_fallback
    audits,     \* the audit rows of this call: event type and reviews
    decisions,  \* the reviews with rows in ai_decisions
    kept,       \* what apply_reviews_to_signals returns: symbol -> multiplier
    faults      \* failed transactions so far

vars == <<pc, signals, answer, response, fallback, audits, decisions, kept, faults>>

Steps == {"ask", "validate", "audit", "decisions", "apply", "done", "raised"}
Actions == {"approve", "veto", "tighten"}
Review == [symbol : Symbols, action : Actions, multiplier : Multipliers]

ASSUME NoAnswerAssumption == NoAnswer \notin Seq(Review)

Nothing == << >>

Init ==
    /\ pc = "ask"
    /\ signals \in SUBSET Symbols \ {{}}
    /\ answer = NoAnswer
    /\ response = Nothing
    /\ fallback = FALSE
    /\ audits = <<>>
    /\ decisions = {}
    /\ kept = <<>>
    /\ faults = 0

-----------------------------------------------------------------------------
(* AIReviewer.review.                                                      *)

\* SignalReview: size_multiplier is between 0 and 1.
Valid(reviews) == \A i \in DOMAIN reviews : reviews[i].multiplier \in 0..100

\* _fallback_response.
FallbackReviews == SetToSeq({[symbol |-> s, action |-> "approve", multiplier |-> 100] : s \in signals})

\* messages.create answers.
Ask ==
    /\ pc = "ask"
    /\ answer' \in BoundedSeq(Review, MaxReviews)
    /\ pc' = "validate"
    /\ UNCHANGED <<signals, response, fallback, audits, decisions, kept, faults>>

\* No key, no network, no tool call in the answer: the except branch.
FallBack ==
    /\ fallback' = TRUE
    /\ response' = FallbackReviews
    /\ pc' = "audit"

AskFails ==
    /\ pc = "ask"
    /\ FallBack
    /\ UNCHANGED <<signals, answer, audits, decisions, kept, faults>>

\* Mutant of Validate: the answer is taken as it is.
ValidateNothing ==
    /\ pc = "validate"
    /\ response' = answer
    /\ pc' = "audit"
    /\ UNCHANGED <<signals, answer, fallback, audits, decisions, kept, faults>>

\* ReviewResponse.model_validate.
Validate ==
    /\ pc = "validate"
    /\ Valid(answer)
    /\ response' = answer
    /\ pc' = "audit"
    /\ UNCHANGED <<signals, answer, fallback, audits, decisions, kept, faults>>

\* Mutant of ValidationFails: the ValidationError leaves review.
ValidationRaises ==
    /\ pc = "validate"
    /\ ~Valid(answer)
    /\ pc' = "raised"
    /\ UNCHANGED <<signals, answer, response, fallback, audits, decisions, kept, faults>>

ValidationFails ==
    /\ pc = "validate"
    /\ ~Valid(answer)
    /\ FallBack
    /\ UNCHANGED <<signals, answer, audits, decisions, kept, faults>>

-----------------------------------------------------------------------------
(* _log, for the outcome in response and fallback.                         *)

\* write_audit, in a transaction of its own.
WriteAudit ==
    /\ pc = "audit"
    /\ audits' = Append(audits, [fallback |-> fallback, reviews |-> response])
    /\ pc' = "decisions"
    /\ UNCHANGED <<signals, answer, response, fallback, decisions, kept, faults>>

\* Mutant of WriteDecisions: only the model's own outcomes are written.
WriteOwnDecisions ==
    /\ pc = "decisions"
    /\ decisions' = IF fallback THEN decisions ELSE decisions \cup ToSet(response)
    /\ pc' = "apply"
    /\ UNCHANGED <<signals, answer, response, fallback, audits, kept, faults>>

\* One AIDecision for each review, all in one transaction.  (The row without a
\* symbol for an outcome without reviews is left out.)
WriteDecisions ==
    /\ pc = "decisions"
    /\ decisions' = decisions \cup ToSet(response)
    /\ pc' = "apply"
    /\ UNCHANGED <<signals, answer, response, fallback, audits, kept, faults>>

\* A transaction fails inside the try: the outcome is dropped for the fallback.
StoreFails ==
    /\ pc \in {"audit", "decisions"}
    /\ ~fallback
    /\ faults < MaxFaults
    /\ faults' = faults + 1
    /\ FallBack
    /\ UNCHANGED <<signals, answer, audits, decisions, kept>>

\* It fails inside the except branch: the exception leaves review and the job.
FallbackRaises ==
    /\ pc \in {"audit", "decisions"}
    /\ fallback
    /\ faults < MaxFaults
    /\ faults' = faults + 1
    /\ pc' = "raised"
    /\ UNCHANGED <<signals, answer, response, fallback, audits, decisions, kept>>

-----------------------------------------------------------------------------
(* apply_reviews_to_signals.                                               *)

\* Reviews of a symbol in an answer; the dict keeps the last.
About(s, reviews) == {i \in DOMAIN reviews : reviews[i].symbol = s}
ReviewOf(s, reviews) == reviews[CHOOSE i \in About(s, reviews) : \A k \in About(s, reviews) : k <= i]

\* The multiplier a kept signal gets.
Multiplier(s, reviews) ==
    IF About(s, reviews) # {} /\ ReviewOf(s, reviews).action = "tighten"
    THEN ReviewOf(s, reviews).multiplier
    ELSE 100

\* Mutant of Vetoed: only the first review of a symbol is looked at.
VetoedFirst(s, reviews) ==
    /\ About(s, reviews) # {}
    /\ \E i \in About(s, reviews) :
         /\ \A k \in About(s, reviews) : i <= k
         /\ reviews[i].action = "veto"

Vetoed(s, reviews) == About(s, reviews) # {} /\ ReviewOf(s, reviews).action = "veto"

Apply ==
    /\ pc = "apply"
    /\ kept' = [s \in {x \in signals : ~Vetoed(x, response)} |-> Multiplier(s, response)]
    /\ pc' = "done"
    /\ UNCHANGED <<signals, answer, response, fallback, audits, decisions, faults>>

-----------------------------------------------------------------------------

Next ==
    \/ Ask
    \/ AskFails
    \/ Validate
    \/ ValidationFails
    \/ WriteAudit
    \/ WriteDecisions
    \/ StoreFails
    \/ FallbackRaises
    \/ Apply

Spec == Init /\ [][Next]_vars

FairSpec == Spec /\ WF_vars(Next)

-----------------------------------------------------------------------------
(* Properties.                                                             *)

Answered == answer # NoAnswer

\* Every variable has its type; what is applied has passed validation.
TypeOK ==
    /\ pc \in Steps
    /\ signals \in SUBSET Symbols \ {{}}
    /\ Answered => answer \in Seq(Review)
    /\ response \in Seq(Review) /\ Valid(response)
    /\ fallback \in BOOLEAN
    /\ decisions \subseteq Review
    /\ audits \in Seq([fallback : BOOLEAN, reviews : Seq(Review)]) /\ Len(audits) <= 2
    /\ faults \in 0..MaxFaults

\* The AI is advisory: whatever the model answers, no signal is added and no
\* size grows; the reviews of symbols that were not proposed do nothing.
NeverSizesUp ==
    /\ TypeOK
    /\ pc = "done" => /\ DOMAIN kept \subseteq signals
                      /\ \A s \in DOMAIN kept : kept[s] \in 0..100

\* A signal is dropped only by a veto of the model that is the last word of a
\* valid answer about it, and such a veto is overruled by nothing but a failure
\* of the store.
VetoCounts ==
    pc = "done" =>
        LET last(s) == {i \in DOMAIN answer : answer[i].symbol = s /\
                          \A k \in DOMAIN answer : answer[k].symbol = s => k <= i}
            veto(s) == Answered /\ Valid(answer) /\ \E i \in last(s) : answer[i].action = "veto"
        IN  /\ \A s \in signals \ DOMAIN kept : veto(s)
            /\ \A s \in DOMAIN kept : veto(s) => fallback /\ faults > 0

\* What is applied is what was recorded: the last audit row of the call names
\* the outcome used and the store has the decision of every review in it.
UsedIsRecorded ==
    pc \in {"apply", "done"} =>
        /\ audits # <<>> /\ Last(audits) = [fallback |-> fallback, reviews |-> response]
        /\ ToSet(response) \subseteq decisions

\* What makes them inductive: an outcome is the valid answer or a fallback with a
\* cause, each outcome that reached the audit left one row, and from then on the
\* last row is the outcome's.
ReviewInv ==
    /\ pc = "ask" => ~Answered /\ ~fallback
    /\ pc = "validate" => Answered /\ ~fallback
    /\ fallback => /\ response = FallbackReviews
                   /\ faults > 0 \/ ~Answered \/ ~Valid(answer)
    /\ pc \in {"audit", "decisions", "apply", "done"} /\ ~fallback
         => Answered /\ Valid(answer) /\ response = answer
    /\ pc = "raised" => fallback
    /\ Len(audits) <= (IF fallback THEN 1 ELSE 0)
                      + (IF pc \in {"ask", "validate", "audit"} THEN 0 ELSE 1)
    /\ pc \in {"decisions", "apply", "done"}
         => audits # <<>> /\ Last(audits) = [fallback |-> fallback, reviews |-> response]
    /\ pc \in {"apply", "done"} => ToSet(response) \subseteq decisions
    /\ pc = "done"
         => kept = [s \in {x \in signals : ~Vetoed(x, response)} |-> Multiplier(s, response)]

\* The inductive invariant.
IInv == TypeOK /\ ReviewInv

\* The job goes on to place orders unless the store fails.
ReviewReturns == <>(pc = "done" \/ faults > 0)
=============================================================================
