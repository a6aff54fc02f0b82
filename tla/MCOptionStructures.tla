-------------------------- MODULE MCOptionStructures --------------------------
(* The five strikes around the money of tests/options_fixtures.py, any of     *)
(* whose contracts may be missing; two wings with a dear or a wide quote; a   *)
(* next expiry with two calls.                                                *)
EXTENDS OptionStructures

Q(at, strike, right, bid, ask, delta) ==
    [expiry |-> at, strike |-> strike, right |-> right, bid |-> bid, ask |-> ask,
     open_interest |-> 500, delta |-> delta]

Puts == {Q(1, 9000, "P", 98, 102, -20), Q(1, 9500, "P", 248, 253, -35),
         Q(1, 10000, "P", 498, 502, -50), Q(1, 10500, "P", 748, 752, -65)}
Calls == {Q(1, 9500, "C", 748, 752, 65), Q(1, 10000, "C", 498, 502, 50),
          Q(1, 10500, "C", 248, 253, 35), Q(1, 11000, "C", 98, 102, 20)}
Skewed == {Q(1, 9000, "P", 285, 295, -20), Q(1, 11000, "C", 280, 300, 20)}
Far == {Q(2, 10000, "C", 548, 552, 50), Q(2, 10500, "C", 298, 302, 35)}

MCChains ==
    {quotes \in SUBSET (Puts \cup Calls \cup Skewed \cup Far) \ {{}} :
        \A q, r \in quotes : Contract(q) = Contract(r) => q = r}
=============================================================================
