---------------------------- MODULE MCEquitySignals ----------------------------
(* Windows of two to four bars.  The bars drift, gap, break out on volume,    *)
(* stand still, have no volume, fall and bounce.                              *)
EXTENDS EquitySignals

Bar(open, low, high, close, volume) ==
    [open |-> open, high |-> high, low |-> low, close |-> close, volume |-> volume]

MCBars ==
    {Bar(1000, 1000, 1000, 1000, 10), \* stands still
     Bar(1000, 1000, 1000, 1000, 0),  \* without a trade
     Bar(990, 985, 1000, 995, 10),    \* drifts
     Bar(1030, 1025, 1040, 1030, 20), \* gaps up and holds
     Bar(1000, 998, 1050, 1045, 40),  \* breaks out on volume
     Bar(980, 900, 980, 905, 10),     \* falls
     Bar(905, 900, 940, 930, 10)}     \* bounces

\* Those of a cheap symbol.
CheapBars == {Bar(10, 2, 30, 12, 10), Bar(2, 1, 30, 8, 20)}
=============================================================================
