------------------------------- MODULE MCReplay -------------------------------
(* Two symbols, one of which two strategies propose on the same date.         *)
EXTENDS Replay

CONSTANTS aapl, msft

Signal(symbol, entry, stop, target) ==
    [symbol |-> symbol, entry |-> entry, stop |-> stop, target |-> target]

MCSignals == {Signal(aapl, 10, 8, 13), Signal(aapl, 12, 10, 14), Signal(msft, 10, 8, 13),
              Signal(msft, 70, 60, 80)}

Bar(low, close, high) == [low |-> low, high |-> high, close |-> close]

\* A bar that reaches the stops, one that reaches the targets, one that reaches
\* both, one that reaches neither.
MCBars == {Bar(7, 9, 11), Bar(11, 12, 15), Bar(7, 12, 15), Bar(11, 11, 12)}
=============================================================================
