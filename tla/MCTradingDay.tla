----------------------------- MODULE MCTradingDay -----------------------------
(* A stock and a leveraged ETF; a cfg picks the symbols it trades.            *)
EXTENDS TradingDay, TLC

CONSTANTS aapl, tqqq

Signal(symbol, entry, stop, target) ==
    [symbol |-> symbol, entry |-> entry, stop |-> stop, target |-> target]

\* Setups that the same prices treat differently.
Stock == {Signal(aapl, 10, 8, 13), Signal(aapl, 12, 10, 14)}
Etf == {Signal(tqqq, 10, 8, 13)}
StockAndEtf == Stock \cup Etf
=============================================================================
