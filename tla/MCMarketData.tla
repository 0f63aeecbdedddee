---------------------------- MODULE MCMarketData ----------------------------
(* TLC instances of MarketData. *)
EXTENDS MarketData
CONSTANTS eth, btc, bid, ask

\* One book changes, the other, if there, shares its connection and its health.
MCUpdates == [s \in Symbols |-> IF s = eth THEN 3 ELSE 0]
=============================================================================
