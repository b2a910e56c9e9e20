---------------------------- MODULE MCMarketData ----------------------------
(* A stream of three messages, of which one goes on at the beginning of    *)
(* the buffer.                                                             *)
EXTENDS MarketData

MCStream == <<"X", "E", "X">>
MCSizeOf == [t \in {"X", "E"} |-> IF t = "X" THEN 3 ELSE 2]
=============================================================================
