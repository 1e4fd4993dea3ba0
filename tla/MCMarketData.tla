---------------------------- MODULE MCMarketData ----------------------------
(***************************************************************************)
(* A small instance of MarketData for TLC: a coarse timeframe twice as long *)
(* as the fine one.                                                         *)
(***************************************************************************)
EXTENDS MarketData

MCTimeframes == {"fine", "coarse"}
MCWidth == [tf \in MCTimeframes |-> IF tf = "fine" THEN 2 ELSE 4]
MCQuotes == {[price |-> 1, qty |-> 1], [price |-> 2, qty |-> 3]}
=============================================================================
