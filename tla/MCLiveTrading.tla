---------------------------- MODULE MCLiveTrading ----------------------------
(***************************************************************************)
(* A small instance of LiveTrading for TLC.                                 *)
(***************************************************************************)
EXTENDS LiveTrading

CONSTANTS s1, paper, kite, r1, r2

MCStrategies == {s1}
MCBrokers == {paper, kite}
MCRequests == {r1, r2}
=============================================================================
