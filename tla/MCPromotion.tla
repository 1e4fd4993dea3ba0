----------------------------- MODULE MCPromotion -----------------------------
(***************************************************************************)
(* A small instance of Promotion for TLC.                                   *)
(***************************************************************************)
EXTENDS Promotion, TLC

CONSTANTS s1, s2, p1, p2

MCStrategies == {s1, s2}
MCPaperSessions == {p1, p2}
MCSymmetry == Permutations(MCStrategies) \cup Permutations(MCPaperSessions)
=============================================================================
