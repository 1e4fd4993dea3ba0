----------------------------- MODULE PreTradeRisk -----------------------------
(***************************************************************************)
(* SynchronousRiskEngine.evaluate_order as a predicate of its inputs: the   *)
(* request, the kill switch, the limits, the number of evaluations counted  *)
(* in the last second and the open orders of the request's account.         *)
(*                                                                          *)
(* The daily-loss and drawdown checks are left out: the only caller passes  *)
(* the constant 0.0 for both, and the limits are at least 0.1, so neither   *)
(* can fail.  Open orders are given as a set of records [sym, side, price,  *)
(* id]; a price of 0 stands for None, which the engine treats alike.        *)
(***************************************************************************)
EXTENDS Integers, FiniteSets

CONSTANTS
  MktPrice,     \* last price of the tick feed, one for all symbols
  NotionalCap   \* max_position_size_percent of the capital

ASSUME NotionalAssumption == MktPrice \in Nat /\ NotionalCap \in Nat

Levels == {"GLOBAL", "ACCOUNT", "STRATEGY", "SYMBOL"}

\* Does the active kill switch halt this request?
Halts(ks, r) ==
  /\ ks.active
  /\ \/ ks.level = "GLOBAL"
     \/ ks.level = "ACCOUNT"  /\ ks.target = r.acct
     \/ ks.level = "STRATEGY" /\ ks.target = r.strategy
     \/ ks.level = "SYMBOL"   /\ ks.target = r.sym

UnitPrice(r) == IF r.price > 0 THEN r.price ELSE MktPrice

WithinNotional(r) == r.qty * UnitPrice(r) <= NotionalCap

\* Mutant: the comparison of the two prices is the wrong way round.
CrossesReversed(r, o) ==
  /\ o.sym = r.sym /\ o.side # r.side
  /\ r.price > 0 /\ o.price > 0
  /\ IF r.side = "BUY" THEN r.price <= o.price ELSE r.price >= o.price

\* A resting order of the other side, priced so that the two would trade.
Crosses(r, o) ==
  /\ o.sym = r.sym /\ o.side # r.side
  /\ r.price > 0 /\ o.price > 0
  /\ IF r.side = "BUY" THEN r.price >= o.price ELSE r.price <= o.price

\* Mutant: the cap is off by one.
WithinOpenCap(limits, r, open) ==
  Cardinality({o \in open : o.sym = r.sym}) <= limits.maxOpen

BelowOpenCap(limits, r, open) ==
  Cardinality({o \in open : o.sym = r.sym}) < limits.maxOpen

BelowRate(limits, window) == window < limits.maxRate

RiskAllows(ks, limits, window, open, r) ==
  /\ ~Halts(ks, r)
  /\ BelowRate(limits, window)
  /\ WithinNotional(r)
  /\ limits.stp => \A o \in open : ~Crosses(r, o)
  /\ BelowOpenCap(limits, r, open)

\* The evaluations counted in the last second, after this one.  A halted
\* request returns before the limiter; every other one is counted, also when
\* a later check rejects it.
CountEvaluation(ks, limits, window, r) ==
  IF ~Halts(ks, r) /\ BelowRate(limits, window) THEN window + 1 ELSE window
=============================================================================
