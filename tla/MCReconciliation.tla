--------------------------- MODULE MCReconciliation ---------------------------
(* A small instance of Reconciliation for TLC.                              *)
EXTENDS Reconciliation, TLC

\* On paper any orders of 1 and 2; at the simulated brokers one account buys
\* and the other sells.
SmallOrders ==
  [acct : Accounts, sym : Symbols, broker : {"paper"}, side : Sides, qty : {1, 2}]
  \cup [acct : {TrialAccount}, sym : Symbols, broker : Simulated, side : {"BUY"}, qty : {2}]
  \cup [acct : Accounts \ {TrialAccount}, sym : Symbols, broker : Simulated,
        side : {"SELL"}, qty : {1}]

\* The exchange comes to hold a short position, which the adapter turns into
\* a side and a size.
SmallSizes == {-1}

\* The accounts are not symmetric: one of them is the audit's.
Symmetry == Permutations(Simulated)
=============================================================================
