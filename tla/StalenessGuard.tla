---------------------------- MODULE StalenessGuard ----------------------------
(***************************************************************************)
(* What the pre-trade guard knows of a symbol, and how that may change: a   *)
(* tick makes it fresh, or stale when the tick is late; time makes a fresh   *)
(* symbol stale, and only a tick makes a stale one fresh; a symbol is never  *)
(* forgotten.  OrderManagement uses the market data through this view.       *)
(***************************************************************************)
EXTENDS Naturals

VARIABLES
  view,   \* none, fresh or stale
  ticks   \* ticks received

vars == <<view, ticks>>

Init == view = "none" /\ ticks = 0

Arrives ==
  /\ ticks' = ticks + 1
  /\ view' \in {"fresh", "stale"}

Ages ==
  /\ view = "fresh"
  /\ view' = "stale"
  /\ UNCHANGED ticks

Next == Arrives \/ Ages

Spec == Init /\ [][Next]_vars
=============================================================================
