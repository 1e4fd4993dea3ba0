------------------------------ MODULE Positions ------------------------------
(***************************************************************************)
(* Position arithmetic.  The order service and the paper broker keep the   *)
(* net position of a symbol as a side and an unsigned quantity, and each    *)
(* has its own code for applying a fill to it.  Prices and P&L are left     *)
(* out: nothing here depends on them.                                       *)
(***************************************************************************)
EXTENDS Integers

Sides == {"BUY", "SELL"}

\* PositionSide, and "NONE" for a symbol the repository has no row for.
PositionSides == {"NONE", "LONG", "SHORT", "FLAT"}

Position == [side : PositionSides, qty : Nat]

NoPosition == [side |-> "NONE", qty |-> 0]

Holding(side, qty) == [side |-> side, qty |-> qty]

\* The direction a fill of this side opens.
Direction(side) == IF side = "BUY" THEN "LONG" ELSE "SHORT"

-----------------------------------------------------------------------------
(* OrderManagementService._update_position_from_fill                        *)

\* Mutant: an opposite fill larger than the position leaves its side.
ApplyFillWithoutFlip(p, side, qty) ==
  CASE p.side = "NONE"          -> Holding(Direction(side), qty)
    [] p.side = Direction(side) -> Holding(p.side, p.qty + qty)
    [] p.qty > qty              -> Holding(p.side, p.qty - qty)
    [] p.qty = qty              -> Holding("FLAT", 0)
    [] OTHER                    -> Holding(p.side, qty - p.qty)

ApplyFill(p, side, qty) ==
  CASE p.side = "NONE"          -> Holding(Direction(side), qty)
    [] p.side = Direction(side) -> Holding(p.side, p.qty + qty)
    [] OTHER ->
         CASE p.qty > qty -> Holding(p.side, p.qty - qty)
           [] p.qty = qty -> Holding("FLAT", 0)
           [] OTHER       -> Holding(Direction(side), qty - p.qty)

(* PaperBrokerAdapter.place_order, its "update or create position" part.    *)

\* Mutant: an opposite fill of at least the position flattens it.
PaperFillFlattening(p, side, qty) ==
  CASE p.side = "NONE"          -> Holding(Direction(side), qty)
    [] p.side = Direction(side) -> Holding(p.side, p.qty + qty)
    [] qty >= p.qty             -> Holding("FLAT", 0)
    [] OTHER                    -> Holding(p.side, p.qty - qty)

PaperFill(p, side, qty) ==
  CASE p.side = "NONE"          -> Holding(Direction(side), qty)
    [] p.side = Direction(side) -> Holding(p.side, p.qty + qty)
    [] OTHER ->
         CASE qty = p.qty -> Holding("FLAT", 0)
           [] qty > p.qty -> Holding(Direction(side), qty - p.qty)
           [] OTHER       -> Holding(p.side, p.qty - qty)

-----------------------------------------------------------------------------
(* What the two are supposed to compute: the net quantity, with its sign.   *)

Sign(side) == IF side = "BUY" THEN 1 ELSE -1

Signed(p) == CASE p.side = "LONG"  -> p.qty
               [] p.side = "SHORT" -> -p.qty
               [] OTHER            -> 0

\* Only an open position has a quantity.
WellFormed(p) ==
  /\ p \in Position
  /\ (p.qty = 0) <=> (p.side \in {"NONE", "FLAT"})
=============================================================================
