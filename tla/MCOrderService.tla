--------------------------- MODULE MCOrderService ---------------------------
(***************************************************************************)
(* Instances of OrderService for TLC: one warehouse and two variants,      *)
(* enough for two requests to need overlapping rows.                       *)
(***************************************************************************)
EXTENDS OrderService, TLC

CONSTANTS w1, red, blue

\* Two units of red, one of blue: two orders for both cannot both succeed.
StockScarce ==
  (<<w1, red>> :> [pk |-> 2, qty |-> 2]) @@ (<<w1, blue>> :> [pk |-> 1, qty |-> 1])

\* Enough of both for two orders that want one of each.
StockEnough ==
  (<<w1, red>> :> [pk |-> 2, qty |-> 2]) @@ (<<w1, blue>> :> [pk |-> 1, qty |-> 2])

Symmetry == Permutations(Workers) \cup Permutations(Orders)
=============================================================================
