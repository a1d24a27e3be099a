---------------------------- MODULE MCBackOffice ----------------------------
(***************************************************************************)
(* Instances of BackOffice for TLC: one variant in one warehouse.          *)
(***************************************************************************)
EXTENDS BackOffice, TLC

CONSTANTS w1, red

StockOneVariant == <<w1, red>> :> [pk |-> 1, qty |-> 1]

Symmetry == Permutations(Workers) \cup Permutations(Orders)
=============================================================================
