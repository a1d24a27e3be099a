----------------------------- MODULE MCTraffic -----------------------------
(***************************************************************************)
(* Instances of Traffic for TLC.                                           *)
(***************************************************************************)
EXTENDS Traffic, TLC

CONSTANTS w1, red

\* The last unit of a single variant: every placement contends for it.
StockLast == <<w1, red>> :> [pk |-> 1, qty |-> 1]
=============================================================================
