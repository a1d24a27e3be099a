-------------------------------- MODULE Tour --------------------------------
(***************************************************************************)
(* Tours through warehouse bins: the arithmetic that both pick-path        *)
(* engines share (pickpath/reference.py, pickpath-native/src/main.cpp).    *)
(*                                                                         *)
(* bins is a sequence of points and route a sequence of indices into it;   *)
(* indices start at 1 here and at 0 in the code.  A tour starts and ends   *)
(* at the depot.  Coordinates are small, so 64-bit sums do not overflow.   *)
(***************************************************************************)
EXTENDS Integers, Sequences, FiniteSets, Functions, FiniteSetsExt

Depot == <<0, 0>>

Abs(n) == IF n < 0 THEN -n ELSE n

manhattan(a, b) == Abs(a[1] - b[1]) + Abs(a[2] - b[2])

\* Where stop p of the route is; the depot comes before the first and after the last.
Stop(bins, route, p) == IF p \in 1..Len(route) THEN bins[route[p]] ELSE Depot

route_distance(bins, route) ==
  SumFunctionOnSet(
    [p \in 0..Len(route) |-> manhattan(Stop(bins, route, p), Stop(bins, route, p + 1))],
    0..Len(route))

\* Mutant: the leg before the segment is not counted.
ShorterLastLeg(bins, route, i, j) ==
  manhattan(Stop(bins, route, i), Stop(bins, route, j + 1))
    < manhattan(Stop(bins, route, j), Stop(bins, route, j + 1))

\* Mutant: a reversal that changes nothing counts as an improvement.
NotLonger(bins, route, i, j) ==
  manhattan(Stop(bins, route, i - 1), Stop(bins, route, j))
    + manhattan(Stop(bins, route, i), Stop(bins, route, j + 1))
  <= manhattan(Stop(bins, route, i - 1), Stop(bins, route, i))
    + manhattan(Stop(bins, route, j), Stop(bins, route, j + 1))

\* Reversing stops i..j makes its two boundary legs shorter.
Shorter(bins, route, i, j) ==
  manhattan(Stop(bins, route, i - 1), Stop(bins, route, j))
    + manhattan(Stop(bins, route, i), Stop(bins, route, j + 1))
  < manhattan(Stop(bins, route, i - 1), Stop(bins, route, i))
    + manhattan(Stop(bins, route, j), Stop(bins, route, j + 1))

\* Mutant: the reversed slice is one stop short of the slice it replaces.
ReversedShort(route, i, j) ==
  [p \in 1..Len(route) |-> IF p \in i..j THEN route[i + j - (IF p = i THEN p + 1 ELSE p)] ELSE route[p]]

\* The route with stops i..j in the opposite order.
Reversed(route, i, j) ==
  [p \in 1..Len(route) |-> IF p \in i..j THEN route[i + j - p] ELSE route[p]]

Pairs(route) == {p \in (1..Len(route)) \X (1..Len(route)) : p[1] < p[2]}

\* Mutant: the way back to the depot is not part of the tour.
held_karp_open(bins) ==
  LET All == 1..Len(bins)
      dp[S \in SUBSET All] ==
        [l \in S |-> IF S = {l} THEN manhattan(Depot, bins[l])
                     ELSE Min({dp[S \ {l}][k] + manhattan(bins[k], bins[l]) : k \in S \ {l}})]
  IN IF bins = <<>> THEN 0 ELSE Min({dp[All][l] : l \in All})

\* The optimal length by dynamic programming: dp[S][l] is the shortest way from the
\* depot through S that ends in l.
held_karp_exact(bins) ==
  LET All == 1..Len(bins)
      dp[S \in SUBSET All] ==
        [l \in S |-> IF S = {l} THEN manhattan(Depot, bins[l])
                     ELSE Min({dp[S \ {l}][k] + manhattan(bins[k], bins[l]) : k \in S \ {l}})]
  IN IF bins = <<>> THEN 0 ELSE Min({dp[All][l] + manhattan(bins[l], Depot) : l \in All})
=============================================================================
