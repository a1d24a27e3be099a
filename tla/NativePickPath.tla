--------------------------- MODULE NativePickPath ---------------------------
(***************************************************************************)
(* The C++ engine (pickpath-native/src/main.cpp): nearest neighbour from   *)
(* the depot, then single improvements until there is none.  The state is  *)
(* that of one call to optimize.                                           *)
(***************************************************************************)
EXTENDS Tour

CONSTANT Points  \* where a bin can be

VARIABLES
  bins,   \* Seq(Points): the argument
  route,  \* the sequence built so far
  phase   \* "idle", "greedy", "improve" or "done"

vars == <<bins, route, phase>>

Init == bins = <<>> /\ route = <<>> /\ phase = "idle"

Unvisited == (1..Len(bins)) \ {route[p] : p \in 1..Len(route)}

\* Where the walk stands: at its last stop, or at the depot.
Here == Stop(bins, route, Len(route))

Call ==
  /\ phase = "idle"
  /\ bins' \in Seq(Points)
  /\ phase' = "greedy"
  /\ UNCHANGED route

\* nearest_neighbor: an ascending scan keeps the first of the nearest bins.
best[i \in Nat] ==
  IF i = 0 THEN 0
  ELSE LET b == best[i - 1] IN
       IF i \in Unvisited /\ (b = 0 \/ manhattan(Here, bins[i]) < manhattan(Here, bins[b]))
       THEN i ELSE b

Visit ==
  /\ phase = "greedy" /\ Unvisited # {}
  /\ route' = Append(route, best[Len(bins)])
  /\ UNCHANGED <<bins, phase>>

Visited ==
  /\ phase = "greedy" /\ Unvisited = {}
  /\ phase' = "improve"
  /\ UNCHANGED <<bins, route>>

Improving == {p \in Pairs(route) : Shorter(bins, route, p[1], p[2])}

\* two_opt_single_improvement: the first improving pair of the scan.
FirstImproving ==
  CHOOSE p \in Improving : \A q \in Improving : p[1] < q[1] \/ (p[1] = q[1] /\ p[2] <= q[2])

Improve ==
  /\ phase = "improve" /\ Improving # {}
  /\ route' = Reversed(route, FirstImproving[1], FirstImproving[2])
  /\ UNCHANGED <<bins, phase>>

Return ==
  /\ phase = "improve" /\ Improving = {}
  /\ phase' = "done"
  /\ UNCHANGED <<bins, route>>

Work == Visit \/ Visited \/ Improve \/ Return

Spec == Init /\ [][Call \/ Work]_vars
=============================================================================
