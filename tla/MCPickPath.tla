----------------------------- MODULE MCPickPath -----------------------------
(***************************************************************************)
(* Instances of PickPath for TLC: items on a grid at the depot's corner.   *)
(***************************************************************************)
EXTENDS PickPath

CONSTANTS MaxX, MaxY, MaxItems

Grid == (0..MaxX) \X (0..MaxY)
NoWhere == <<-1, -1>>
Numbers == 1..MaxItems

\* The answer does not depend on which item is where, so the items are placed in
\* the order of their bins: one placement of each multiset of bins.
SortedPlacements ==
  {f \in [Numbers -> Grid \cup {NoWhere}] :
     \A i \in 1..(MaxItems - 1) :
       f[i][1] < f[i + 1][1] \/ (f[i][1] = f[i + 1][1] /\ f[i][2] <= f[i + 1][2])}
=============================================================================
