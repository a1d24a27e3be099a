------------------------------ MODULE PickPath ------------------------------
(***************************************************************************)
(* GET /api/orders/<id>/pick-path (orders/views.py) and the engine that    *)
(* optimize_route chooses for it: the C++ engine (NativePickPath) or the   *)
(* Python one (pickpath/reference.py), whose scan is modelled here pair by *)
(* pair.                                                                   *)
(***************************************************************************)
EXTENDS Tour, SequencesExt

CONSTANTS
  Items,      \* the order's items
  Points,     \* where a bin can be
  NoBin,      \* of an item whose stock row is gone
  Placements  \* the functions [Items -> Points or NoBin] to start from

ASSUME ItemsAssumption == IsFiniteSet(Items)
ASSUME PointsAssumption == Points \subseteq Nat \X Nat
ASSUME PlacementsAssumption == Placements \subseteq [Items -> Points \cup {NoBin}]
ASSUME NoBinAssumption == NoBin \notin Points

VARIABLES
  where,      \* [Items -> Points or NoBin]: the bins of the items' stock rows
  asked,      \* the engine parameter of the request
  installed,  \* whether pickpath_native can be imported
  refused,    \* the request was answered with 400
  scan,       \* <<i, j>> of _two_opt's loops
  bins, route, phase  \* of the engine, see NativePickPath

request == <<where, asked, installed>>
vars == <<request, refused, scan, bins, route, phase>>

Native == INSTANCE NativePickPath

Init ==
  /\ where \in Placements
  /\ asked \in {"auto", "python", "native"}
  /\ installed \in BOOLEAN
  /\ refused = FALSE /\ scan = <<1, 2>>
  /\ Native!Init

\* Which engine optimize_route uses.
Engine == IF asked # "auto" THEN asked ELSE IF installed THEN "native" ELSE "python"

Refuse ==
  /\ phase = "idle" /\ ~refused
  /\ asked = "native" /\ ~installed
  /\ refused' = TRUE
  /\ UNCHANGED <<request, scan, bins, route, phase>>

\* Mutant: one bin per item, also when two items share it.
BinListPerItem ==
  LET located == SelectSeq(SetToSeq(Items), LAMBDA i : where[i] # NoBin)
  IN [p \in 1..Len(located) |-> where[located[p]]]

\* The keys of the dict bins: every bin with something to pick, once.
Located == {where[i] : i \in Items} \ {NoBin}

\* How tuples compare.
Before(a, b) == a[1] < b[1] \/ (a[1] = b[1] /\ a[2] < b[2])

\* sorted(bins): the bin that p - 1 others come before is in place p.
BinList ==
  [p \in 1..Cardinality(Located) |->
     CHOOSE b \in Located : Cardinality({a \in Located : Before(a, b)}) = p - 1]

Start ==
  /\ ~refused /\ ~(asked = "native" /\ ~installed)
  /\ bins' = BinList
  /\ Native!Call
  /\ UNCHANGED <<request, refused, scan>>

RunNative ==
  /\ Engine = "native"
  /\ Native!Work
  /\ UNCHANGED <<request, refused, scan>>

-----------------------------------------------------------------------------
(* The Python engine.                                                      *)

DistanceTo(i) == manhattan(Native!Here, bins[i])

\* Mutant: ties go to the highest index.
NearestLast ==
  CHOOSE i \in Native!Unvisited : \A j \in Native!Unvisited :
    DistanceTo(i) < DistanceTo(j) \/ (DistanceTo(i) = DistanceTo(j) /\ i >= j)

\* min(unvisited, key=lambda i: (manhattan(current, bins[i]), i))
Nearest ==
  CHOOSE i \in Native!Unvisited : \A j \in Native!Unvisited :
    DistanceTo(i) < DistanceTo(j) \/ (DistanceTo(i) = DistanceTo(j) /\ i <= j)

VisitNearest ==
  /\ phase = "greedy" /\ Native!Unvisited # {}
  /\ route' = Append(route, Nearest)
  /\ UNCHANGED <<request, refused, scan, bins, phase>>

BeginTwoOpt ==
  /\ phase = "greedy" /\ Native!Unvisited = {}
  /\ phase' = "improve"
  /\ UNCHANGED <<request, refused, scan, bins, route>>

Scanning == phase = "improve" /\ scan[1] < Len(route)

\* Mutant: the inner loop leaves out the last stop.
NextPairShort ==
  IF scan[2] < Len(route) - 1 THEN <<scan[1], scan[2] + 1>> ELSE <<scan[1] + 1, scan[1] + 2>>

NextPair ==
  IF scan[2] < Len(route) THEN <<scan[1], scan[2] + 1>> ELSE <<scan[1] + 1, scan[1] + 2>>

Keep ==
  /\ Scanning
  /\ ~Shorter(bins, route, scan[1], scan[2])
  /\ scan' = NextPair
  /\ UNCHANGED <<request, refused, bins, route, phase>>

\* An improvement is applied and the scan starts again.
Swap ==
  /\ Scanning
  /\ Shorter(bins, route, scan[1], scan[2])
  /\ route' = Reversed(route, scan[1], scan[2])
  /\ scan' = <<1, 2>>
  /\ UNCHANGED <<request, refused, bins, phase>>

Finish ==
  /\ phase = "improve" /\ ~Scanning
  /\ phase' = "done"
  /\ UNCHANGED <<request, refused, scan, bins, route>>

RunPython ==
  /\ Engine = "python"
  /\ VisitNearest \/ BeginTwoOpt \/ Keep \/ Swap \/ Finish

Next == Refuse \/ Start \/ RunNative \/ RunPython

\* The view and both engines are straight-line code: they go on until they return.
Spec == Init /\ [][Next]_vars /\ WF_vars(Next)

-----------------------------------------------------------------------------
(* Properties.                                                             *)

\* The stops of the answer: a bin and what is picked there.
Stops == [p \in 1..Len(route) |->
            [bin |-> bins[route[p]], items |-> {i \in Items : where[i] = bins[route[p]]}]]

\* Every item of the order is picked at exactly one stop, which is its bin, or is
\* reported as unlocated; and the picker is never sent to a bin for nothing.
EveryItemOnce ==
  phase = "done" =>
    /\ \A i \in Items : where[i] # NoBin =>
         Cardinality({p \in 1..Len(route) : i \in Stops[p].items}) = 1
    /\ \A p \in 1..Len(route) : Stops[p].items # {}

\* A swap shortens the whole tour: what the code computes from two legs is the
\* difference of two route_distance values, at the depot's ends too.
SwapsShorten ==
  [][phase = "improve" /\ route' # route =>
       route_distance(bins, route') < route_distance(bins, route)]_vars

\* The answer is 2-optimal: whichever stretch of it is walked backwards instead, the
\* tour does not get shorter.
TwoOptimal ==
  phase = "done" =>
    \A p \in Pairs(route) :
      route_distance(bins, route) <= route_distance(bins, Reversed(route, p[1], p[2]))

\* The test oracle is exact, so that the heuristic is measured against the optimum:
\* no order of the bins is shorter, and one is as short.
OracleIsExact ==
  phase = "done" =>
    LET orders == {[p \in 1..Len(bins) |-> f[p]] : f \in Bijection(1..Len(bins), 1..Len(bins))}
    IN held_karp_exact(bins) = Min({route_distance(bins, r) : r \in orders})

\* reference.py: both engines follow the same algorithm and return the same route.
\* The C++ engine is deterministic, and the Python one takes its steps.
EnginesAgree == Native!Spec

\* 2-opt ends: every request for a path is answered.
PathsAnswered == <>(refused \/ phase = "done")
=============================================================================
