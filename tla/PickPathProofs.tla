--------------------------- MODULE PickPathProofs ---------------------------
(***************************************************************************)
(* Theorems about PickPath, for all constants.                             *)
(***************************************************************************)
EXTENDS PickPath, SumTheorems, SequenceTheorems, TLAPS

-----------------------------------------------------------------------------
(* The sorted list of bins.                                                *)

\* How many bins come before b.
Rank(b) == Cardinality({a \in Located : Before(a, b)})

\* Located bins are points of the grid, and there are finitely many.
LEMMA LocatedFinite ==
  ASSUME where \in [Items -> Points \cup {NoBin}]
  PROVE  /\ IsFiniteSet(Located) /\ Cardinality(Located) \in Nat
         /\ Located \subseteq Points /\ Located \subseteq Nat \X Nat
<1> DEFINE W == {where[i] : i \in Items}
           k == [i \in Items |-> where[i]]
<1>1. k \in [Items -> W] /\ \A w \in W : \E i \in Items : k[i] = w
  OBVIOUS
<1>2. IsFiniteSet(W)
  <2> HIDE DEF k, W
  <2>1. k \in Surjection(Items, W)
    BY <1>1, Fun_IsSurj
  <2> QED BY <2>1, FS_Surjection, ItemsAssumption
<1>3. Located \subseteq W /\ Located \subseteq Points
  BY DEF Located
<1> HIDE DEF W
<1> QED BY <1>2, <1>3, FS_Subset, FS_CardinalityType, PointsAssumption

\* Ranks are below the number of bins and grow with the bins.
LEMMA RanksDiffer ==
  ASSUME where \in [Items -> Points \cup {NoBin}]
  PROVE  /\ \A b \in Located : Rank(b) \in 0..(Cardinality(Located) - 1)
         /\ \A a, b \in Located : Rank(a) = Rank(b) => a = b
         /\ \A a, b \in Located : Rank(a) < Rank(b) => Before(a, b)
<1> DEFINE Below(b) == {a \in Located : Before(a, b)}
<1>0. /\ IsFiniteSet(Located) /\ Cardinality(Located) \in Nat
      /\ \A b \in Located : b[1] \in Nat /\ b[2] \in Nat /\ b = <<b[1], b[2]>>
  BY LocatedFinite
<1>1. ASSUME NEW b \in Located
      PROVE  /\ IsFiniteSet(Below(b))
             /\ Rank(b) \in Int /\ Rank(b) \in 0..(Cardinality(Located) - 1)
  <2>1. b \notin Below(b)
    BY <1>0 DEF Before
  <2>2. Below(b) \subseteq Located \ {b}
    BY <2>1
  <2>3. /\ IsFiniteSet(Located \ {b})
        /\ Cardinality(Located \ {b}) = Cardinality(Located) - 1
    BY <1>0, FS_RemoveElement
  <2>4. /\ IsFiniteSet(Below(b)) /\ Cardinality(Below(b)) \in Nat
        /\ Cardinality(Below(b)) <= Cardinality(Located \ {b})
    <3> HIDE DEF Below
    <3> QED BY <2>2, <2>3, FS_Subset, FS_CardinalityType
  <2> QED BY <1>0, <2>3, <2>4 DEF Rank
<1>2. ASSUME NEW a \in Located, NEW b \in Located, Before(a, b)
      PROVE  Rank(a) < Rank(b)
  <2>1. Below(a) \subseteq Below(b)
    BY <1>0, <1>2 DEF Before
  <2>2. a \in Below(b) /\ a \notin Below(a)
    BY <1>0, <1>2 DEF Before
  <2>3. IsFiniteSet(Below(b)) /\ Below(a) # Below(b)
    BY <1>1, <2>2
  <2>4. Rank(a) = Cardinality(Below(a)) /\ Rank(b) = Cardinality(Below(b))
    BY DEF Rank
  <2>5. Rank(a) \in Int /\ Rank(b) \in Int
    BY <1>1, Zenon
  <2> HIDE DEF Below
  <2>6. Rank(a) <= Rank(b) /\ Rank(a) # Rank(b)
    BY <2>1, <2>3, <2>4, FS_Subset
  <2> QED BY <2>5, <2>6
<1>3. \A a, b \in Located : a = b \/ Before(a, b) \/ Before(b, a)
  BY <1>0 DEF Before
<1>4. ASSUME NEW b \in Located PROVE Rank(b) \in Int /\ Rank(b) \in 0..(Cardinality(Located) - 1)
  BY <1>1, Zenon
<1>5. \A a, b \in Located : Rank(a) = Rank(b) => a = b
  BY <1>2, <1>3, <1>4
<1>6. \A a, b \in Located : Rank(a) < Rank(b) => Before(a, b)
  BY <1>2, <1>3, <1>4
<1> QED BY <1>4, <1>5, <1>6

\* Hence every rank is taken.
LEMMA RanksTaken ==
  ASSUME where \in [Items -> Points \cup {NoBin}],
         NEW r \in 0..(Cardinality(Located) - 1)
  PROVE  \E b \in Located : Rank(b) = r
<1> DEFINE n == Cardinality(Located)
           k == [b \in Located |-> Rank(b)]
<1>0. IsFiniteSet(Located) /\ n \in Nat
  BY LocatedFinite
<1>1. /\ k \in [Located -> 0..(n - 1)]
      /\ \A a, b \in Located : k[a] = k[b] => a = b
  BY RanksDiffer
<1>2. k \in Injection(Located, 0..(n - 1))
  <2> HIDE DEF k, n
  <2> QED BY <1>1, Fun_IsInj
<1>3. IsFiniteSet(0..(n - 1)) /\ Cardinality(0..(n - 1)) = n
  BY <1>0, FS_Interval
<1>4. k \in Surjection(Located, 0..(n - 1))
  <2> HIDE DEF k
  <2> QED BY <1>0, <1>2, <1>3, FS_Injection
<1>5. \A q \in 0..(n - 1) : \E b \in Located : k[b] = q
  <2> HIDE DEF k
  <2> QED BY <1>4, Fun_SurjectionProperties
<1> QED BY <1>5

\* The list is a sequence of points that names every located bin exactly once, in
\* ascending order.
LEMMA BinListSorts ==
  ASSUME where \in [Items -> Points \cup {NoBin}]
  PROVE  /\ BinList \in Seq(Points)
         /\ \A p \in 1..Len(BinList) : BinList[p] \in Located
         /\ \A b \in Located : \E p \in 1..Len(BinList) : BinList[p] = b
         /\ \A p, q \in 1..Len(BinList) : BinList[p] = BinList[q] => p = q
         /\ \A p, q \in 1..Len(BinList) : p < q => Before(BinList[p], BinList[q])
<1> DEFINE n == Cardinality(Located)
<1>0. n \in Nat /\ Located \subseteq Points
  BY LocatedFinite
<1>1. ASSUME NEW p \in 1..n
      PROVE  BinList[p] \in Located /\ Rank(BinList[p]) = p - 1
  <2>1. \E b \in Located : Rank(b) = p - 1
    BY <1>0, RanksTaken
  <2>2. BinList[p] = CHOOSE b \in Located : Rank(b) = p - 1
    BY DEF BinList, Rank
  <2> QED BY <2>1, <2>2
<1>2. BinList \in Seq(Points) /\ Len(BinList) = n
  <2>1. BinList \in [1..n -> Points]
    BY <1>0, <1>1 DEF BinList
  <2> HIDE DEF n
  <2> QED BY <1>0, <2>1
<1>3. \A b \in Located : \E p \in 1..n : BinList[p] = b
  <2> SUFFICES ASSUME NEW b \in Located PROVE BinList[Rank(b) + 1] = b /\ Rank(b) + 1 \in 1..n
    OBVIOUS
  <2>1. Rank(b) \in 0..(n - 1)
    BY RanksDiffer
  <2>2. Rank(b) + 1 \in 1..n
    BY <1>0, <2>1
  <2> HIDE DEF n
  <2> QED BY <1>1, <2>1, <2>2, RanksDiffer
<1> HIDE DEF n
<1>4. \A p, q \in 1..n : BinList[p] = BinList[q] => p = q
  <2> SUFFICES ASSUME NEW p \in 1..n, NEW q \in 1..n, BinList[p] = BinList[q] PROVE p = q
    OBVIOUS
  <2>1. p - 1 = q - 1
    BY <1>1
  <2> QED BY <1>0, <2>1
<1>5. ASSUME NEW p \in 1..n, NEW q \in 1..n, p < q PROVE Before(BinList[p], BinList[q])
  <2>1. Rank(BinList[p]) < Rank(BinList[q])
    BY <1>0, <1>1, <1>5
  <2> QED BY <1>1, <2>1, RanksDiffer
<1> QED BY <1>1, <1>2, <1>3, <1>4, <1>5

-----------------------------------------------------------------------------
(* The inductive invariant.                                                *)

\* Types; only a well-formed request is under way.
TypeInv ==
  /\ where \in [Items -> Points \cup {NoBin}]
  /\ asked \in {"auto", "python", "native"} /\ installed \in BOOLEAN
  /\ refused \in BOOLEAN
  /\ bins \in Seq(Points)
  /\ route \in Seq(1..Len(bins))
  /\ phase \in {"idle", "greedy", "improve", "done"}

\* The bins are those of the order, and the walk visits none of them twice.
WalkInv ==
  /\ phase = "idle" => route = <<>> /\ bins = <<>>
  /\ phase # "idle" => bins = BinList
  /\ \A p, q \in 1..Len(route) : route[p] = route[q] => p = q
  /\ phase \in {"improve", "done"} => Native!Unvisited = {}

\* Pair p is scanned before pair q.
Earlier(p, q) == p[1] < q[1] \/ (p[1] = q[1] /\ p[2] < q[2])

\* Nothing that the scan has left behind would shorten the tour.
ScanInv ==
  /\ scan \in (Nat \ {0}) \X Nat
  /\ phase \in {"idle", "greedy"} \/ Engine = "native" => scan = <<1, 2>>
  /\ Scanning => scan \in Pairs(route)
  /\ Engine = "python" /\ phase \in {"improve", "done"} =>
       \A p \in Pairs(route) : Earlier(p, scan) => ~Shorter(bins, route, p[1], p[2])
  /\ phase = "done" => Native!Improving = {}

PathInv == TypeInv /\ WalkInv /\ ScanInv

\* The engine of an accepted request is one of the two.
LEMMA EngineChosen ==
  TypeInv => Engine \in {"python", "native"}
BY DEF TypeInv, Engine

\* Appending an unvisited bin keeps the walk a walk.
LEMMA AppendWalk ==
  ASSUME TypeInv, WalkInv, NEW b \in Native!Unvisited
  PROVE  /\ Append(route, b) \in Seq(1..Len(bins))
         /\ Len(Append(route, b)) = Len(route) + 1
         /\ \A p \in 1..Len(route) : Append(route, b)[p] = route[p]
         /\ Append(route, b)[Len(route) + 1] = b
         /\ \A p, q \in 1..(Len(route) + 1) :
              Append(route, b)[p] = Append(route, b)[q] => p = q
<1>1. route \in Seq(1..Len(bins)) /\ b \in 1..Len(bins) /\ \A p \in 1..Len(route) : route[p] # b
  BY DEF TypeInv, Native!Unvisited
<1>2. \A p, q \in 1..Len(route) : route[p] = route[q] => p = q
  BY DEF WalkInv
<1>3. Len(route) \in Nat
  BY <1>1
<1>4. /\ Append(route, b) \in Seq(1..Len(bins))
      /\ Len(Append(route, b)) = Len(route) + 1
      /\ \A p \in 1..Len(route) : Append(route, b)[p] = route[p]
      /\ Append(route, b)[Len(route) + 1] = b
  BY <1>1
<1>5. \A p \in 1..(Len(route) + 1) : p \in 1..Len(route) \/ p = Len(route) + 1
  BY <1>3
<1> QED BY <1>1, <1>2, <1>4, <1>5

\* A walk goes to no bin twice, and the bins it goes to.
NoRepeat(r) == \A k, l \in 1..Len(r) : r[k] = r[l] => k = l
Visits(r) == {r[k] : k \in 1..Len(r)}

\* Walking a stretch backwards visits the same bins.
LEMMA ReversedWalk ==
  ASSUME NEW N \in Nat, NEW r \in Seq(1..N), NEW p \in Pairs(r),
         NoRepeat(r)
  PROVE  /\ Reversed(r, p[1], p[2]) \in Seq(1..N)
         /\ Len(Reversed(r, p[1], p[2])) = Len(r)
         /\ NoRepeat(Reversed(r, p[1], p[2]))
         /\ Visits(Reversed(r, p[1], p[2])) = Visits(r)
<1> DEFINE i == p[1]
           j == p[2]
           s == Reversed(r, i, j)
           turn(k) == IF k \in i..j THEN i + j - k ELSE k
<1>1. i \in 1..Len(r) /\ j \in 1..Len(r) /\ i < j /\ Len(r) \in Nat
  BY DEF Pairs
<1> HIDE DEF i, j
<1>2. \A k \in 1..Len(r) : turn(k) \in 1..Len(r) /\ turn(turn(k)) = k
  BY <1>1
<1>3. \A k \in 1..Len(r) : s[k] = r[turn(k)]
  BY DEF Reversed
<1>4. \A k \in 1..Len(r) : r[k] \in 1..N
  OBVIOUS
<1> HIDE DEF turn
<1>5. s \in [1..Len(r) -> 1..N]
  BY <1>2, <1>3, <1>4 DEF Reversed
<1> HIDE DEF s
<1>6. s \in Seq(1..N) /\ Len(s) = Len(r)
  <2> DEFINE n == Len(r)
  <2>1. n \in Nat /\ s \in [1..n -> 1..N]
    BY <1>1, <1>5
  <2> HIDE DEF n
  <2>2. s \in Seq(1..N) /\ Len(s) = n
    BY <2>1
  <2> QED BY <2>2 DEF n
<1>7. ASSUME NEW k \in 1..Len(r), NEW l \in 1..Len(r), s[k] = s[l]
      PROVE  k = l
  <2>1. r[turn(k)] = r[turn(l)] /\ turn(k) \in 1..Len(r) /\ turn(l) \in 1..Len(r)
    BY <1>2, <1>3, <1>7
  <2>2. turn(k) = turn(l)
    BY <2>1 DEF NoRepeat
  <2>3. turn(turn(k)) = k /\ turn(turn(l)) = l
    BY <1>2
  <2> QED BY <2>2, <2>3
<1>8. {s[k] : k \in 1..Len(r)} = {r[k] : k \in 1..Len(r)}
  <2>1. \A k \in 1..Len(r) : turn(k) \in 1..Len(r) /\ s[k] = r[turn(k)] /\ s[turn(k)] = r[k]
    BY <1>2, <1>3
  <2> DEFINE A == {s[k] : k \in 1..Len(r)}
             B == {r[k] : k \in 1..Len(r)}
  <2>2. ASSUME NEW x \in A PROVE x \in B
    <3>1. PICK k \in 1..Len(r) : x = s[k]
      OBVIOUS
    <3> QED BY <2>1, <3>1
  <2>3. ASSUME NEW x \in B PROVE x \in A
    <3>1. PICK k \in 1..Len(r) : x = r[k]
      OBVIOUS
    <3> QED BY <2>1, <3>1
  <2> HIDE DEF A, B
  <2>4. A = B
    BY <2>2, <2>3
  <2> QED BY <2>4 DEF A, B
<1>9. NoRepeat(s) /\ Visits(s) = Visits(r)
  BY <1>6, <1>7, <1>8 DEF NoRepeat, Visits
<1> QED BY <1>6, <1>9 DEF i, j, s

-----------------------------------------------------------------------------
(* Distances.                                                              *)

\* Both engines share the arithmetic of Tour.
LEMMA SameArithmetic ==
  /\ Native!Depot = Depot
  /\ \A n : Native!Abs(n) = Abs(n)
  /\ \A a, b : Native!manhattan(a, b) = manhattan(a, b)
  /\ \A b, r, p : Native!Stop(b, r, p) = Stop(b, r, p)
  /\ \A b, r, i, j : Native!Shorter(b, r, i, j) <=> Shorter(b, r, i, j)
  /\ \A r, i, j : Native!Reversed(r, i, j) = Reversed(r, i, j)
  /\ \A r : Native!Pairs(r) = Pairs(r)
<1>1. Native!Depot = Depot /\ \A n : Native!Abs(n) = Abs(n)
  BY DEF Native!Depot, Depot, Native!Abs, Abs
<1>2. \A a, b : Native!manhattan(a, b) = manhattan(a, b)
  BY <1>1 DEF Native!manhattan, manhattan
<1>3. \A b, r, p : Native!Stop(b, r, p) = Stop(b, r, p)
  BY <1>1 DEF Native!Stop, Stop
<1>4. \A b, r, i, j : Native!Shorter(b, r, i, j) <=> Shorter(b, r, i, j)
  BY <1>2, <1>3 DEF Native!Shorter, Shorter
<1>5. \A r, i, j : Native!Reversed(r, i, j) = Reversed(r, i, j)
  BY DEF Native!Reversed, Reversed
<1>6. \A r : Native!Pairs(r) = Pairs(r)
  BY DEF Native!Pairs, Pairs
<1> QED BY <1>1, <1>2, <1>3, <1>4, <1>5, <1>6

\* A distance is a natural number and the same in both directions.
LEMMA ManhattanType ==
  ASSUME NEW a \in Nat \X Nat, NEW b \in Nat \X Nat
  PROVE  manhattan(a, b) \in Nat /\ manhattan(a, b) = manhattan(b, a)
<1>1. a[1] \in Nat /\ a[2] \in Nat /\ b[1] \in Nat /\ b[2] \in Nat
  OBVIOUS
<1>2. \A x, y \in Nat : Abs(x - y) \in Nat /\ Abs(x - y) = Abs(y - x)
  BY DEF Abs
<1> HIDE DEF Abs
<1> QED BY <1>1, <1>2 DEF manhattan

\* Every stop is on the grid.
LEMMA StopType ==
  ASSUME NEW b \in Seq(Points), NEW r \in Seq(1..Len(b)), NEW p
  PROVE  Stop(b, r, p) \in Nat \X Nat
<1>1. Depot \in Nat \X Nat
  BY DEF Depot
<1>2. ASSUME p \in 1..Len(r) PROVE b[r[p]] \in Points
  <2>1. r[p] \in 1..Len(b)
    BY <1>2
  <2> QED BY <2>1
<1> QED BY <1>1, <1>2, PointsAssumption DEF Stop

-----------------------------------------------------------------------------
(* The scan of the C++ engine finds what min finds in the Python one.      *)

\* b is the nearest of the first i bins that are unvisited, or 0.
IsBest(i, b) ==
  IF Native!Unvisited \cap 1..i = {} THEN b = 0
  ELSE /\ b \in Native!Unvisited \cap 1..i
       /\ \A j \in Native!Unvisited \cap 1..i :
            DistanceTo(b) < DistanceTo(j) \/ (DistanceTo(b) = DistanceTo(j) /\ b <= j)

\* What the scan keeps after looking at bin i.
Kept(b, i) ==
  IF i \in Native!Unvisited /\ (b = 0 \/ DistanceTo(i) < DistanceTo(b)) THEN i ELSE b

\* Distances to the unvisited bins are natural numbers.
LEMMA DistanceType ==
  ASSUME TypeInv, NEW i \in Native!Unvisited
  PROVE  DistanceTo(i) \in Nat /\ i \in 1..Len(bins) /\ Len(bins) \in Nat
<1>1. i \in 1..Len(bins) /\ bins \in Seq(Points) /\ route \in Seq(1..Len(bins))
  BY DEF Native!Unvisited, TypeInv
<1>2. bins[i] \in Nat \X Nat
  BY <1>1, PointsAssumption
<1>3. Native!Here \in Nat \X Nat
  BY <1>1, StopType, SameArithmetic DEF Native!Here
<1> QED BY <1>1, <1>2, <1>3, ManhattanType DEF DistanceTo

\* Only one bin is the best.
LEMMA BestIsOne ==
  ASSUME TypeInv, NEW i \in Nat, NEW a, NEW b, IsBest(i, a), IsBest(i, b)
  PROVE  a = b
<1>1. \A j \in Native!Unvisited : DistanceTo(j) \in Nat /\ j \in Nat
  BY DistanceType
<1> QED BY <1>1 DEF IsBest

\* The scan keeps the best of the bins it has looked at.
LEMMA ScanKeepsBest ==
  ASSUME TypeInv, NEW i \in Nat, NEW b, IsBest(i, b)
  PROVE  IsBest(i + 1, Kept(b, i + 1))
<1>1. \A j \in Native!Unvisited : DistanceTo(j) \in Nat /\ j \in Nat /\ j # 0
  BY DistanceType
<1>2. 1..(i + 1) = (1..i) \cup {i + 1}
  OBVIOUS
<1>3. CASE i + 1 \notin Native!Unvisited
  <2>1. Native!Unvisited \cap 1..(i + 1) = Native!Unvisited \cap 1..i
    BY <1>2, <1>3
  <2> QED BY <1>3, <2>1 DEF IsBest, Kept
<1>4. CASE i + 1 \in Native!Unvisited
  <2>1. CASE Native!Unvisited \cap 1..i = {}
    <3>1. Native!Unvisited \cap 1..(i + 1) = {i + 1}
      BY <1>2, <1>4, <2>1
    <3>2. Kept(b, i + 1) = i + 1
      BY <1>4, <2>1 DEF IsBest, Kept
    <3> QED BY <1>1, <1>4, <3>1, <3>2 DEF IsBest
  <2>2. CASE Native!Unvisited \cap 1..i # {}
    <3>1. /\ b \in Native!Unvisited \cap 1..i
          /\ \A j \in Native!Unvisited \cap 1..i :
               DistanceTo(b) < DistanceTo(j) \/ (DistanceTo(b) = DistanceTo(j) /\ b <= j)
      BY <2>2 DEF IsBest
    <3>2. Kept(b, i + 1) = IF DistanceTo(i + 1) < DistanceTo(b) THEN i + 1 ELSE b
      BY <1>1, <1>4, <3>1 DEF Kept
    <3>3. \A j \in Native!Unvisited \cap 1..(i + 1) : j \in Native!Unvisited \cap 1..i \/ j = i + 1
      BY <1>2
    <3>4. Native!Unvisited \cap 1..i \subseteq Native!Unvisited \cap 1..(i + 1)
      BY <1>2
    <3>5. b \in Nat /\ b <= i /\ DistanceTo(b) \in Nat /\ DistanceTo(i + 1) \in Nat
      BY <1>1, <1>4, <3>1
    <3>6. Kept(b, i + 1) \in Native!Unvisited \cap 1..(i + 1)
      BY <1>4, <3>1, <3>2, <3>4
    <3>7. ASSUME NEW j \in Native!Unvisited \cap 1..(i + 1)
          PROVE  LET k == Kept(b, i + 1) IN
                 DistanceTo(k) < DistanceTo(j) \/ (DistanceTo(k) = DistanceTo(j) /\ k <= j)
      <4>1. j \in Nat /\ DistanceTo(j) \in Nat
        BY <1>1
      <4> QED BY <3>1, <3>2, <3>3, <3>5, <4>1
    <3> QED BY <3>6, <3>7 DEF IsBest
  <2> QED BY <2>1, <2>2
<1> QED BY <1>3, <1>4

\* After i bins there is a best one.
LEMMA BestExists ==
  ASSUME TypeInv
  PROVE  \A i \in Nat : \E b : IsBest(i, b)
<1> DEFINE T == {i \in Nat : \E b : IsBest(i, b)}
<1>1. 0 \in T
  <2>1. IsBest(0, 0)
    BY DEF IsBest
  <2> QED BY <2>1
<1>2. \A i \in Nat : i \in T => i + 1 \in T
  BY ScanKeepsBest
<1>3. Nat \subseteq T
  <2> HIDE DEF T
  <2> QED BY <1>1, <1>2, SetInduction
<1> QED BY <1>3

\* The recursive function of the scan computes it.
LEMMA BestComputed ==
  ASSUME TypeInv
  PROVE  \A i \in Nat : IsBest(i, Native!best[i])
<1> DEFINE Step(g, i) == IF i = 0 THEN 0 ELSE Kept(g[i - 1], i)
           F == [i \in Nat |-> CHOOSE b : IsBest(i, b)]
<1>1. \A i \in Nat : IsBest(i, F[i])
  BY BestExists
<1>2. ASSUME NEW i \in Nat PROVE F[i] = Step(F, i)
  <2>1. CASE i = 0
    BY <1>1, <2>1 DEF IsBest
  <2>2. CASE i # 0
    <3>1. i - 1 \in Nat /\ (i - 1) + 1 = i
      BY <2>2
    <3> HIDE DEF F
    <3>2. IsBest(i, Kept(F[i - 1], i))
      BY <1>1, <3>1, ScanKeepsBest
    <3> QED BY <1>1, <2>2, <3>2, BestIsOne
  <2> QED BY <2>1, <2>2
<1>3. F = [i \in Nat |-> Step(F, i)]
  <2> HIDE DEF Step
  <2> QED BY <1>2
<1> HIDE DEF F
<1>4. Native!best = CHOOSE g : g = [i \in Nat |-> Step(g, i)]
  <2> USE DEF Native!best, Kept, DistanceTo
  <2>1. \A a, b : Native!manhattan(a, b) = manhattan(a, b)
    BY SameArithmetic
  <2> QED BY <2>1
<1>5. Native!best = [i \in Nat |-> Step(Native!best, i)]
  <2> HIDE DEF Step
  <2> QED BY <1>3, <1>4, Zenon
<1> DEFINE T == {i \in Nat : IsBest(i, Native!best[i])}
<1>6. 0 \in T
  <2>1. Native!best[0] = 0
    BY <1>5
  <2> QED BY <2>1 DEF IsBest
<1>7. ASSUME NEW i \in Nat, i \in T PROVE i + 1 \in T
  <2>1. Native!best[i + 1] = Kept(Native!best[i], i + 1)
    BY <1>5
  <2> QED BY <1>7, <2>1, ScanKeepsBest
<1>8. Nat \subseteq T
  <2> HIDE DEF T
  <2> QED BY <1>6, <1>7, SetInduction
<1> QED BY <1>8

\* Both engines go to the same bin, which is unvisited.
LEMMA SameNearest ==
  ASSUME TypeInv, Native!Unvisited # {}
  PROVE  Nearest \in Native!Unvisited /\ Native!best[Len(bins)] = Nearest
<1> DEFINE b == Native!best[Len(bins)]
<1>1. Len(bins) \in Nat /\ Native!Unvisited \cap 1..Len(bins) = Native!Unvisited
  BY DEF TypeInv, Native!Unvisited
<1>2. IsBest(Len(bins), b)
  BY <1>1, BestComputed
<1>3. \A i : IsBest(Len(bins), i) <=>
        /\ i \in Native!Unvisited
        /\ \A j \in Native!Unvisited :
             DistanceTo(i) < DistanceTo(j) \/ (DistanceTo(i) = DistanceTo(j) /\ i <= j)
  BY <1>1 DEF IsBest
<1> HIDE DEF b
<1>4. IsBest(Len(bins), Nearest)
  BY <1>2, <1>3 DEF Nearest
<1> QED BY <1>1, <1>2, <1>3, <1>4, BestIsOne DEF b

-----------------------------------------------------------------------------
(* The invariant is kept.                                                  *)

\* Some pair of a nonempty set is scanned before the others.
LEMMA LeastPair ==
  ASSUME NEW S, S \subseteq Nat \X Nat, S # {}
  PROVE  \E p \in S : \A q \in S : p[1] < q[1] \/ (p[1] = q[1] /\ p[2] <= q[2])
<1> DEFINE A == {p[1] : p \in S}
<1>1. A \subseteq Nat /\ A # {}
  OBVIOUS
<1>2. PICK i \in A : \A k \in A : i <= k
  <2> HIDE DEF A
  <2> QED BY <1>1, LeastNatural
<1> DEFINE B == {p[2] : p \in {q \in S : q[1] = i}}
<1>3. B \subseteq Nat /\ B # {}
  BY <1>2
<1>4. PICK j \in B : \A k \in B : j <= k
  <2> HIDE DEF B
  <2> QED BY <1>3, LeastNatural
<1>5. PICK p \in S : p[1] = i /\ p[2] = j
  BY <1>4
<1>6. ASSUME NEW q \in S PROVE p[1] < q[1] \/ (p[1] = q[1] /\ p[2] <= q[2])
  <2>1. q[1] \in A /\ i <= q[1] /\ q[1] \in Nat /\ i \in Nat
    BY <1>1, <1>2
  <2>2. q[1] = i => j <= q[2]
    BY <1>4
  <2> QED BY <1>5, <2>1, <2>2
<1> QED BY <1>5, <1>6

\* The improving pairs of the C++ engine are those of Shorter, and it takes the first.
LEMMA FirstIsFirst ==
  ASSUME TypeInv
  PROVE  /\ Native!Improving = {p \in Pairs(route) : Shorter(bins, route, p[1], p[2])}
         /\ Native!Improving # {} =>
              /\ Native!FirstImproving \in Native!Improving
              /\ \A q \in Native!Improving :
                   \/ Native!FirstImproving[1] < q[1]
                   \/ Native!FirstImproving[1] = q[1] /\ Native!FirstImproving[2] <= q[2]
<1>1. Native!Improving = {p \in Pairs(route) : Shorter(bins, route, p[1], p[2])}
  BY SameArithmetic DEF Native!Improving
<1>2. Native!Improving \subseteq Nat \X Nat
  <2>1. Pairs(route) \subseteq Nat \X Nat
    BY DEF Pairs, TypeInv
  <2> QED BY <1>1, <2>1
<1>3. Native!Improving # {} =>
        \E p \in Native!Improving : \A q \in Native!Improving :
          p[1] < q[1] \/ (p[1] = q[1] /\ p[2] <= q[2])
  BY <1>2, LeastPair
<1> QED BY <1>1, <1>3 DEF Native!FirstImproving

\* A request starts with no bins and no walk.
THEOREM InitPath == Init => PathInv
<1> SUFFICES ASSUME Init PROVE PathInv
  OBVIOUS
<1>1. /\ where \in [Items -> Points \cup {NoBin}] /\ bins = <<>> /\ route = <<>>
      /\ phase = "idle" /\ scan = <<1, 2>>
  BY PlacementsAssumption DEF Init, Native!Init
<1>2. TypeInv
  <2>1. bins \in Seq(Points) /\ route \in Seq(1..Len(bins))
    BY <1>1
  <2> QED BY <1>1, <2>1 DEF Init, TypeInv
<1>3. WalkInv
  BY <1>1 DEF WalkInv
<1>4. ScanInv
  BY <1>1 DEF ScanInv, Scanning
<1> QED BY <1>2, <1>3, <1>4 DEF PathInv

\* Start sorts the bins, with nothing visited yet.
LEMMA StartKeeps == PathInv /\ Start => PathInv'
<1> SUFFICES ASSUME PathInv, Start PROVE PathInv'
  OBVIOUS
<1>1. /\ phase = "idle" /\ bins' = BinList /\ phase' = "greedy" /\ route' = route
      /\ UNCHANGED <<where, asked, installed, refused, scan>>
  BY DEF Start, Native!Call, request
<1>2. route = <<>> /\ scan = <<1, 2>> /\ where \in [Items -> Points \cup {NoBin}]
  BY <1>1 DEF PathInv, WalkInv, ScanInv, TypeInv
<1>3. bins' \in Seq(Points) /\ BinList' = bins'
  BY <1>1, <1>2, BinListSorts DEF BinList, Located
<1>4. TypeInv'
  BY <1>1, <1>2, <1>3 DEF PathInv, TypeInv
<1>5. WalkInv'
  BY <1>1, <1>2, <1>3 DEF WalkInv
<1>6. ScanInv'
  BY <1>1, <1>2 DEF ScanInv, Scanning, Engine
<1> QED BY <1>4, <1>5, <1>6 DEF PathInv

\* Visiting an unvisited bin keeps the invariant, whichever engine goes there.
LEMMA VisitKeeps ==
  ASSUME PathInv, phase = "greedy", NEW b \in Native!Unvisited, route' = Append(route, b),
         UNCHANGED <<where, asked, installed, refused, scan, bins, phase>>
  PROVE  PathInv'
<1> USE DEF PathInv
<1>1. /\ route' \in Seq(1..Len(bins)) /\ Len(route') = Len(route) + 1
      /\ \A p, q \in 1..(Len(route) + 1) : route'[p] = route'[q] => p = q
  BY AppendWalk
<1>2. TypeInv'
  BY <1>1 DEF TypeInv
<1>3. BinList' = BinList
  BY DEF BinList, Located
<1>4. WalkInv'
  BY <1>1, <1>3 DEF WalkInv
<1>5. ScanInv'
  BY DEF ScanInv, Scanning, Engine
<1> QED BY <1>2, <1>4, <1>5

\* When all is visited the improvements begin, with nothing scanned.
LEMMA VisitedKeeps ==
  ASSUME PathInv, phase = "greedy", Native!Unvisited = {}, phase' = "improve",
         UNCHANGED <<where, asked, installed, refused, scan, bins, route>>
  PROVE  PathInv'
<1> USE DEF PathInv
<1>1. TypeInv'
  BY DEF TypeInv
<1>2. BinList' = BinList /\ Native!Unvisited' = Native!Unvisited
  BY DEF BinList, Located, Native!Unvisited
<1>3. WalkInv'
  BY <1>2 DEF WalkInv
<1>4. scan = <<1, 2>> /\ scan' = scan /\ Len(route) \in Nat
  BY DEF ScanInv, TypeInv
<1>5. \A p \in Pairs(route) : ~Earlier(p, scan)
  BY <1>4 DEF Pairs, Earlier
<1>6. Pairs(route)' = Pairs(route) /\ (Scanning' => scan' \in Pairs(route'))
  BY <1>4 DEF Pairs, Scanning
<1>7. ScanInv'
  BY <1>4, <1>5, <1>6 DEF ScanInv, Earlier, Engine
<1> QED BY <1>1, <1>3, <1>7

\* Turning a stretch around keeps the invariant if the scan starts again.
LEMMA TurnKeeps ==
  ASSUME PathInv, phase = "improve", NEW p \in Pairs(route),
         route' = Reversed(route, p[1], p[2]), scan' = <<1, 2>>,
         UNCHANGED <<where, asked, installed, refused, bins, phase>>
  PROVE  PathInv'
<1> USE DEF PathInv
<1>0. Len(bins) \in Nat /\ route \in Seq(1..Len(bins)) /\ Len(route) \in Nat
  BY DEF TypeInv
<1>1. /\ route' \in Seq(1..Len(bins)) /\ Len(route') = Len(route)
      /\ \A k, l \in 1..Len(route) : route'[k] = route'[l] => k = l
      /\ {route'[k] : k \in 1..Len(route)} = {route[k] : k \in 1..Len(route)}
  <2>1. \A k, l \in 1..Len(route) : route[k] = route[l] => k = l
    BY DEF WalkInv
  <2> DEFINE s == Reversed(route, p[1], p[2])
  <2>2. /\ s \in Seq(1..Len(bins)) /\ Len(s) = Len(route)
        /\ \A k, l \in 1..Len(route) : s[k] = s[l] => k = l
        /\ {s[k] : k \in 1..Len(route)} = {route[k] : k \in 1..Len(route)}
    <3>1. NoRepeat(route)
      BY <2>1 DEF NoRepeat
    <3>2. s \in Seq(1..Len(bins)) /\ Len(s) = Len(route) /\ NoRepeat(s) /\ Visits(s) = Visits(route)
      BY <1>0, <3>1, ReversedWalk
    <3> HIDE DEF s
    <3> QED BY <3>2 DEF NoRepeat, Visits
  <2>3. route' = s
    OBVIOUS
  <2> HIDE DEF s
  <2> QED BY <2>2, <2>3
<1>2. TypeInv'
  BY <1>1 DEF TypeInv
<1>3. BinList' = BinList /\ Native!Unvisited' = Native!Unvisited
  <2>1. {route'[k] : k \in 1..Len(route')} = {route[k] : k \in 1..Len(route)}
    BY <1>1
  <2>2. Native!Unvisited' = (1..Len(bins)) \ {route'[k] : k \in 1..Len(route')}
    BY DEF Native!Unvisited
  <2>3. Native!Unvisited = (1..Len(bins)) \ {route[k] : k \in 1..Len(route)}
    BY DEF Native!Unvisited
  <2>4. BinList' = BinList
    BY DEF BinList, Located
  <2> QED BY <2>1, <2>2, <2>3, <2>4
<1>4. WalkInv'
  BY <1>1, <1>3 DEF WalkInv
<1>5. \A q \in Pairs(route') : ~Earlier(q, scan')
  BY <1>0, <1>1, SMTT(30) DEF Pairs, Earlier
<1>6. Scanning' => scan' \in Pairs(route')
  BY <1>0, <1>1 DEF Pairs, Scanning
<1>7. ScanInv'
  BY <1>5, <1>6 DEF ScanInv, Earlier, Engine
<1> QED BY <1>2, <1>4, <1>7

\* The next pair: nothing lies between it and the one before.
LEMMA NextPairNext ==
  ASSUME TypeInv, Scanning, scan \in Pairs(route)
  PROVE  /\ NextPair \in (Nat \ {0}) \X Nat
         /\ NextPair[1] < Len(route) => NextPair \in Pairs(route)
         /\ \A p \in Pairs(route) : Earlier(p, NextPair) => Earlier(p, scan) \/ p = scan
<1>1. Len(route) \in Nat /\ scan[1] \in 1..Len(route) /\ scan[2] \in 1..Len(route) /\ scan[1] < scan[2]
  BY DEF TypeInv, Pairs
<1>2. NextPair = IF scan[2] < Len(route) THEN <<scan[1], scan[2] + 1>> ELSE <<scan[1] + 1, scan[1] + 2>>
  BY DEF NextPair
<1>3. NextPair \in (Nat \ {0}) \X Nat
  BY <1>1, <1>2
<1>4. NextPair[1] < Len(route) => NextPair \in Pairs(route)
  BY <1>1, <1>2 DEF Pairs
<1>5. ASSUME NEW p \in Pairs(route), Earlier(p, NextPair)
      PROVE  Earlier(p, scan) \/ p = scan
  <2>1. /\ p = <<p[1], p[2]>> /\ p[1] \in 1..Len(route) /\ p[2] \in 1..Len(route) /\ p[1] < p[2]
        /\ scan = <<scan[1], scan[2]>>
    BY DEF Pairs
  <2>2. CASE scan[2] < Len(route)
    <3>1. NextPair[1] = scan[1] /\ NextPair[2] = scan[2] + 1
      BY <1>2, <2>2
    <3> QED BY <1>1, <1>5, <2>1, <3>1 DEF Earlier
  <2>3. CASE ~(scan[2] < Len(route))
    <3>1. NextPair[1] = scan[1] + 1 /\ NextPair[2] = scan[1] + 2 /\ scan[2] = Len(route)
      BY <1>1, <1>2, <2>3
    <3> QED BY <1>1, <1>5, <2>1, <3>1 DEF Earlier
  <2> QED BY <2>2, <2>3
<1> QED BY <1>3, <1>4, <1>5

\* A pair that does not improve is left behind.
LEMMA KeepKeeps == PathInv /\ Engine = "python" /\ Keep => PathInv'
<1> SUFFICES ASSUME PathInv, Engine = "python", Keep PROVE PathInv'
  OBVIOUS
<1> USE DEF PathInv
<1>1. /\ Scanning /\ ~Shorter(bins, route, scan[1], scan[2]) /\ scan' = NextPair
      /\ UNCHANGED <<where, asked, installed, refused, bins, route, phase>>
  BY DEF Keep, request
<1>2. scan \in Pairs(route)
  BY <1>1 DEF ScanInv
<1>3. TypeInv'
  BY <1>1 DEF TypeInv
<1>4. BinList' = BinList /\ Native!Unvisited' = Native!Unvisited
  BY <1>1 DEF BinList, Located, Native!Unvisited
<1>5. WalkInv'
  BY <1>1, <1>4 DEF WalkInv
<1>6. /\ NextPair \in (Nat \ {0}) \X Nat
      /\ NextPair[1] < Len(route) => NextPair \in Pairs(route)
      /\ \A p \in Pairs(route) : Earlier(p, NextPair) => Earlier(p, scan) \/ p = scan
  BY <1>1, <1>2, NextPairNext
<1>7. phase = "improve" /\ phase' = "improve" /\ Pairs(route)' = Pairs(route) /\ Engine' = Engine
  BY <1>1 DEF Scanning, Pairs, Engine
<1>8. ASSUME Engine = "python", NEW p \in Pairs(route), Earlier(p, scan')
      PROVE  ~Shorter(bins, route, p[1], p[2])
  <2>1. Earlier(p, scan) \/ p = scan
    BY <1>1, <1>6, <1>8
  <2>2. Earlier(p, scan) => ~Shorter(bins, route, p[1], p[2])
    BY <1>7, <1>8 DEF ScanInv
  <2> QED BY <1>1, <2>1, <2>2
<1>9. \A p \in Pairs(route)' : Shorter(bins, route, p[1], p[2])' <=> Shorter(bins, route, p[1], p[2])
  BY <1>1 DEF Shorter, Stop
<1>10. ScanInv'
  BY <1>1, <1>6, <1>7, <1>8, <1>9 DEF ScanInv, Scanning, Earlier
<1> QED BY <1>3, <1>5, <1>10

\* The engine stops when no pair improves.
LEMMA StopKeeps ==
  ASSUME PathInv, phase = "improve", phase' = "done", Native!Improving = {},
         UNCHANGED <<where, asked, installed, refused, scan, bins, route>>
  PROVE  PathInv'
<1> USE DEF PathInv
<1>1. TypeInv'
  BY DEF TypeInv
<1>2. BinList' = BinList /\ Native!Unvisited' = Native!Unvisited
  BY DEF BinList, Located, Native!Unvisited
<1>3. WalkInv'
  BY <1>2 DEF WalkInv
<1>4. Native!Improving = {p \in Pairs(route) : Shorter(bins, route, p[1], p[2])}
  BY FirstIsFirst
<1>5. Native!Improving' = {}
  <2>1. Native!Improving' = Native!Improving
    BY DEF Native!Improving, Native!Pairs, Native!Shorter, Native!Stop
  <2> QED BY <2>1
<1>6. \A p \in Pairs(route)' : ~Shorter(bins, route, p[1], p[2])'
  <2>1. Pairs(route)' = Pairs(route)
    BY DEF Pairs
  <2>2. \A p : Shorter(bins, route, p[1], p[2])' <=> Shorter(bins, route, p[1], p[2])
    BY DEF Shorter, Stop
  <2> QED BY <1>4, <2>1, <2>2
<1>7. ScanInv'
  BY <1>5, <1>6 DEF ScanInv, Scanning, Engine
<1> QED BY <1>1, <1>3, <1>7

\* When the scan is over it has left every pair behind.
LEMMA ScanOver ==
  ASSUME PathInv, Engine = "python", phase = "improve", ~Scanning
  PROVE  Native!Improving = {}
<1>1. /\ scan[1] \in Nat /\ Len(route) \in Nat /\ ~(scan[1] < Len(route))
      /\ \A p \in Pairs(route) : Earlier(p, scan) => ~Shorter(bins, route, p[1], p[2])
  BY DEF PathInv, ScanInv, TypeInv, Scanning
<1>2. \A p \in Pairs(route) : p[1] < scan[1]
  BY <1>1 DEF Pairs
<1>3. \A p \in Pairs(route) : ~Shorter(bins, route, p[1], p[2])
  BY <1>1, <1>2 DEF Earlier
<1> QED BY <1>3, FirstIsFirst DEF PathInv

\* Every step keeps the invariant.
THEOREM NextPath == PathInv /\ [Next]_vars => PathInv'
<1> SUFFICES ASSUME PathInv, [Next]_vars PROVE PathInv'
  OBVIOUS
<1>e. PathInv => TypeInv
  BY DEF PathInv
<1>1. CASE Refuse
  <2>1. UNCHANGED <<where, asked, installed, scan, bins, route, phase>> /\ refused' = TRUE
    BY <1>1 DEF Refuse, request
  <2>2. TypeInv'
    BY <2>1 DEF PathInv, TypeInv
  <2>3. WalkInv'
    <3>1. BinList' = BinList /\ Native!Unvisited' = Native!Unvisited
      BY <2>1 DEF BinList, Located, Native!Unvisited
    <3> QED BY <2>1, <3>1 DEF PathInv, WalkInv
  <2>4. ScanInv'
    BY <2>1 DEF PathInv, ScanInv, Scanning, Engine, Earlier, Pairs, Shorter, Stop,
                Native!Improving, Native!Pairs, Native!Shorter, Native!Stop
  <2> QED BY <2>2, <2>3, <2>4 DEF PathInv
<1>2. CASE Start
  BY <1>2, StartKeeps
<1>3. CASE RunNative
  <2>1. Native!Work /\ Engine = "native" /\ UNCHANGED <<where, asked, installed, refused, scan>>
    BY <1>3 DEF RunNative, request
  <2>2. CASE Native!Visit
    <3>1. Native!Unvisited # {} /\ phase = "greedy"
      BY <2>2 DEF Native!Visit
    <3>2. Native!best[Len(bins)] \in Native!Unvisited
      BY <1>e, <3>1, SameNearest
    <3>3. route' = Append(route, Native!best[Len(bins)]) /\ UNCHANGED <<bins, phase>>
      BY <2>2 DEF Native!Visit
    <3> QED BY <2>1, <3>1, <3>2, <3>3, VisitKeeps
  <2>3. CASE Native!Visited
    BY <2>1, <2>3, VisitedKeeps DEF Native!Visited
  <2>4. CASE Native!Improve
    <3>1. /\ phase = "improve" /\ Native!Improving # {} /\ UNCHANGED <<bins, phase>>
          /\ route' = Reversed(route, Native!FirstImproving[1], Native!FirstImproving[2])
      BY <2>4, SameArithmetic DEF Native!Improve
    <3>2. Native!FirstImproving \in Pairs(route)
      BY <1>e, <3>1, FirstIsFirst
    <3>3. scan' = <<1, 2>>
      BY <2>1, <3>1 DEF PathInv, ScanInv
    <3> QED BY <2>1, <3>1, <3>2, <3>3, TurnKeeps
  <2>5. CASE Native!Return
    BY <2>1, <2>5, StopKeeps DEF Native!Return
  <2> QED BY <2>1, <2>2, <2>3, <2>4, <2>5 DEF Native!Work
<1>4. CASE RunPython
  <2>1. Engine = "python"
    BY <1>4 DEF RunPython
  <2>2. CASE VisitNearest
    BY <1>e, <2>2, SameNearest, VisitKeeps DEF VisitNearest, request
  <2>3. CASE BeginTwoOpt
    BY <2>3, VisitedKeeps DEF BeginTwoOpt, request
  <2>4. CASE Keep
    BY <2>1, <2>4, KeepKeeps
  <2>5. CASE Swap
    <3>1. scan \in Pairs(route) /\ phase = "improve"
      BY <2>5 DEF Swap, Scanning, PathInv, ScanInv
    <3> QED BY <2>5, <3>1, TurnKeeps DEF Swap, request
  <2>6. CASE Finish
    BY <2>1, <2>6, ScanOver, StopKeeps DEF Finish, request
  <2> QED BY <1>4, <2>2, <2>3, <2>4, <2>5, <2>6 DEF RunPython
<1>5. CASE UNCHANGED vars
  <2>1. UNCHANGED <<where, asked, installed, refused, scan, bins, route, phase>>
    BY <1>5 DEF vars, request
  <2>2. TypeInv'
    BY <2>1 DEF PathInv, TypeInv
  <2>3. WalkInv'
    <3>1. BinList' = BinList /\ Native!Unvisited' = Native!Unvisited
      BY <2>1 DEF BinList, Located, Native!Unvisited
    <3> QED BY <2>1, <3>1 DEF PathInv, WalkInv
  <2>4. ScanInv'
    BY <2>1 DEF PathInv, ScanInv, Scanning, Engine, Earlier, Pairs, Shorter, Stop,
                Native!Improving, Native!Pairs, Native!Shorter, Native!Stop
  <2> QED BY <2>2, <2>3, <2>4 DEF PathInv
<1> QED BY <1>1, <1>2, <1>3, <1>4, <1>5 DEF Next

\* The bins of the order are walked without repetition, and nothing the scan has left
\* behind would shorten the tour, whichever engine is at work.
THEOREM PathInvariant == Spec => []PathInv
BY InitPath, NextPath, PTL DEF Spec

-----------------------------------------------------------------------------
(* What the invariant gives.                                               *)

\* For every order, wherever its items are: when the path is answered, each located
\* item is picked at exactly one stop, and every stop has something to pick.
THEOREM ItemsPickedOnce == Spec => []EveryItemOnce
<1>1. PathInv => EveryItemOnce
  <2> SUFFICES ASSUME PathInv, phase = "done" PROVE EveryItemOnce
    BY DEF EveryItemOnce
  <2>1. /\ where \in [Items -> Points \cup {NoBin}] /\ bins = BinList
        /\ route \in Seq(1..Len(bins))
        /\ \A p, q \in 1..Len(route) : route[p] = route[q] => p = q
        /\ Native!Unvisited = {}
    BY DEF PathInv, TypeInv, WalkInv
  <2>2. \A k \in 1..Len(bins) : \E p \in 1..Len(route) : route[p] = k
    BY <2>1 DEF Native!Unvisited
  <2>3. /\ \A k \in 1..Len(bins) : bins[k] \in Located
        /\ \A b \in Located : \E k \in 1..Len(bins) : bins[k] = b
        /\ \A k, l \in 1..Len(bins) : bins[k] = bins[l] => k = l
    BY <2>1, BinListSorts
  <2>4. \A p \in 1..Len(route) :
          route[p] \in 1..Len(bins) /\ Stops[p].items = {i \in Items : where[i] = bins[route[p]]}
    BY <2>1 DEF Stops
  <2>5. ASSUME NEW i \in Items, where[i] # NoBin
        PROVE  Cardinality({p \in 1..Len(route) : i \in Stops[p].items}) = 1
    <3>1. where[i] \in Located
      BY <2>5 DEF Located
    <3>2. PICK k \in 1..Len(bins) : bins[k] = where[i]
      BY <2>3, <3>1
    <3>3. PICK p \in 1..Len(route) : route[p] = k
      BY <2>2
    <3>4. ASSUME NEW q \in 1..Len(route) PROVE i \in Stops[q].items <=> q = p
      <4>1. i \in Stops[q].items <=> where[i] = bins[route[q]]
        BY <2>4
      <4>2. bins[route[q]] = bins[k] <=> route[q] = k
        BY <2>3, <2>4
      <4>3. route[q] = k <=> q = p
        BY <2>1, <3>3
      <4> QED BY <3>2, <4>1, <4>2, <4>3
    <3>5. {q \in 1..Len(route) : i \in Stops[q].items} = {p}
      BY <3>4
    <3> QED BY <3>5, FS_Singleton
  <2>6. ASSUME NEW p \in 1..Len(route) PROVE Stops[p].items # {}
    <3>1. bins[route[p]] \in Located
      BY <2>3, <2>4
    <3>2. PICK i \in Items : where[i] = bins[route[p]]
      BY <3>1 DEF Located
    <3> QED BY <2>4, <3>2
  <2> QED BY <2>5, <2>6 DEF EveryItemOnce
<1> QED BY <1>1, PathInvariant, PTL

\* A swap of the Python scan is the improvement the C++ engine would make: every
\* earlier pair has been left behind.
LEMMA SwapIsFirst ==
  ASSUME PathInv, Engine = "python", Swap
  PROVE  /\ scan \in Pairs(route) /\ Native!Improving # {} /\ Native!FirstImproving = scan
         /\ phase = "improve"
<1>1. /\ scan \in Pairs(route) /\ phase = "improve" /\ Shorter(bins, route, scan[1], scan[2])
      /\ \A p \in Pairs(route) : Earlier(p, scan) => ~Shorter(bins, route, p[1], p[2])
  BY DEF Swap, Scanning, PathInv, ScanInv
<1>2. scan \in Native!Improving
  BY <1>1, FirstIsFirst DEF PathInv
<1> DEFINE f == Native!FirstImproving
<1>3. /\ f \in Pairs(route) /\ Shorter(bins, route, f[1], f[2])
      /\ f[1] < scan[1] \/ (f[1] = scan[1] /\ f[2] <= scan[2])
  BY <1>2, FirstIsFirst DEF PathInv
<1>4. ~Earlier(f, scan)
  BY <1>1, <1>3
<1>5. f = <<f[1], f[2]>> /\ scan = <<scan[1], scan[2]>> /\ f[2] \in Int /\ scan[2] \in Int
  <2> HIDE DEF f
  <2> QED BY <1>1, <1>3 DEF Pairs, PathInv, TypeInv
<1> HIDE DEF f
<1>6. f = scan
  BY <1>3, <1>4, <1>5 DEF Earlier
<1> QED BY <1>1, <1>2, <1>6 DEF f

\* The Python engine, pair by pair, takes the steps of the C++ engine: for every list
\* of bins both return the same route.
THEOREM EnginesTakeSameSteps == Spec => EnginesAgree
<1>1. Init => Native!Init
  BY DEF Init
<1>2. PathInv /\ [Next]_vars => [Native!Call \/ Native!Work]_(Native!vars)
  <2> SUFFICES ASSUME PathInv, [Next]_vars, ~UNCHANGED <<bins, route, phase>>
               PROVE  Native!Call \/ Native!Work
    BY DEF Native!vars
  <2>1. CASE Refuse
    BY <2>1 DEF Refuse
  <2>2. CASE Start
    BY <2>2 DEF Start, Native!Call
  <2>3. CASE RunNative
    BY <2>3 DEF RunNative
  <2>4. CASE RunPython
    <3>1. Engine = "python" /\ TypeInv
      BY <2>4 DEF RunPython, PathInv
    <3>2. CASE VisitNearest
      <4>1. Native!best[Len(bins)] = Nearest
        BY <3>1, <3>2, SameNearest DEF VisitNearest
      <4> QED BY <3>2, <4>1 DEF VisitNearest, Native!Work, Native!Visit
    <3>3. CASE BeginTwoOpt
      BY <3>3 DEF BeginTwoOpt, Native!Work, Native!Visited
    <3>4. CASE Keep
      BY <3>4 DEF Keep
    <3>5. CASE Swap
      BY <3>1, <3>5, SwapIsFirst, SameArithmetic DEF Swap, Native!Work, Native!Improve
    <3>6. CASE Finish
      BY <3>1, <3>6, ScanOver DEF Finish, Native!Work, Native!Return
    <3> QED BY <2>4, <3>2, <3>3, <3>4, <3>5, <3>6 DEF RunPython
  <2>5. CASE UNCHANGED vars
    BY <2>5 DEF vars
  <2> QED BY <2>1, <2>2, <2>3, <2>4, <2>5 DEF Next
<1> QED BY <1>1, <1>2, PathInvariant, PTL DEF Spec, EnginesAgree, Native!Spec

-----------------------------------------------------------------------------
(* Walking a stretch backwards changes its two boundary legs only.         *)

\* The legs of a tour.
Legs(b, r) == [q \in 0..Len(r) |-> manhattan(Stop(b, r, q), Stop(b, r, q + 1))]

\* The length of a tour is the sum of its legs, a natural number each.
LEMMA TourIsLegs ==
  ASSUME NEW b \in Seq(Points), NEW r \in Seq(1..Len(b))
  PROVE  /\ route_distance(b, r) = SumFunctionOnSet(Legs(b, r), 0..Len(r))
         /\ \A q \in 0..Len(r) :
              /\ Legs(b, r)[q] = manhattan(Stop(b, r, q), Stop(b, r, q + 1))
              /\ Legs(b, r)[q] \in Nat
         /\ route_distance(b, r) \in Int
<1>1. \A q \in 0..Len(r) :
        /\ Legs(b, r)[q] = manhattan(Stop(b, r, q), Stop(b, r, q + 1))
        /\ Legs(b, r)[q] \in Nat
  BY StopType, ManhattanType DEF Legs
<1>2. route_distance(b, r) = SumFunctionOnSet(Legs(b, r), 0..Len(r))
  BY DEF route_distance, Legs
<1>3. IsFiniteSet(0..Len(r))
  BY FS_Interval
<1> QED BY <1>1, <1>2, <1>3, SumType

\* What reversing stops i..j does to the length of the whole tour is what Shorter
\* compares: the depot's ends included.
THEOREM ReversalDistance ==
  ASSUME NEW b \in Seq(Points), NEW r \in Seq(1..Len(b)), NEW i \in 1..Len(r),
         NEW j \in 1..Len(r), i < j
  PROVE  /\ route_distance(b, Reversed(r, i, j)) \in Int /\ route_distance(b, r) \in Int
         /\ route_distance(b, Reversed(r, i, j)) - route_distance(b, r)
              = (manhattan(Stop(b, r, i - 1), Stop(b, r, j))
                   + manhattan(Stop(b, r, i), Stop(b, r, j + 1)))
                - (manhattan(Stop(b, r, i - 1), Stop(b, r, i))
                   + manhattan(Stop(b, r, j), Stop(b, r, j + 1)))
<1> DEFINE n == Len(r)
           s == Reversed(r, i, j)
           turn(q) == IF q \in i..j THEN i + j - q ELSE q
           M(p, q) == manhattan(Stop(b, r, p), Stop(b, r, q))
           f == Legs(b, r)
           g == Legs(b, s)
           A == 0..n
           R == (A \ {i - 1}) \ {j}
           h == [q \in R |-> IF q \in i..(j - 1) THEN i + j - 1 - q ELSE q]
<1>0. n \in Nat /\ i \in 1..n /\ j \in 1..n /\ i < j
  OBVIOUS
<1>s. s \in Seq(1..Len(b)) /\ Len(s) = n /\ \A q \in 1..n : s[q] = r[turn(q)]
  <2>1. s = [q \in 1..n |-> r[turn(q)]]
    <3>1. \A q \in 1..n : (IF q \in i..j THEN r[i + j - q] ELSE r[q]) = r[turn(q)]
      OBVIOUS
    <3> QED BY <3>1 DEF Reversed
  <2>2. \A q \in 1..n : turn(q) \in 1..n
    BY <1>0
  <2>3. \A q \in 1..n : r[q] \in 1..Len(b)
    OBVIOUS
  <2> HIDE DEF s, turn, n
  <2>4. s \in [1..n -> 1..Len(b)]
    BY <2>1, <2>2, <2>3
  <2> QED BY <1>0, <2>1, <2>4
<1> HIDE DEF s
<1>t. \A q \in 0..(n + 1) : Stop(b, s, q) = Stop(b, r, turn(q))
  <2> SUFFICES ASSUME NEW q \in 0..(n + 1) PROVE Stop(b, s, q) = Stop(b, r, turn(q))
    OBVIOUS
  <2>1. CASE q \in 1..n
    <3>1. turn(q) \in 1..n
      BY <1>0, <2>1
    <3> QED BY <1>s, <2>1, <3>1 DEF Stop
  <2>2. CASE q \notin 1..n
    <3>1. turn(q) = q
      BY <1>0, <2>2
    <3> QED BY <1>s, <2>2, <3>1 DEF Stop
  <2> QED BY <2>1, <2>2
<1>f. \A q \in A : f[q] = M(q, q + 1) /\ f[q] \in Nat
  BY TourIsLegs
<1>g. \A q \in A : g[q] = M(turn(q), turn(q + 1)) /\ g[q] \in Nat
  <2>1. \A q \in A : q \in 0..(n + 1) /\ q + 1 \in 0..(n + 1)
    BY <1>0
  <2>2. \A q \in A : g[q] = manhattan(Stop(b, s, q), Stop(b, s, q + 1)) /\ g[q] \in Nat
    BY <1>s, TourIsLegs
  <2> HIDE DEF turn, g
  <2> QED BY <1>t, <2>1, <2>2
<1>d. /\ route_distance(b, r) = SumFunctionOnSet(f, A) /\ route_distance(b, r) \in Int
      /\ route_distance(b, s) = SumFunctionOnSet(g, A) /\ route_distance(b, s) \in Int
  BY <1>s, TourIsLegs
<1>m. \A p, q \in Int : M(p, q) = M(q, p)
  BY StopType, ManhattanType
<1> HIDE DEF f, g, M
<1>1. \A q \in R : g[q] = f[h[q]] /\ h[q] \in R /\ h[h[q]] = q
  <2> SUFFICES ASSUME NEW q \in R PROVE g[q] = f[h[q]] /\ h[q] \in R /\ h[h[q]] = q
    OBVIOUS
  <2>1. q \in A /\ q # i - 1 /\ q # j /\ q \in Int
    BY <1>0
  <2>2. CASE q \in i..(j - 1)
    <3>1. h[q] = i + j - 1 - q /\ h[q] \in R /\ h[q] \in i..(j - 1)
      BY <1>0, <2>2
    <3>2. h[h[q]] = q
      BY <1>0, <2>2, <3>1
    <3>3. turn(q) = h[q] + 1 /\ turn(q + 1) = h[q]
      BY <1>0, <2>1, <2>2, <3>1
    <3>4. g[q] = M(h[q] + 1, h[q])
      <4> HIDE DEF h, turn
      <4> QED BY <1>g, <2>1, <3>3
    <3>5. f[h[q]] = M(h[q], h[q] + 1) /\ h[q] \in Int
      <4> HIDE DEF h
      <4> QED BY <1>0, <1>f, <3>1
    <3> QED BY <1>m, <3>1, <3>2, <3>4, <3>5, SMTT(30)
  <2>3. CASE q \notin i..(j - 1)
    <3>1. h[q] = q
      BY <2>3
    <3>2. turn(q) = q /\ turn(q + 1) = q + 1
      BY <1>0, <2>1, <2>3
    <3> QED BY <1>f, <1>g, <2>1, <3>1, <3>2
  <2> QED BY <2>2, <2>3
<1>2. IsFiniteSet(A) /\ IsFiniteSet(A \ {i - 1}) /\ IsFiniteSet(R)
  <2>1. IsFiniteSet(A)
    BY <1>0, FS_Interval
  <2> HIDE DEF A
  <2> QED BY <2>1, FS_RemoveElement
<1>3. i - 1 \in A /\ j \in A \ {i - 1} /\ R \subseteq A
  BY <1>0
<1>4. h \in Bijection(R, R)
  <2>1. h \in [R -> R] /\ (\A p, q \in R : h[p] = h[q] => p = q) /\ \A q \in R : \E p \in R : h[p] = q
    <3>1. \A q \in R : h[q] \in R /\ h[h[q]] = q
      BY <1>1
    <3>2. h \in [R -> R]
      <4>1. h = [q \in R |-> h[q]]
        OBVIOUS
      <4> HIDE DEF h, R
      <4> QED BY <3>1, <4>1
    <3> HIDE DEF h, R
    <3> QED BY <3>1, <3>2
  <2> HIDE DEF h, R
  <2> QED BY <2>1, Fun_IsBij
<1>5. SumFunctionOnSet(g, R) = SumFunctionOnSet(f, R) /\ SumFunctionOnSet(f, R) \in Int
  <2>1. \A q \in R : f[q] \in Int
    BY <1>f, <1>3
  <2>2. \A q \in R : g[q] = f[h[q]]
    BY <1>1
  <2> HIDE DEF h, R
  <2> QED BY <1>2, <1>4, <2>1, <2>2, SumReindex, SumType, SMTT(30)
<1>6. /\ SumFunctionOnSet(f, A) = f[i - 1] + (f[j] + SumFunctionOnSet(f, R))
      /\ SumFunctionOnSet(g, A) = g[i - 1] + (g[j] + SumFunctionOnSet(g, R))
  <2>1. \A q \in A : f[q] \in Int /\ g[q] \in Int
    BY <1>f, <1>g, SMTT(30)
  <2> HIDE DEF A
  <2>2. /\ SumFunctionOnSet(f, A) = f[i - 1] + SumFunctionOnSet(f, A \ {i - 1})
        /\ SumFunctionOnSet(g, A) = g[i - 1] + SumFunctionOnSet(g, A \ {i - 1})
    BY <1>2, <1>3, <2>1, SumRemove
  <2>3. /\ SumFunctionOnSet(f, A \ {i - 1}) = f[j] + SumFunctionOnSet(f, R)
        /\ SumFunctionOnSet(g, A \ {i - 1}) = g[j] + SumFunctionOnSet(g, R)
    BY <1>2, <1>3, <2>1, SumRemove
  <2> QED BY <2>2, <2>3
<1>7. f[i - 1] = M(i - 1, i) /\ f[j] = M(j, j + 1) /\ f[i - 1] \in Int /\ f[j] \in Int
  BY <1>0, <1>3, <1>f
<1>8. g[i - 1] = M(i - 1, j) /\ g[j] = M(i, j + 1) /\ g[i - 1] \in Int /\ g[j] \in Int
  <2>1. turn(i - 1) = i - 1 /\ turn(i) = j /\ turn(j) = i /\ turn(j + 1) = j + 1 /\ (i - 1) + 1 = i
    BY <1>0
  <2> HIDE DEF turn
  <2> QED BY <1>3, <1>g, <2>1
<1>9. /\ route_distance(b, s) - route_distance(b, r) = (M(i - 1, j) + M(i, j + 1)) - (M(i - 1, i) + M(j, j + 1))
      /\ route_distance(b, s) \in Int /\ route_distance(b, r) \in Int
  <2> HIDE DEF A, R
  <2> QED BY <1>d, <1>5, <1>6, <1>7, <1>8, SMTT(30)
<1> QED BY <1>9 DEF M, s

\* Shorter is right about the whole tour.
LEMMA ShorterIsShorter ==
  ASSUME NEW b \in Seq(Points), NEW r \in Seq(1..Len(b)), NEW p \in Pairs(r)
  PROVE  Shorter(b, r, p[1], p[2])
           <=> route_distance(b, Reversed(r, p[1], p[2])) < route_distance(b, r)
<1> DEFINE i == p[1]
           j == p[2]
           d == route_distance(b, r)
           e == route_distance(b, Reversed(r, i, j))
           M(k, l) == manhattan(Stop(b, r, k), Stop(b, r, l))
<1>1. i \in 1..Len(r) /\ j \in 1..Len(r) /\ i < j
  BY DEF Pairs
<1> HIDE DEF i, j
<1>2. /\ e \in Int /\ d \in Int
      /\ e - d = (M(i - 1, j) + M(i, j + 1)) - (M(i - 1, i) + M(j, j + 1))
  BY <1>1, ReversalDistance
<1>3. \A k, l \in Int : M(k, l) \in Nat
  BY StopType, ManhattanType
<1>4. Shorter(b, r, i, j) <=> M(i - 1, j) + M(i, j + 1) < M(i - 1, i) + M(j, j + 1)
  BY DEF Shorter
<1> HIDE DEF M, d, e
<1>5. Shorter(b, r, i, j) <=> e < d
  <2>1. /\ M(i - 1, j) \in Nat /\ M(i, j + 1) \in Nat
        /\ M(i - 1, i) \in Nat /\ M(j, j + 1) \in Nat
    <3>1. i \in Int /\ j \in Int /\ i - 1 \in Int /\ j + 1 \in Int
      BY <1>1
    <3> QED BY <1>3, <3>1, Zenon
  <2>2. \A u, v \in Int, w, x, y, z \in Nat :
          v - u = (w + x) - (y + z) => (w + x < y + z <=> v < u)
    OBVIOUS
  <2> QED BY <1>2, <1>4, <2>1, <2>2
<1> QED BY <1>5 DEF d, e, i, j

\* Both engines only ever turn a stretch around when that makes the whole tour shorter.
THEOREM SwapsShortenTours == Spec => SwapsShorten
<1>1. PathInv /\ [Next]_vars =>
        [phase = "improve" /\ route' # route =>
           route_distance(bins, route') < route_distance(bins, route)]_vars
  <2> SUFFICES ASSUME PathInv, [Next]_vars, phase = "improve", route' # route
               PROVE  route_distance(bins, route') < route_distance(bins, route)
    OBVIOUS
  <2>1. bins \in Seq(Points) /\ route \in Seq(1..Len(bins)) /\ TypeInv
    BY DEF PathInv, TypeInv
  <2>2. ASSUME NEW p \in Pairs(route), Shorter(bins, route, p[1], p[2]),
               route' = Reversed(route, p[1], p[2])
        PROVE  route_distance(bins, route') < route_distance(bins, route)
    BY <2>1, <2>2, ShorterIsShorter
  <2>3. CASE Next
    <3>1. CASE Refuse
      BY <3>1 DEF Refuse
    <3>2. CASE Start
      BY <3>2 DEF Start, Native!Call
    <3>3. CASE RunNative
      <4>1. Native!Improve
        BY <3>3 DEF RunNative, Native!Work, Native!Visit, Native!Visited, Native!Return
      <4>2. /\ Native!FirstImproving \in Pairs(route)
            /\ Shorter(bins, route, Native!FirstImproving[1], Native!FirstImproving[2])
        BY <2>1, <4>1, FirstIsFirst DEF Native!Improve
      <4>3. route' = Reversed(route, Native!FirstImproving[1], Native!FirstImproving[2])
        BY <4>1, SameArithmetic DEF Native!Improve
      <4> QED BY <2>2, <4>2, <4>3
    <3>4. CASE RunPython
      <4>1. Swap /\ Engine = "python"
        BY <3>4 DEF RunPython, VisitNearest, BeginTwoOpt, Keep, Finish
      <4>2. scan \in Pairs(route)
        BY <4>1, SwapIsFirst
      <4> QED BY <2>2, <4>1, <4>2 DEF Swap
    <3> QED BY <2>3, <3>1, <3>2, <3>3, <3>4 DEF Next
  <2>4. CASE UNCHANGED vars
    BY <2>4 DEF vars
  <2> QED BY <2>3, <2>4
<1> QED BY <1>1, PathInvariant, PTL DEF Spec, SwapsShorten

\* For any number of bins anywhere: no stretch of the answer is better walked backwards.
THEOREM AnswerIsTwoOptimal == Spec => []TwoOptimal
<1>1. PathInv => TwoOptimal
  <2> SUFFICES ASSUME PathInv, phase = "done", NEW p \in Pairs(route)
               PROVE  route_distance(bins, route)
                        <= route_distance(bins, Reversed(route, p[1], p[2]))
    BY DEF TwoOptimal
  <2>1. bins \in Seq(Points) /\ route \in Seq(1..Len(bins)) /\ Native!Improving = {} /\ TypeInv
    BY DEF PathInv, TypeInv, ScanInv
  <2>2. ~Shorter(bins, route, p[1], p[2])
    BY <2>1, FirstIsFirst
  <2>3. ~(route_distance(bins, Reversed(route, p[1], p[2])) < route_distance(bins, route))
    BY <2>1, <2>2, ShorterIsShorter
  <2>4. /\ route_distance(bins, Reversed(route, p[1], p[2])) \in Int
        /\ route_distance(bins, route) \in Int
    <3>1. p[1] \in 1..Len(route) /\ p[2] \in 1..Len(route) /\ p[1] < p[2]
      BY DEF Pairs
    <3> QED BY <2>1, <3>1, ReversalDistance
  <2> QED BY <2>3, <2>4
<1> QED BY <1>1, PathInvariant, PTL

-----------------------------------------------------------------------------
(* The test oracle: dynamic programming finds the optimum.                 *)

\* The orders to visit the bins of S in.
Orders(b, S) ==
  {r \in Seq(1..Len(b)) :
     /\ \A p, q \in 1..Len(r) : r[p] = r[q] => p = q
     /\ {r[p] : p \in 1..Len(r)} = S}

\* The legs of a walk from the depot, without the way back, and their length.
OutLegs(b, r) == [q \in 0..(Len(r) - 1) |-> manhattan(Stop(b, r, q), Stop(b, r, q + 1))]
WayOut(b, r) == SumFunctionOnSet(OutLegs(b, r), 0..(Len(r) - 1))

\* How long the walks are that visit S and end in bin l, and the shortest of them.
Ways(b, S, l) == {WayOut(b, r) : r \in {q \in Orders(b, S) : q[Len(q)] = l}}
Least(b, S, l) == Min(Ways(b, S, l))

\* One entry of held_karp_exact's table, and a table of such entries.
Reach(b, g, S, l) ==
  IF S = {l} THEN manhattan(Depot, b[l])
  ELSE Min({g[S \ {l}][k] + manhattan(b[k], b[l]) : k \in S \ {l}})
Tables(b, g) == g = [S \in SUBSET (1..Len(b)) |-> [l \in S |-> Reach(b, g, S, l)]]

\* A nonempty set of natural numbers has one minimum.
LEMMA MinIsLeast ==
  ASSUME NEW X, X \subseteq Nat, X # {}
  PROVE  /\ Min(X) \in X /\ \A x \in X : Min(X) <= x
         /\ \A m \in X : (\A x \in X : m <= x) => m = Min(X)
<1>1. \E x \in X : \A y \in X : x <= y
  BY LeastNatural
<1>2. Min(X) \in X /\ \A x \in X : Min(X) <= x
  BY <1>1 DEF Min
<1>3. ASSUME NEW m \in X, \A x \in X : m <= x PROVE m = Min(X)
  <2>1. m \in Nat /\ Min(X) \in Nat /\ m <= Min(X) /\ Min(X) <= m
    BY <1>2, <1>3
  <2> QED BY <2>1
<1> QED BY <1>2, <1>3

\* The oracle looks up a table.
LEMMA OracleDef ==
  ASSUME NEW b
  PROVE  held_karp_exact(b) =
           IF b = <<>> THEN 0
           ELSE LET dp == CHOOSE g : Tables(b, g)
                IN Min({dp[1..Len(b)][l] + manhattan(b[l], Depot) : l \in 1..Len(b)})
BY Zenon DEF held_karp_exact, Tables, Reach

\* A walk without its last leg, and without any.
LEMMA WayOutType ==
  ASSUME NEW b \in Seq(Points), NEW r \in Seq(1..Len(b))
  PROVE  WayOut(b, r) \in Nat /\ (r = <<>> => WayOut(b, r) = 0)
<1>1. \A q \in 0..(Len(r) - 1) : OutLegs(b, r)[q] \in Nat
  BY StopType, ManhattanType DEF OutLegs
<1>2. IsFiniteSet(0..(Len(r) - 1))
  BY FS_Interval
<1>3. WayOut(b, r) \in Nat
  BY <1>1, <1>2, SumNat DEF WayOut
<1>4. r = <<>> => 0..(Len(r) - 1) = {}
  OBVIOUS
<1> QED BY <1>3, <1>4, SumEmpty DEF WayOut

\* Going on to one more bin adds one leg.
LEMMA WayOutAppend ==
  ASSUME NEW b \in Seq(Points), NEW r \in Seq(1..Len(b)), NEW l \in 1..Len(b)
  PROVE  /\ Append(r, l) \in Seq(1..Len(b))
         /\ WayOut(b, Append(r, l)) = WayOut(b, r) + manhattan(Stop(b, r, Len(r)), b[l])
<1> DEFINE n == Len(r)
           s == Append(r, l)
           f == OutLegs(b, s)
<1>1. /\ n \in Nat /\ s \in Seq(1..Len(b)) /\ Len(s) = n + 1
      /\ s[n + 1] = l /\ \A q \in 1..n : s[q] = r[q]
  OBVIOUS
<1> HIDE DEF s
<1>2. /\ \A q \in 0..n : Stop(b, s, q) = Stop(b, r, q)
      /\ Stop(b, s, n + 1) = b[l]
  BY <1>1 DEF Stop
<1>3. /\ \A q \in 0..n : f[q] = manhattan(Stop(b, s, q), Stop(b, s, q + 1)) /\ f[q] \in Nat
      /\ WayOut(b, s) = SumFunctionOnSet(f, 0..n)
  <2>1. Len(s) - 1 = n
    BY <1>1
  <2>2. \A q \in 0..n : f[q] = manhattan(Stop(b, s, q), Stop(b, s, q + 1)) /\ f[q] \in Nat
    BY <1>1, <2>1, StopType, ManhattanType DEF OutLegs
  <2> QED BY <2>1, <2>2 DEF WayOut
<1>4. \A q \in 0..(n - 1) : OutLegs(b, r)[q] = manhattan(Stop(b, r, q), Stop(b, r, q + 1))
  BY DEF OutLegs
<1> HIDE DEF f, n
<1>5. \A q \in 0..(n - 1) : q \in 0..n /\ q + 1 \in 0..n
  BY <1>1
<1>6. \A q \in 0..(n - 1) : f[q] = OutLegs(b, r)[q] /\ OutLegs(b, r)[q] \in Int
  BY <1>2, <1>3, <1>4, <1>5
<1>7. IsFiniteSet(0..n) /\ IsFiniteSet(0..(n - 1)) /\ n \in 0..n /\ (0..n) \ {n} = 0..(n - 1)
  <2>1. n \in Int /\ n - 1 \in Int /\ 0 \in Int
    BY <1>1
  <2>2. IsFiniteSet(0..n) /\ IsFiniteSet(0..(n - 1))
    BY <2>1, FS_Interval
  <2>3. n \in 0..n /\ (0..n) \ {n} = 0..(n - 1)
    BY <1>1
  <2> QED BY <2>2, <2>3
<1>8. SumFunctionOnSet(f, 0..n) = f[n] + SumFunctionOnSet(f, 0..(n - 1))
  <2>1. \A q \in 0..n : f[q] \in Int
    BY <1>3
  <2>2. SumFunctionOnSet(f, 0..n) = f[n] + SumFunctionOnSet(f, (0..n) \ {n})
    BY <1>7, <2>1, SumRemove
  <2> QED BY <1>7, <2>2
<1>9. SumFunctionOnSet(f, 0..(n - 1)) = WayOut(b, r)
  <2>1. SumFunctionOnSet(f, 0..(n - 1)) = SumFunctionOnSet(OutLegs(b, r), 0..(n - 1))
    <3> DEFINE S == 0..(n - 1)
               o == OutLegs(b, r)
    <3>1. IsFiniteSet(S) /\ \A q \in S : o[q] \in Int /\ f[q] = o[q]
      BY <1>6, <1>7
    <3> HIDE DEF S, o
    <3>2. SumFunctionOnSet(f, S) = SumFunctionOnSet(o, S)
      BY <3>1, SumSame
    <3> QED BY <3>2 DEF S, o
  <2> QED BY <2>1 DEF WayOut, n
<1>10. f[n] = manhattan(Stop(b, r, n), b[l]) /\ f[n] \in Nat /\ WayOut(b, r) \in Nat
  BY <1>2, <1>3, <1>7, WayOutType
<1>11. WayOut(b, s) = WayOut(b, r) + manhattan(Stop(b, r, n), b[l])
  BY <1>3, <1>8, <1>9, <1>10
<1> QED BY <1>1, <1>11 DEF s, n

\* A tour is a walk and the way back.
LEMMA TourIsWayAndBack ==
  ASSUME NEW b \in Seq(Points), NEW r \in Seq(1..Len(b))
  PROVE  route_distance(b, r) = WayOut(b, r) + manhattan(Stop(b, r, Len(r)), Depot)
<1> DEFINE n == Len(r)
           f == Legs(b, r)
<1>1. /\ n \in Nat /\ route_distance(b, r) = SumFunctionOnSet(f, 0..n)
      /\ \A q \in 0..n : f[q] = manhattan(Stop(b, r, q), Stop(b, r, q + 1)) /\ f[q] \in Nat
  BY TourIsLegs
<1>2. Stop(b, r, n + 1) = Depot
  BY DEF Stop
<1>3. \A q \in 0..(n - 1) : OutLegs(b, r)[q] = manhattan(Stop(b, r, q), Stop(b, r, q + 1))
  BY DEF OutLegs
<1> HIDE DEF f, n
<1>4. \A q \in 0..(n - 1) : q \in 0..n
  BY <1>1
<1>5. \A q \in 0..(n - 1) : f[q] = OutLegs(b, r)[q] /\ OutLegs(b, r)[q] \in Int
  BY <1>1, <1>3, <1>4
<1>6. IsFiniteSet(0..n) /\ IsFiniteSet(0..(n - 1)) /\ n \in 0..n /\ (0..n) \ {n} = 0..(n - 1)
  <2>1. n \in Int /\ n - 1 \in Int /\ 0 \in Int
    BY <1>1
  <2>2. IsFiniteSet(0..n) /\ IsFiniteSet(0..(n - 1))
    BY <2>1, FS_Interval
  <2>3. n \in 0..n /\ (0..n) \ {n} = 0..(n - 1)
    BY <1>1
  <2> QED BY <2>2, <2>3
<1>7. SumFunctionOnSet(f, 0..n) = f[n] + SumFunctionOnSet(f, 0..(n - 1))
  <2>1. \A q \in 0..n : f[q] \in Int
    BY <1>1
  <2>2. SumFunctionOnSet(f, 0..n) = f[n] + SumFunctionOnSet(f, (0..n) \ {n})
    BY <1>6, <2>1, SumRemove
  <2> QED BY <1>6, <2>2
<1>8. SumFunctionOnSet(f, 0..(n - 1)) = WayOut(b, r)
  <2>1. SumFunctionOnSet(f, 0..(n - 1)) = SumFunctionOnSet(OutLegs(b, r), 0..(n - 1))
    <3> DEFINE S == 0..(n - 1)
               o == OutLegs(b, r)
    <3>1. IsFiniteSet(S) /\ \A q \in S : o[q] \in Int /\ f[q] = o[q]
      BY <1>5, <1>6
    <3> HIDE DEF S, o
    <3>2. SumFunctionOnSet(f, S) = SumFunctionOnSet(o, S)
      BY <3>1, SumSame
    <3> QED BY <3>2 DEF S, o
  <2> QED BY <2>1 DEF WayOut, n
<1>9. f[n] = manhattan(Stop(b, r, n), Depot) /\ f[n] \in Nat /\ WayOut(b, r) \in Nat
  BY <1>1, <1>2, <1>6, WayOutType
<1>10. route_distance(b, r) = WayOut(b, r) + manhattan(Stop(b, r, n), Depot)
  BY <1>1, <1>7, <1>8, <1>9
<1> QED BY <1>10 DEF n

\* An order ends in one of its bins, and is empty if there are none.
LEMMA OrderEnds ==
  ASSUME NEW b \in Seq(Points), NEW S \in SUBSET (1..Len(b)), NEW r \in Orders(b, S)
  PROVE  /\ r \in Seq(1..Len(b)) /\ Len(r) \in Nat
         /\ S = {} => r = <<>>
         /\ S # {} => /\ Len(r) \in 1..Len(r) /\ r[Len(r)] \in S
                      /\ Stop(b, r, Len(r)) = b[r[Len(r)]]
<1>1. r \in Seq(1..Len(b)) /\ S = {r[p] : p \in 1..Len(r)} /\ Len(r) \in Nat
  BY DEF Orders
<1>2. ASSUME S = {} PROVE r = <<>>
  <2>1. 1..Len(r) = {}
    BY <1>1, <1>2
  <2>2. Len(r) = 0
    BY <1>1, <2>1
  <2> QED BY <1>1, <2>2
<1>3. ASSUME S # {}
      PROVE  /\ Len(r) \in 1..Len(r) /\ r[Len(r)] \in S /\ Stop(b, r, Len(r)) = b[r[Len(r)]]
  <2>1. 1..Len(r) # {}
    BY <1>1, <1>3
  <2>2. Len(r) \in 1..Len(r)
    BY <1>1, <2>1
  <2> QED BY <1>1, <2>2 DEF Stop
<1> QED BY <1>1, <1>2, <1>3

\* An order of the other bins, and then l, is an order.
LEMMA OrderGrows ==
  ASSUME NEW b \in Seq(Points), NEW S \in SUBSET (1..Len(b)), NEW l \in S,
         NEW f \in Orders(b, S \ {l})
  PROVE  /\ Append(f, l) \in Orders(b, S)
         /\ Append(f, l)[Len(Append(f, l))] = l
<1> DEFINE r == Append(f, l)
           n == Len(f)
<1>1. /\ f \in Seq(1..Len(b)) /\ n \in Nat /\ l \in 1..Len(b)
      /\ \A p, q \in 1..n : f[p] = f[q] => p = q
      /\ {f[p] : p \in 1..n} = S \ {l}
  BY DEF Orders
<1>2. /\ r \in Seq(1..Len(b)) /\ Len(r) = n + 1 /\ r[n + 1] = l
      /\ \A q \in 1..n : r[q] = f[q]
  BY <1>1
<1> HIDE DEF r, n
<1>3. \A p \in 1..(n + 1) : p \in 1..n \/ p = n + 1
  BY <1>1
<1>4. \A p \in 1..n : f[p] # l /\ f[p] \in S /\ p \in 1..(n + 1)
  BY <1>1
<1>5. \A p, q \in 1..(n + 1) : r[p] = r[q] => p = q
  BY <1>1, <1>2, <1>3, <1>4
<1>6. {r[p] : p \in 1..(n + 1)} = S
  <2>1. n + 1 \in 1..(n + 1)
    BY <1>1
  <2>2. ASSUME NEW x \in S PROVE \E p \in 1..(n + 1) : r[p] = x
    <3>1. CASE x = l
      BY <1>2, <2>1, <3>1
    <3>2. CASE x # l
      <4>1. PICK p \in 1..n : f[p] = x
        BY <1>1, <3>2
      <4> QED BY <1>2, <1>4, <4>1
    <3> QED BY <3>1, <3>2
  <2>3. \A p \in 1..(n + 1) : r[p] \in S
    BY <1>2, <1>3, <1>4
  <2> DEFINE T == {r[p] : p \in 1..(n + 1)}
  <2>4. \A x : x \in T <=> x \in S
    BY <2>2, <2>3
  <2> HIDE DEF T
  <2>5. T = S
    BY <2>4
  <2> QED BY <2>5 DEF T
<1> QED BY <1>2, <1>5, <1>6 DEF Orders, r

\* Every order that ends in l is an order of the other bins, and then l.
LEMMA OrderShrinks ==
  ASSUME NEW b \in Seq(Points), NEW S \in SUBSET (1..Len(b)), NEW l \in S,
         NEW r \in Orders(b, S), r[Len(r)] = l
  PROVE  \E f \in Orders(b, S \ {l}) : r = Append(f, l)
<1> DEFINE n == Len(r)
           f == [p \in 1..(n - 1) |-> r[p]]
<1>1. /\ r \in Seq(1..Len(b)) /\ n \in Nat /\ n \in 1..n
      /\ \A p, q \in 1..n : r[p] = r[q] => p = q
      /\ {r[p] : p \in 1..n} = S
  BY OrderEnds DEF Orders
<1>2. /\ f \in Seq(1..Len(b)) /\ Len(f) = n - 1
      /\ \A p \in 1..(n - 1) : f[p] = r[p]
  <2>1. \A p \in 1..(n - 1) : r[p] \in 1..Len(b)
    BY <1>1
  <2>2. n - 1 \in Nat /\ f \in [1..(n - 1) -> 1..Len(b)]
    BY <1>1, <2>1
  <2>3. \A p \in 1..(n - 1) : f[p] = r[p]
    OBVIOUS
  <2> DEFINE m == n - 1
  <2> HIDE DEF f, n
  <2>4. m \in Nat /\ f \in [1..m -> 1..Len(b)]
    BY <2>2
  <2> HIDE DEF m
  <2>5. f \in Seq(1..Len(b)) /\ Len(f) = m
    BY <2>4
  <2> QED BY <2>3, <2>5 DEF m
<1> HIDE DEF f, n
<1>3. \A p \in 1..n : p \in 1..(n - 1) \/ p = n
  BY <1>1
<1>4. \A p \in 1..(n - 1) : p \in 1..n /\ p # n
  BY <1>1
<1>5. r[n] = l
  BY DEF n
<1>6. r = Append(f, l)
  <2>1. Append(f, l) \in Seq(1..Len(b)) /\ Len(Append(f, l)) = n
    BY <1>1, <1>2
  <2>2. \A p \in 1..n : Append(f, l)[p] = r[p]
    BY <1>1, <1>2, <1>3, <1>5
  <2> QED BY <1>1, <2>1, <2>2, SeqEqual DEF n
<1>7. \A p, q \in 1..(n - 1) : f[p] = f[q] => p = q
  BY <1>1, <1>2, <1>4
<1>8. {f[p] : p \in 1..(n - 1)} = S \ {l}
  <2> DEFINE T == {f[p] : p \in 1..(n - 1)}
  <2>1. ASSUME NEW x \in T PROVE x \in S \ {l}
    <3>1. PICK p \in 1..(n - 1) : x = f[p]
      OBVIOUS
    <3> QED BY <1>1, <1>2, <1>4, <1>5, <3>1
  <2>2. ASSUME NEW x \in S \ {l} PROVE x \in T
    <3>1. PICK p \in 1..n : x = r[p]
      BY <1>1
    <3> QED BY <1>2, <1>3, <1>5, <3>1
  <2> HIDE DEF T
  <2>3. T = S \ {l}
    BY <2>1, <2>2
  <2> QED BY <2>3 DEF T
<1>9. f \in Orders(b, S \ {l})
  BY <1>2, <1>7, <1>8 DEF Orders
<1> QED BY <1>6, <1>9

\* The lengths of walks are natural numbers, and some order ends in each bin.
LEMMA WaysExist ==
  ASSUME NEW b \in Seq(Points), NEW S \in SUBSET (1..Len(b)), NEW l \in S
  PROVE  Ways(b, S, l) \subseteq Nat /\ Ways(b, S, l) # {}
<1> DEFINE Ends(T, k) == {r \in Orders(b, T) : r[Len(r)] = k}
           Bad == {T \in SUBSET S : \E k \in T : Ends(T, k) = {}}
<1>0. IsFiniteSet(S)
  <2>1. IsFiniteSet(1..Len(b))
    BY FS_Interval
  <2> QED BY <2>1, FS_Subset
<1>1. Bad = {}
  <2> SUFFICES ASSUME Bad # {} PROVE FALSE
    OBVIOUS
  <2>1. PICK T \in Bad : \A U \in Bad : Cardinality(T) <= Cardinality(U)
    BY <1>0, SmallestSubset
  <2>2. PICK k \in T : Ends(T, k) = {}
    OBVIOUS
  <2>3. T \in SUBSET (1..Len(b)) /\ IsFiniteSet(T) /\ T \ {k} \in SUBSET (1..Len(b))
    BY <1>0, FS_Subset
  <2>4. ASSUME NEW f \in Orders(b, T \ {k}) PROVE FALSE
    <3>1. Append(f, k) \in Ends(T, k)
      BY <2>3, OrderGrows
    <3> QED BY <2>2, <3>1
  <2>5. T \ {k} # {}
    <3> SUFFICES ASSUME T \ {k} = {} PROVE FALSE
      OBVIOUS
    <3>1. <<>> \in Orders(b, {})
      <4>1. <<>> \in Seq(1..Len(b)) /\ Len(<<>>) = 0 /\ 1..0 = {}
        OBVIOUS
      <4> QED BY <4>1 DEF Orders
    <3> QED BY <2>4, <3>1
  <2>6. PICK m \in T \ {k} : TRUE
    BY <2>5
  <2>7. T \ {k} \in SUBSET S /\ T \ {k} \notin Bad
    <3>1. Cardinality(T) \in Nat /\ Cardinality(T \ {k}) = Cardinality(T) - 1
      BY <2>3, FS_RemoveElement, FS_CardinalityType
    <3> QED BY <2>1, <3>1, SMTT(30)
  <2>8. Ends(T \ {k}, m) # {}
    BY <2>7
  <2> QED BY <2>4, <2>8
<1>2. Ends(S, l) # {}
  BY <1>1
<1>3. \A r \in Orders(b, S) : WayOut(b, r) \in Nat
  BY WayOutType DEF Orders
<1> QED BY <1>2, <1>3 DEF Ways

\* One more leg makes a walk through the rest one through S that ends in l.
LEMMA WayGrows ==
  ASSUME NEW b \in Seq(Points), NEW S \in SUBSET (1..Len(b)), NEW l \in S,
         NEW f \in Orders(b, S \ {l}), S # {l}
  PROVE  /\ f[Len(f)] \in S \ {l}
         /\ WayOut(b, Append(f, l)) = WayOut(b, f) + manhattan(b[f[Len(f)]], b[l])
         /\ WayOut(b, Append(f, l)) \in Ways(b, S, l)
<1> DEFINE T == S \ {l}
<1>1. T \in SUBSET (1..Len(b)) /\ T # {} /\ f \in Orders(b, T) /\ l \in 1..Len(b)
  OBVIOUS
<1> HIDE DEF T
<1>2. f \in Seq(1..Len(b)) /\ f[Len(f)] \in T /\ Stop(b, f, Len(f)) = b[f[Len(f)]]
  BY <1>1, OrderEnds
<1>3. WayOut(b, Append(f, l)) = WayOut(b, f) + manhattan(b[f[Len(f)]], b[l])
  BY <1>1, <1>2, WayOutAppend
<1>4. Append(f, l) \in Orders(b, S) /\ Append(f, l)[Len(Append(f, l))] = l
  BY OrderGrows
<1> QED BY <1>2, <1>3, <1>4 DEF T, Ways

\* Every walk through S that ends in l is a walk through the rest and one more leg.
LEMMA WayShrinks ==
  ASSUME NEW b \in Seq(Points), NEW S \in SUBSET (1..Len(b)), NEW l \in S,
         NEW v \in Ways(b, S, l), S # {l}
  PROVE  \E f \in Orders(b, S \ {l}) : v = WayOut(b, Append(f, l))
<1>1. PICK r \in Orders(b, S) : r[Len(r)] = l /\ v = WayOut(b, r)
  BY DEF Ways
<1>2. PICK f \in Orders(b, S \ {l}) : r = Append(f, l)
  BY <1>1, OrderShrinks, ZenonT(60)
<1> QED BY <1>1, <1>2

\* A table entry is the shortest way if the entries it is computed from are.
LEMMA ReachIsLeast ==
  ASSUME NEW b \in Seq(Points), NEW S \in SUBSET (1..Len(b)), NEW l \in S, NEW g,
         \A k \in S \ {l} : g[S \ {l}][k] = Least(b, S \ {l}, k)
  PROVE  Reach(b, g, S, l) = Least(b, S, l)
<1>0. l \in 1..Len(b) /\ S \ {l} \in SUBSET (1..Len(b))
  OBVIOUS
<1>1. CASE S = {l}
  <2>1. ASSUME NEW v \in Ways(b, S, l) PROVE v = manhattan(Depot, b[l])
    <3>1. PICK r \in Orders(b, S) : r[Len(r)] = l /\ v = WayOut(b, r)
      BY DEF Ways
    <3>2. PICK f \in Orders(b, S \ {l}) : r = Append(f, l)
      BY <3>1, OrderShrinks
    <3>3. S \ {l} = {}
      BY <1>1
    <3>4. f = <<>> /\ f \in Seq(1..Len(b))
      BY <1>0, <3>3, OrderEnds
    <3>5. v = WayOut(b, f) + manhattan(Stop(b, f, Len(f)), b[l]) /\ WayOut(b, f) = 0
      <4>1. WayOut(b, Append(f, l)) = WayOut(b, f) + manhattan(Stop(b, f, Len(f)), b[l])
        BY <1>0, <3>4, WayOutAppend
      <4>2. WayOut(b, f) = 0
        BY <3>4, WayOutType
      <4> QED BY <3>1, <3>2, <4>1, <4>2
    <3>6. Stop(b, f, Len(f)) = Depot
      BY <3>4 DEF Stop
    <3>7. manhattan(Depot, b[l]) \in Nat
      <4>1. b[l] \in Nat \X Nat /\ Depot \in Nat \X Nat
        BY <1>0, PointsAssumption DEF Depot
      <4> QED BY <4>1, ManhattanType
    <3> QED BY <3>5, <3>6, <3>7
  <2>2. Least(b, S, l) \in Ways(b, S, l)
    BY WaysExist, MinIsLeast DEF Least
  <2> QED BY <1>1, <2>1, <2>2 DEF Reach
<1>2. CASE S # {l}
  <2> DEFINE D(k) == manhattan(b[k], b[l])
             X == {g[S \ {l}][k] + D(k) : k \in S \ {l}}
  <2>1. \A k \in S \ {l} : D(k) \in Nat
    <3>1. \A k \in 1..Len(b) : b[k] \in Nat \X Nat
      BY PointsAssumption
    <3> QED BY <1>0, <3>1, ManhattanType
  <2>2. ASSUME NEW k \in S \ {l}
        PROVE  /\ Least(b, S \ {l}, k) \in Ways(b, S \ {l}, k) /\ Ways(b, S \ {l}, k) \subseteq Nat
               /\ \A w \in Ways(b, S \ {l}, k) : Least(b, S \ {l}, k) <= w
    BY <1>0, WaysExist, MinIsLeast DEF Least
  <2>3. Ways(b, S, l) \subseteq Nat /\ Ways(b, S, l) # {}
    BY WaysExist
  <2>4. X \subseteq Ways(b, S, l)
    <3>1. ASSUME NEW k \in S \ {l} PROVE g[S \ {l}][k] + D(k) \in Ways(b, S, l)
      <4>1. PICK f \in Orders(b, S \ {l}) : f[Len(f)] = k /\ Least(b, S \ {l}, k) = WayOut(b, f)
        BY <2>2 DEF Ways
      <4>2. /\ WayOut(b, Append(f, l)) = WayOut(b, f) + manhattan(b[f[Len(f)]], b[l])
            /\ WayOut(b, Append(f, l)) \in Ways(b, S, l)
        BY <1>2, WayGrows
      <4>3. g[S \ {l}][k] = WayOut(b, f)
        BY <4>1
      <4> QED BY <4>1, <4>2, <4>3
    <3> QED BY <3>1
  <2>5. X # {}
    <3>1. S \ {l} # {}
      BY <1>2
    <3> QED BY <3>1
  <2>6. ASSUME NEW v \in Ways(b, S, l) PROVE \E x \in X : x <= v
    <3>1. PICK f \in Orders(b, S \ {l}) : v = WayOut(b, Append(f, l))
      BY <1>2, WayShrinks
    <3> DEFINE k == f[Len(f)]
               w == WayOut(b, f)
    <3>2. k \in S \ {l} /\ v = w + D(k) /\ w \in Ways(b, S \ {l}, k)
      BY <1>2, <3>1, WayGrows DEF Ways
    <3> HIDE DEF k, w
    <3> DEFINE x == g[S \ {l}][k]
    <3>3. x = Least(b, S \ {l}, k)
      BY <3>2
    <3>4. x + D(k) \in X
      BY <3>2
    <3>5. x \in Nat /\ w \in Nat /\ x <= w /\ D(k) \in Nat
      <4>1. D(k) \in Nat
        BY <2>1, <3>2
      <4> HIDE DEF x, D
      <4>2. x \in Ways(b, S \ {l}, k) /\ Ways(b, S \ {l}, k) \subseteq Nat /\ x <= w
        BY <2>2, <3>2, <3>3
      <4> QED BY <3>2, <4>1, <4>2
    <3> HIDE DEF x, X, D
    <3>6. x + D(k) <= v
      BY <3>2, <3>5
    <3> QED BY <3>4, <3>6
  <2>7. Reach(b, g, S, l) = Min(X)
    BY <1>2 DEF Reach
  <2> HIDE DEF X, D
  <2>8. X \subseteq Nat /\ Min(X) \in X /\ \A x \in X : Min(X) <= x
    BY <2>3, <2>4, <2>5, MinIsLeast
  <2>9. \A v \in Ways(b, S, l) : Min(X) <= v
    <3> SUFFICES ASSUME NEW v \in Ways(b, S, l) PROVE Min(X) <= v
      OBVIOUS
    <3>1. PICK x \in X : x <= v
      BY <2>6
    <3>2. x \in Nat /\ v \in Nat /\ Min(X) \in Nat /\ Min(X) <= x
      BY <2>3, <2>8
    <3> QED BY <3>1, <3>2
  <2> QED BY <2>3, <2>4, <2>7, <2>8, <2>9, MinIsLeast DEF Least
<1> QED BY <1>1, <1>2

\* The table exists: the shortest ways satisfy its recursion.
LEMMA TableExists ==
  ASSUME NEW b \in Seq(Points)
  PROVE  \E g : Tables(b, g)
<1> DEFINE g == [S \in SUBSET (1..Len(b)) |-> [l \in S |-> Least(b, S, l)]]
<1>1. \A S \in SUBSET (1..Len(b)) : \A l \in S : g[S][l] = Least(b, S, l)
  OBVIOUS
<1>2. ASSUME NEW S \in SUBSET (1..Len(b)), NEW l \in S PROVE Reach(b, g, S, l) = Least(b, S, l)
  <2>1. S \ {l} \in SUBSET (1..Len(b))
    OBVIOUS
  <2>2. \A k \in S \ {l} : g[S \ {l}][k] = Least(b, S \ {l}, k)
    BY <1>1, <2>1
  <2> HIDE DEF g
  <2> QED BY <2>2, ReachIsLeast
<1>3. g = [S \in SUBSET (1..Len(b)) |-> [l \in S |-> Reach(b, g, S, l)]]
  <2> DEFINE e == [S \in SUBSET (1..Len(b)) |-> [l \in S |-> Reach(b, g, S, l)]]
  <2>1. ASSUME NEW S \in SUBSET (1..Len(b)) PROVE g[S] = [l \in S |-> Reach(b, g, S, l)]
    <3>1. g[S] = [l \in S |-> Least(b, S, l)]
      OBVIOUS
    <3> HIDE DEF g
    <3> QED BY <1>2, <3>1
  <2>2. DOMAIN g = SUBSET (1..Len(b)) /\ g = [S \in DOMAIN g |-> g[S]]
    OBVIOUS
  <2> HIDE DEF g
  <2> QED BY <2>1, <2>2
<1> HIDE DEF g
<1> QED BY <1>3 DEF Tables

\* Every table of the recursion holds the shortest ways.
LEMMA TableIsLeast ==
  ASSUME NEW b \in Seq(Points), NEW g, Tables(b, g),
         NEW S \in SUBSET (1..Len(b)), NEW l \in S
  PROVE  g[S][l] = Least(b, S, l)
<1> DEFINE Bad == {T \in SUBSET S : \E k \in T : g[T][k] # Least(b, T, k)}
<1>0. IsFiniteSet(S)
  <2>1. IsFiniteSet(1..Len(b))
    BY FS_Interval
  <2> QED BY <2>1, FS_Subset
<1> SUFFICES ASSUME Bad # {} PROVE FALSE
  OBVIOUS
<1>1. PICK T \in Bad : \A U \in Bad : Cardinality(T) <= Cardinality(U)
  BY <1>0, SmallestSubset
<1>2. PICK k \in T : g[T][k] # Least(b, T, k)
  OBVIOUS
<1>3. T \in SUBSET (1..Len(b)) /\ IsFiniteSet(T)
  BY <1>0, FS_Subset
<1>4. T \ {k} \in SUBSET S /\ T \ {k} \notin Bad
  <2>1. Cardinality(T) \in Nat /\ Cardinality(T \ {k}) = Cardinality(T) - 1
    BY <1>3, FS_RemoveElement, FS_CardinalityType
  <2> QED BY <1>1, <2>1
<1>5. \A m \in T \ {k} : g[T \ {k}][m] = Least(b, T \ {k}, m)
  BY <1>4
<1>6. g[T][k] = Reach(b, g, T, k)
  BY <1>3 DEF Tables
<1> HIDE DEF Bad
<1> QED BY <1>2, <1>3, <1>5, <1>6, ReachIsLeast

\* The dynamic program finds the length of the shortest tour, for any number of bins.
THEOREM OracleIsOptimal ==
  ASSUME NEW b \in Seq(Points)
  PROVE  held_karp_exact(b) = Min({route_distance(b, r) : r \in Orders(b, 1..Len(b))})
<1> DEFINE All == 1..Len(b)
           T == {route_distance(b, r) : r \in Orders(b, All)}
<1>1. ASSUME NEW r \in Orders(b, All)
      PROVE  r \in Seq(1..Len(b)) /\ route_distance(b, r) \in Nat
  <2>1. r \in Seq(1..Len(b))
    BY DEF Orders
  <2>2. Stop(b, r, Len(r)) \in Nat \X Nat /\ Depot \in Nat \X Nat
    BY <2>1, StopType DEF Depot
  <2>3. WayOut(b, r) \in Nat /\ manhattan(Stop(b, r, Len(r)), Depot) \in Nat
    BY <2>1, <2>2, WayOutType, ManhattanType
  <2> QED BY <2>1, <2>3, TourIsWayAndBack
<1>2. CASE b = <<>>
  <2>1. All = {} /\ All \in SUBSET (1..Len(b))
    BY <1>2
  <2>2. \A r \in Orders(b, All) : r = <<>>
    BY <2>1, OrderEnds
  <2>3. <<>> \in Orders(b, All)
    <3>1. <<>> \in Seq(1..Len(b)) /\ Len(<<>>) = 0 /\ 1..0 = {}
      OBVIOUS
    <3> QED BY <2>1, <3>1 DEF Orders
  <2>4. route_distance(b, <<>>) = 0
    <3>1. <<>> \in Seq(1..Len(b))
      OBVIOUS
    <3>2. route_distance(b, <<>>) = WayOut(b, <<>>) + manhattan(Stop(b, <<>>, Len(<<>>)), Depot)
      BY <3>1, TourIsWayAndBack
    <3>3. WayOut(b, <<>>) = 0
      BY <3>1, WayOutType
    <3>4. Stop(b, <<>>, Len(<<>>)) = Depot /\ manhattan(Depot, Depot) = 0
      BY DEF Stop, Depot, manhattan, Abs
    <3> QED BY <3>2, <3>3, <3>4
  <2>5. T = {0}
    BY <2>2, <2>3, <2>4
  <2>6. Min({0}) = 0
    <3>1. {0} \subseteq Nat /\ {0} # {}
      OBVIOUS
    <3>2. Min({0}) \in {0}
      BY <3>1, MinIsLeast
    <3> QED BY <3>2
  <2> QED BY <1>2, <2>5, <2>6, OracleDef
<1>3. CASE b # <<>>
  <2> DEFINE dp == CHOOSE g : Tables(b, g)
             X == {dp[All][l] + manhattan(b[l], Depot) : l \in All}
  <2>1. held_karp_exact(b) = Min(X)
    BY <1>3, OracleDef
  <2>2. Tables(b, dp)
    BY TableExists
  <2> HIDE DEF dp
  <2>3. All # {}
    <3>1. Len(b) \in Nat /\ Len(b) # 0
      BY <1>3, EmptySeq
    <3>2. 1 \in All
      BY <3>1
    <3> QED BY <3>2
  <2>4. \A l \in All : dp[All][l] = Least(b, All, l)
    BY <2>2, TableIsLeast
  <2>5. ASSUME NEW r \in Orders(b, All)
        PROVE  /\ r[Len(r)] \in All
               /\ route_distance(b, r) = WayOut(b, r) + manhattan(b[r[Len(r)]], Depot)
    <3>1. r[Len(r)] \in All /\ Stop(b, r, Len(r)) = b[r[Len(r)]]
      BY <2>3, OrderEnds
    <3>2. route_distance(b, r) = WayOut(b, r) + manhattan(Stop(b, r, Len(r)), Depot)
      BY <1>1, TourIsWayAndBack
    <3> QED BY <3>1, <3>2
  <2>6. ASSUME NEW l \in All
        PROVE  /\ Least(b, All, l) \in Ways(b, All, l) /\ Ways(b, All, l) \subseteq Nat
               /\ \A w \in Ways(b, All, l) : Least(b, All, l) <= w
    BY WaysExist, MinIsLeast DEF Least
  <2>7. X \subseteq T
    <3>1. ASSUME NEW l \in All PROVE dp[All][l] + manhattan(b[l], Depot) \in T
      <4>1. PICK r \in Orders(b, All) : r[Len(r)] = l /\ Least(b, All, l) = WayOut(b, r)
        BY <2>6 DEF Ways
      <4>2. route_distance(b, r) = WayOut(b, r) + manhattan(b[r[Len(r)]], Depot)
        BY <2>5
      <4>3. route_distance(b, r) = dp[All][l] + manhattan(b[l], Depot)
        BY <2>4, <4>1, <4>2
      <4> QED BY <4>3
    <3> QED BY <3>1
  <2>8. ASSUME NEW t \in T PROVE \E x \in X : x <= t
    <3>1. PICK r \in Orders(b, All) : t = route_distance(b, r)
      OBVIOUS
    <3> DEFINE l == r[Len(r)]
               x == dp[All][l] + manhattan(b[l], Depot)
    <3>2. l \in All /\ t = WayOut(b, r) + manhattan(b[l], Depot)
      BY <2>5, <3>1
    <3>3. x \in X
      BY <3>2
    <3>4. WayOut(b, r) \in Ways(b, All, l)
      BY DEF Ways
    <3>5. manhattan(b[l], Depot) \in Nat
      <4>1. b[l] \in Nat \X Nat /\ Depot \in Nat \X Nat
        BY <3>2, PointsAssumption DEF Depot
      <4> QED BY <4>1, ManhattanType
    <3>6. dp[All][l] = Least(b, All, l)
      BY <2>4, <3>2
    <3> HIDE DEF l
    <3>7. Least(b, All, l) <= WayOut(b, r) /\ Least(b, All, l) \in Nat /\ WayOut(b, r) \in Nat
      BY <2>6, <3>2, <3>4
    <3>8. x <= t
      BY <3>2, <3>5, <3>6, <3>7
    <3> QED BY <3>3, <3>8
  <2>9. T \subseteq Nat
    BY <1>1
  <2>10. X # {}
    BY <2>3
  <2> HIDE DEF X, T
  <2>11. X \subseteq Nat /\ Min(X) \in X /\ \A x \in X : Min(X) <= x
    BY <2>7, <2>9, <2>10, MinIsLeast
  <2>12. ASSUME NEW t \in T PROVE Min(X) <= t
    <3>1. PICK x \in X : x <= t
      BY <2>8
    <3>2. x \in Nat /\ t \in Nat /\ Min(X) \in Nat /\ Min(X) <= x
      BY <2>9, <2>11
    <3> QED BY <3>1, <3>2
  <2>13. Min(X) = Min(T)
    BY <2>7, <2>9, <2>11, <2>12, MinIsLeast
  <2> QED BY <2>1, <2>13 DEF T
<1> QED BY <1>2, <1>3

\* The orders of all bins are the permutations of their indices.
LEMMA OrdersAreBijections ==
  ASSUME NEW b \in Seq(Points)
  PROVE  Orders(b, 1..Len(b))
           = {[p \in 1..Len(b) |-> f[p]] : f \in Bijection(1..Len(b), 1..Len(b))}
<1> DEFINE n == Len(b)
           P == {[p \in 1..n |-> f[p]] : f \in Bijection(1..n, 1..n)}
<1>0. n \in Nat /\ IsFiniteSet(1..n) /\ Cardinality(1..n) = n
  <2>1. n \in Nat
    OBVIOUS
  <2> HIDE DEF n
  <2>2. 1 \in Int /\ n \in Int
    BY <2>1
  <2> QED BY <2>1, <2>2, FS_Interval
<1> HIDE DEF n
<1>1. ASSUME NEW r \in Orders(b, 1..n) PROVE r \in P
  <2>1. /\ r \in Seq(1..n) /\ Len(r) \in Nat
        /\ \A p, q \in 1..Len(r) : r[p] = r[q] => p = q
        /\ {r[p] : p \in 1..Len(r)} = 1..n
    <3>1. /\ r \in Seq(1..n)
          /\ \A p, q \in 1..Len(r) : r[p] = r[q] => p = q
          /\ {r[p] : p \in 1..Len(r)} = 1..n
      BY Zenon DEF Orders, n
    <3> QED BY <3>1
  <2> DEFINE m == Len(r)
  <2>2. /\ r \in [1..m -> 1..n] /\ m \in Nat
        /\ \A p, q \in 1..m : r[p] = r[q] => p = q
        /\ \A k \in 1..n : \E p \in 1..m : r[p] = k
    BY <2>1
  <2> HIDE DEF m
  <2>3. r \in Bijection(1..m, 1..n)
    BY <2>2, Fun_IsBij
  <2>4. IsFiniteSet(1..m) /\ Cardinality(1..m) = m
    <3>1. 1 \in Int /\ m \in Int
      BY <2>2
    <3> QED BY <2>2, <3>1, FS_Interval
  <2>5. Cardinality(1..n) = Cardinality(1..m)
    BY <2>3, <2>4, FS_Bijection DEF ExistsBijection
  <2>6. m = n
    BY <1>0, <2>4, <2>5
  <2>7. r = [p \in 1..n |-> r[p]] /\ r \in Bijection(1..n, 1..n)
    BY <2>2, <2>3, <2>6
  <2> QED BY <2>7
<1>2. ASSUME NEW r \in P PROVE r \in Orders(b, 1..n)
  <2>1. PICK f \in Bijection(1..n, 1..n) : r = [p \in 1..n |-> f[p]]
    OBVIOUS
  <2>2. /\ f \in [1..n -> 1..n] /\ \A p, q \in 1..n : f[p] = f[q] => p = q
        /\ \A k \in 1..n : \E p \in 1..n : f[p] = k
    <3> DEFINE N == 1..n
    <3>1. f \in Bijection(N, N)
      OBVIOUS
    <3> HIDE DEF N
    <3>2. /\ f \in [N -> N] /\ \A p, q \in N : f[p] = f[q] => p = q
          /\ \A k \in N : \E p \in N : f[p] = k
      BY <3>1, Fun_BijectionProperties
    <3> QED BY <3>2 DEF N
  <2>3. r = f
    BY <2>1, <2>2
  <2>4. r \in Seq(1..n) /\ Len(r) = n
    BY <1>0, <2>2, <2>3, SMTT(30)
  <2>5. {r[p] : p \in 1..n} = 1..n
    BY <2>2, <2>3
  <2> QED BY <2>2, <2>3, <2>4, <2>5 DEF Orders, n
<1> HIDE DEF P
<1>3. Orders(b, 1..n) = P
  <2>1. \A r : r \in Orders(b, 1..n) <=> r \in P
    BY <1>1, <1>2
  <2> QED BY <2>1
<1> QED BY <1>3 DEF P, n

\* For every order whose path is answered, the oracle is the optimum over all orders of
\* its bins.
THEOREM OracleExact == Spec => []OracleIsExact
<1>1. PathInv => OracleIsExact
  <2> SUFFICES ASSUME PathInv PROVE OracleIsExact
    OBVIOUS
  <2>1. bins \in Seq(Points)
    BY DEF PathInv, TypeInv
  <2>2. held_karp_exact(bins) = Min({route_distance(bins, r) : r \in Orders(bins, 1..Len(bins))})
    BY <2>1, OracleIsOptimal
  <2>3. Orders(bins, 1..Len(bins))
          = {[p \in 1..Len(bins) |-> f[p]] : f \in Bijection(1..Len(bins), 1..Len(bins))}
    BY <2>1, OrdersAreBijections
  <2> QED BY <2>2, <2>3 DEF OracleIsExact
<1> QED BY <1>1, PathInvariant, PTL

\* No engine's answer is shorter than what the oracle says, so that the tests may take
\* the oracle as a bound.
THEOREM NeverBelowOptimum ==
  Spec => [](phase = "done" => held_karp_exact(bins) <= route_distance(bins, route))
<1>1. PathInv => (phase = "done" => held_karp_exact(bins) <= route_distance(bins, route))
  <2> SUFFICES ASSUME PathInv, phase = "done"
               PROVE  held_karp_exact(bins) <= route_distance(bins, route)
    OBVIOUS
  <2> DEFINE All == 1..Len(bins)
             T == {route_distance(bins, r) : r \in Orders(bins, All)}
  <2>1. /\ bins \in Seq(Points) /\ route \in Seq(All)
        /\ \A p, q \in 1..Len(route) : route[p] = route[q] => p = q
        /\ Native!Unvisited = {}
    BY DEF PathInv, TypeInv, WalkInv
  <2>2. {route[p] : p \in 1..Len(route)} = All
    <3> DEFINE R == {route[p] : p \in 1..Len(route)}
    <3>1. \A k \in All : k \in R
      BY <2>1 DEF Native!Unvisited
    <3>2. R \subseteq All
      BY <2>1
    <3> HIDE DEF R
    <3>3. R = All
      BY <3>1, <3>2
    <3> QED BY <3>3 DEF R
  <2>3. route \in Orders(bins, All)
    BY <2>1, <2>2 DEF Orders
  <2>4. \A r \in Orders(bins, All) : route_distance(bins, r) \in Nat
    <3> SUFFICES ASSUME NEW r \in Orders(bins, All) PROVE route_distance(bins, r) \in Nat
      OBVIOUS
    <3>1. r \in Seq(1..Len(bins))
      BY DEF Orders
    <3>2. IsFiniteSet(0..Len(r))
      BY <3>1, FS_Interval
    <3> QED BY <2>1, <3>1, <3>2, TourIsLegs, SumNat
  <2>5. held_karp_exact(bins) = Min(T)
    BY <2>1, OracleIsOptimal
  <2>6. T \subseteq Nat /\ route_distance(bins, route) \in T
    BY <2>3, <2>4
  <2> HIDE DEF T
  <2>7. Min(T) <= route_distance(bins, route)
    BY <2>6, MinIsLeast
  <2> QED BY <2>5, <2>7
<1> QED BY <1>1, PathInvariant, PTL

-----------------------------------------------------------------------------
(* No engine can go on for ever.                                           *)

\* What is left to do, as three numbers: the stages ahead; within one, the bins to visit
\* or the length of the tour; and the pairs that the scan has not left behind.
Stage == [idle |-> 3, greedy |-> 2, improve |-> 1, done |-> 0][phase] + (IF refused THEN 0 ELSE 1)
Span == IF phase = "greedy" THEN Cardinality(Native!Unvisited)
        ELSE IF phase = "improve" THEN route_distance(bins, route) ELSE 0
Unscanned == {p \in Pairs(route) : ~Earlier(p, scan)}
ToDo == <<Stage, Span, Cardinality(Unscanned)>>

Lower(m, n) ==
  \/ m[1] < n[1]
  \/ m[1] = n[1] /\ m[2] < n[2]
  \/ m[1] = n[1] /\ m[2] = n[2] /\ m[3] < n[3]

\* The numbers are natural ones.
LEMMA ToDoType ==
  ASSUME PathInv
  PROVE  /\ Stage \in Nat /\ Span \in Nat /\ Cardinality(Unscanned) \in Nat
         /\ IsFiniteSet(Native!Unvisited) /\ IsFiniteSet(Unscanned)
<1>1. /\ phase \in {"idle", "greedy", "improve", "done"} /\ refused \in BOOLEAN
      /\ bins \in Seq(Points) /\ route \in Seq(1..Len(bins))
  BY DEF PathInv, TypeInv
<1>2. IsFiniteSet(1..Len(bins)) /\ IsFiniteSet(1..Len(route)) /\ IsFiniteSet(0..Len(route))
  BY <1>1, FS_Interval
<1>3. IsFiniteSet(Native!Unvisited)
  <2>1. Native!Unvisited \in SUBSET (1..Len(bins))
    BY DEF Native!Unvisited
  <2> QED BY <1>2, <2>1, FS_Subset
<1>4. route_distance(bins, route) \in Nat
  BY <1>1, <1>2, TourIsLegs, SumNat
<1>5. IsFiniteSet(Unscanned)
  <2>1. IsFiniteSet((1..Len(route)) \X (1..Len(route)))
    BY <1>2, FS_Product
  <2>2. Unscanned \in SUBSET ((1..Len(route)) \X (1..Len(route)))
    BY DEF Unscanned, Pairs
  <2> QED BY <2>1, <2>2, FS_Subset
<1>6. Stage \in Nat
  BY <1>1 DEF Stage
<1>7. Span \in Nat
  BY <1>3, <1>4, FS_CardinalityType DEF Span
<1> QED BY <1>3, <1>5, <1>6, <1>7, FS_CardinalityType

\* A visit leaves one bin less.
LEMMA VisitLowers ==
  ASSUME PathInv, PathInv', phase = "greedy", NEW b \in Native!Unvisited,
         route' = Append(route, b), UNCHANGED <<bins, phase, refused>>
  PROVE  Lower(ToDo', ToDo)
<1>1. Native!Unvisited' \subseteq Native!Unvisited \ {b}
  <2>1. /\ Len(route') = Len(route) + 1 /\ route'[Len(route) + 1] = b
        /\ \A p \in 1..Len(route) : route'[p] = route[p]
    BY AppendWalk DEF PathInv
  <2>2. Len(route) \in Nat
    BY DEF PathInv, TypeInv
  <2>3. 1..Len(route) \subseteq 1..Len(route') /\ Len(route) + 1 \in 1..Len(route')
    BY <2>1, <2>2
  <2>4. \A x \in Native!Unvisited' : x \in 1..Len(bins) /\ \A p \in 1..Len(route') : route'[p] # x
    BY DEF Native!Unvisited
  <2>5. ASSUME NEW x \in Native!Unvisited' PROVE x \in Native!Unvisited /\ x # b
    <3>1. \A p \in 1..Len(route) : route[p] # x
      BY <2>1, <2>3, <2>4
    <3> QED BY <2>1, <2>3, <2>4, <3>1 DEF Native!Unvisited
  <2> QED BY <2>5
<1>2. IsFiniteSet(Native!Unvisited) /\ Cardinality(Native!Unvisited) \in Nat
  BY ToDoType, FS_CardinalityType
<1>3. /\ IsFiniteSet(Native!Unvisited \ {b})
      /\ Cardinality(Native!Unvisited \ {b}) = Cardinality(Native!Unvisited) - 1
  BY <1>2, FS_RemoveElement
<1>4. Cardinality(Native!Unvisited') < Cardinality(Native!Unvisited)
  <2> DEFINE U == Native!Unvisited'
             W == Native!Unvisited \ {b}
  <2>1. U \in SUBSET W /\ IsFiniteSet(W)
    BY <1>1, <1>3
  <2> HIDE DEF U, W
  <2>2. Cardinality(U) <= Cardinality(W) /\ Cardinality(U) \in Nat
    BY <2>1, FS_Subset, FS_CardinalityType
  <2> QED BY <1>2, <1>3, <2>2 DEF U, W
<1>5. Stage' = Stage /\ Span = Cardinality(Native!Unvisited) /\ Span' = Cardinality(Native!Unvisited')
  BY DEF Stage, Span
<1> QED BY <1>4, <1>5 DEF Lower, ToDo

\* A later stage is fewer stages.
LEMMA StageLowers ==
  ASSUME PathInv, refused' = refused,
         \/ phase = "idle" /\ phase' = "greedy"
         \/ phase = "greedy" /\ phase' = "improve"
         \/ phase = "improve" /\ phase' = "done"
  PROVE  Lower(ToDo', ToDo)
<1>1. Stage' < Stage
  BY DEF Stage, PathInv, TypeInv
<1> QED BY <1>1 DEF Lower, ToDo

\* A turned stretch makes the tour shorter.
LEMMA TurnLowers ==
  ASSUME PathInv, phase = "improve", NEW p \in Pairs(route), Shorter(bins, route, p[1], p[2]),
         route' = Reversed(route, p[1], p[2]), UNCHANGED <<bins, phase, refused>>
  PROVE  Lower(ToDo', ToDo)
<1>1. route_distance(bins, route') < route_distance(bins, route)
  <2>1. bins \in Seq(Points) /\ route \in Seq(1..Len(bins))
    BY DEF PathInv, TypeInv
  <2> QED BY <2>1, ShorterIsShorter
<1>2. Stage' = Stage /\ Span = route_distance(bins, route) /\ Span' = route_distance(bins, route')
  BY DEF Stage, Span, route_distance
<1> QED BY <1>1, <1>2 DEF Lower, ToDo

\* A pair left behind is one pair less.
LEMMA KeepLowers ==
  ASSUME PathInv, Keep
  PROVE  Lower(ToDo', ToDo)
<1>1. /\ Scanning /\ scan' = NextPair /\ UNCHANGED <<refused, bins, route, phase>>
      /\ TypeInv /\ scan \in Pairs(route) /\ phase = "improve"
  BY DEF Keep, Scanning, PathInv, ScanInv
<1>2. Earlier(scan, NextPair) /\ \A p \in Pairs(route) : Earlier(p, scan) => Earlier(p, NextPair)
  <2>1. /\ scan[1] \in Int /\ scan[2] \in Int
        /\ (NextPair[1] = scan[1] /\ NextPair[2] = scan[2] + 1) \/ NextPair[1] = scan[1] + 1
    BY <1>1 DEF NextPair, Pairs, TypeInv
  <2>2. \A p \in Pairs(route) : p[1] \in Int /\ p[2] \in Int
    BY <1>1 DEF Pairs, TypeInv
  <2> HIDE DEF NextPair
  <2> QED BY <2>1, <2>2 DEF Earlier
<1> DEFINE V == {p \in Pairs(route) : ~Earlier(p, NextPair)}
<1>3. Unscanned' = V
  BY <1>1 DEF Unscanned, Pairs, Earlier, NextPair
<1>4. V \subseteq Unscanned \ {scan} /\ scan \in Unscanned
  <2>1. ~Earlier(scan, scan)
    BY <1>1 DEF Earlier, Pairs, TypeInv
  <2> HIDE DEF NextPair
  <2> QED BY <1>1, <1>2, <2>1 DEF Unscanned
<1> HIDE DEF V
<1>5. IsFiniteSet(Unscanned) /\ Cardinality(Unscanned) \in Nat
  BY ToDoType
<1>6. /\ IsFiniteSet(Unscanned \ {scan})
      /\ Cardinality(Unscanned \ {scan}) = Cardinality(Unscanned) - 1
  BY <1>4, <1>5, FS_RemoveElement
<1>7. Cardinality(V) <= Cardinality(Unscanned \ {scan}) /\ Cardinality(V) \in Nat
  BY <1>4, <1>6, FS_Subset, FS_CardinalityType
<1>8. Cardinality(Unscanned') < Cardinality(Unscanned)
  BY <1>3, <1>5, <1>6, <1>7
<1>9. Stage' = Stage /\ Span' = Span
  BY <1>1 DEF Stage, Span, route_distance
<1> QED BY <1>8, <1>9 DEF Lower, ToDo

\* Every step of a request, whichever engine answers it, leaves less to do: three natural
\* numbers go down in lexicographic order, so that no request can keep its engine busy for
\* ever.
THEOREM RequestsEnd ==
  Spec => [](ToDo \in Nat \X Nat \X Nat) /\ [][Lower(ToDo', ToDo)]_vars
<1>1. PathInv => ToDo \in Nat \X Nat \X Nat
  BY ToDoType DEF ToDo
<1>2. PathInv /\ PathInv' /\ [Next]_vars => [Lower(ToDo', ToDo)]_vars
  <2> SUFFICES ASSUME PathInv, PathInv', Next PROVE Lower(ToDo', ToDo)
    OBVIOUS
  <2>e. TypeInv
    BY DEF PathInv
  <2>1. CASE Refuse
    <3>1. Stage' < Stage
      BY <2>1 DEF Refuse, Stage
    <3> QED BY <3>1 DEF Lower, ToDo
  <2>2. CASE Start
    BY <2>2, StageLowers DEF Start, Native!Call
  <2>3. CASE RunNative
    <3>1. Native!Work /\ refused' = refused
      BY <2>3 DEF RunNative
    <3>2. CASE Native!Visit
      BY <2>e, <3>1, <3>2, SameNearest, VisitLowers DEF Native!Visit
    <3>3. CASE Native!Visited
      BY <3>1, <3>3, StageLowers DEF Native!Visited
    <3>4. CASE Native!Improve
      <4>1. /\ Native!FirstImproving \in Pairs(route)
            /\ Shorter(bins, route, Native!FirstImproving[1], Native!FirstImproving[2])
        BY <2>e, <3>4, FirstIsFirst DEF Native!Improve
      <4>2. route' = Reversed(route, Native!FirstImproving[1], Native!FirstImproving[2])
        BY <3>4, SameArithmetic DEF Native!Improve
      <4> QED BY <3>1, <3>4, <4>1, <4>2, TurnLowers DEF Native!Improve
    <3>5. CASE Native!Return
      BY <3>1, <3>5, StageLowers DEF Native!Return
    <3> QED BY <3>1, <3>2, <3>3, <3>4, <3>5 DEF Native!Work
  <2>4. CASE RunPython
    <3>1. CASE VisitNearest
      BY <2>e, <3>1, SameNearest, VisitLowers DEF VisitNearest
    <3>2. CASE BeginTwoOpt
      BY <3>2, StageLowers DEF BeginTwoOpt
    <3>3. CASE Keep
      BY <3>3, KeepLowers
    <3>4. CASE Swap
      <4>1. scan \in Pairs(route) /\ phase = "improve"
        BY <3>4 DEF Swap, Scanning, PathInv, ScanInv
      <4> QED BY <3>4, <4>1, TurnLowers DEF Swap
    <3>5. CASE Finish
      BY <3>5, StageLowers DEF Finish
    <3> QED BY <2>4, <3>1, <3>2, <3>3, <3>4, <3>5 DEF RunPython
  <2> QED BY <2>1, <2>2, <2>3, <2>4 DEF Next
<1> QED BY <1>1, <1>2, PathInvariant, PTL DEF Spec
=============================================================================
