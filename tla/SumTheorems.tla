---------------------------- MODULE SumTheorems ----------------------------
(***************************************************************************)
(* Facts about SumFunctionOnSet of the community modules: the sum of a     *)
(* function over a finite set takes elements out in any order and changes  *)
(* as its summands do.                                                     *)
(*                                                                         *)
(* The argument is by a least counterexample: among the subsets for which  *)
(* a fact fails one has the fewest elements, and taking one element out of *)
(* it gives a smaller one.                                                 *)
(***************************************************************************)
EXTENDS Integers, Functions, FiniteSets, FiniteSetTheorems, FunctionTheorems, WellFoundedInduction, TLAPS

\* Every set of natural numbers has a least element.
LEMMA LeastNatural ==
  ASSUME NEW T, T \subseteq Nat, T # {}
  PROVE  \E x \in T : \A y \in T : x <= y
<1>1. \E x \in T : \A y \in T : ~(<<y, x>> \in OpToRel(<, Nat))
  BY NatLessThanWellFounded, WFMin
<1>2. \A x, y \in Nat : ~(<<y, x>> \in OpToRel(<, Nat)) => x <= y
  BY DEF OpToRel
<1> QED BY <1>1, <1>2

\* Induction over the naturals, for sets rather than predicates.
LEMMA SetInduction ==
  ASSUME NEW T, 0 \in T, \A n \in Nat : n \in T => n + 1 \in T
  PROVE  Nat \subseteq T
<1> SUFFICES ASSUME Nat \ T # {} PROVE FALSE
  OBVIOUS
<1>1. PICK x \in Nat \ T : \A y \in Nat \ T : x <= y
  BY LeastNatural
<1>2. x # 0
  OBVIOUS
<1>3. x - 1 \in Nat /\ x - 1 \in T
  BY <1>1, <1>2
<1>4. (x - 1) + 1 \in T
  BY <1>3
<1> QED BY <1>1, <1>4

\* A family of subsets of a finite set has a smallest member.
LEMMA SmallestSubset ==
  ASSUME NEW S, IsFiniteSet(S), NEW F, F \subseteq SUBSET S, F # {}
  PROVE  \E s \in F : \A r \in F : Cardinality(s) <= Cardinality(r)
<1> DEFINE N == {Cardinality(s) : s \in F}
<1>1. \A s \in F : Cardinality(s) \in Nat
  BY FS_Subset, FS_CardinalityType
<1>2. N \subseteq Nat /\ N # {}
  BY <1>1
<1>3. \E n \in N : \A m \in N : n <= m
  BY <1>2, LeastNatural
<1> QED BY <1>3

\* The element that the recursion takes out first ...
First(s) == CHOOSE x \in s : TRUE

\* ... which is an element of it.
LEMMA FirstIn == \A s : s # {} => First(s) \in s
BY DEF First

\* One step of the recursion behind SumFunctionOnSet.
Unfold(f, g, s) == IF s = {} THEN 0 ELSE f[First(s)] + g[s \ {First(s)}]
Sums(f, S, g) == g = [s \in SUBSET S |-> Unfold(f, g, s)]

\* The sum is the value at S of a function that solves the recursion.
LEMMA SumDef ==
  ASSUME NEW f, NEW S
  PROVE  SumFunctionOnSet(f, S) = (CHOOSE g : Sums(f, S, g))[S]
BY Zenon DEF SumFunctionOnSet, FoldFunctionOnSet, MapThenFoldSet, Sums, Unfold, First

\* It has a solution on a finite set.
LEMMA SumExists ==
  ASSUME NEW S, IsFiniteSet(S), NEW f, \A x \in S : f[x] \in Int
  PROVE  \E g \in [SUBSET S -> Int] : Sums(f, S, g)
<1> DEFINE T == {n \in Nat : \E g \in [SUBSET S -> Int] :
                   \A s \in SUBSET S : Cardinality(s) <= n => g[s] = Unfold(f, g, s)}
<1>s. \A s \in SUBSET S : IsFiniteSet(s) /\ Cardinality(s) \in Nat
  BY FS_Subset, FS_CardinalityType
<1>u. ASSUME NEW g \in [SUBSET S -> Int], NEW s \in SUBSET S
      PROVE  Unfold(f, g, s) \in Int
  BY FirstIn DEF Unfold
<1>1. 0 \in T
  <2> DEFINE g == [s \in SUBSET S |-> 0]
  <2>1. \A s \in SUBSET S : Cardinality(s) <= 0 => s = {}
    BY <1>s, FS_EmptySet
  <2>2. g \in [SUBSET S -> Int] /\ \A s \in SUBSET S : Cardinality(s) <= 0 => g[s] = Unfold(f, g, s)
    BY <2>1 DEF Unfold
  <2> HIDE DEF g
  <2> QED BY <2>2
<1>2. ASSUME NEW n \in Nat, n \in T PROVE n + 1 \in T
  <2>1. PICK g \in [SUBSET S -> Int] :
               \A s \in SUBSET S : Cardinality(s) <= n => g[s] = Unfold(f, g, s)
    BY <1>2
  <2> DEFINE h == [s \in SUBSET S |-> Unfold(f, g, s)]
  <2>2. h \in [SUBSET S -> Int]
    BY <1>u
  <2>3. ASSUME NEW s \in SUBSET S, Cardinality(s) <= n + 1
        PROVE  h[s] = Unfold(f, h, s)
    <3>1. CASE s = {}
      BY <3>1 DEF Unfold
    <3>2. CASE s # {}
      <4>1. First(s) \in s
        BY <3>2, FirstIn
      <4>2. s \ {First(s)} \in SUBSET S /\ Cardinality(s \ {First(s)}) <= n
        BY <1>s, <2>3, <4>1, FS_RemoveElement
      <4>3. h[s \ {First(s)}] = g[s \ {First(s)}]
        BY <2>1, <4>2
      <4> QED BY <3>2, <4>3 DEF Unfold
    <3> QED BY <3>1, <3>2
  <2> HIDE DEF h
  <2> QED BY <2>2, <2>3
<1> HIDE DEF T
<1>3. Cardinality(S) \in T
  BY <1>1, <1>2, <1>s, SetInduction
<1>4. PICK g \in [SUBSET S -> Int] :
             \A s \in SUBSET S : Cardinality(s) <= Cardinality(S) => g[s] = Unfold(f, g, s)
  BY <1>3 DEF T
<1>5. \A s \in SUBSET S : g[s] = Unfold(f, g, s)
  BY <1>4, FS_Subset
<1>6. Sums(f, S, g)
  BY <1>5 DEF Sums
<1> QED BY <1>6

\* Two solutions agree.
LEMMA SumUnique ==
  ASSUME NEW S, IsFiniteSet(S), NEW f, NEW g, NEW h, NEW T \in SUBSET S,
         Sums(f, S, g), Sums(f, T, h)
  PROVE  g[T] = h[T]
<1> DEFINE Bad == {s \in SUBSET T : g[s] # h[s]}
<1> SUFFICES ASSUME Bad # {} PROVE FALSE
  OBVIOUS
<1>1. IsFiniteSet(T)
  BY FS_Subset
<1>2. PICK s \in Bad : \A r \in Bad : Cardinality(s) <= Cardinality(r)
  BY <1>1, SmallestSubset
<1>3. g[s] = Unfold(f, g, s) /\ h[s] = Unfold(f, h, s)
  BY DEF Sums
<1>4. s # {}
  BY <1>3 DEF Unfold
<1>5. First(s) \in s
  BY <1>4, FirstIn
<1>6. /\ s \ {First(s)} \in SUBSET T
      /\ Cardinality(s \ {First(s)}) = Cardinality(s) - 1 /\ Cardinality(s) \in Nat
  BY <1>1, <1>5, FS_Subset, FS_CardinalityType, FS_RemoveElement
<1>7. g[s \ {First(s)}] = h[s \ {First(s)}]
  BY <1>2, <1>6
<1> QED BY <1>3, <1>4, <1>7 DEF Unfold

-----------------------------------------------------------------------------
(* What SumFunctionOnSet computes.                                         *)

\* The sum of the empty set, and of a set with an element taken out first.
LEMMA SumUnfold ==
  ASSUME NEW S, IsFiniteSet(S), NEW f, \A x \in S : f[x] \in Int
  PROVE  /\ SumFunctionOnSet(f, S) \in Int
         /\ SumFunctionOnSet(f, S) = IF S = {} THEN 0
                                     ELSE f[First(S)] + SumFunctionOnSet(f, S \ {First(S)})
<1>1. ASSUME NEW T \in SUBSET S
      PROVE  /\ SumFunctionOnSet(f, T) \in Int
             /\ \E g \in [SUBSET T -> Int] : Sums(f, T, g) /\ SumFunctionOnSet(f, T) = g[T]
  <2> DEFINE g == CHOOSE g : Sums(f, T, g)
  <2>1. \E h \in [SUBSET T -> Int] : Sums(f, T, h)
    BY SumExists, FS_Subset
  <2>2. Sums(f, T, g)
    BY <2>1
  <2>3. PICK h \in [SUBSET T -> Int] : Sums(f, T, h)
    BY <2>1
  <2>4. SumFunctionOnSet(f, T) = g[T]
    BY SumDef
  <2> HIDE DEF g
  <2>5. g[T] = h[T]
    BY <2>2, <2>3, SumUnique, FS_Subset
  <2> QED BY <2>3, <2>4, <2>5
<1>2. PICK g \in [SUBSET S -> Int] : Sums(f, S, g) /\ SumFunctionOnSet(f, S) = g[S]
  BY <1>1
<1>3. g[S] = Unfold(f, g, S)
  BY <1>2 DEF Sums
<1>4. ASSUME S # {}
      PROVE  g[S \ {First(S)}] = SumFunctionOnSet(f, S \ {First(S)})
  <2>1. S \ {First(S)} \in SUBSET S
    OBVIOUS
  <2>2. PICK h \in [SUBSET (S \ {First(S)}) -> Int] :
          Sums(f, S \ {First(S)}, h) /\ SumFunctionOnSet(f, S \ {First(S)}) = h[S \ {First(S)}]
    BY <1>1, <2>1
  <2> QED BY <1>2, <2>1, <2>2, SumUnique
<1> QED BY <1>1, <1>2, <1>3, <1>4 DEF Unfold

\* A sum of integers is one.
LEMMA SumType ==
  ASSUME NEW S, IsFiniteSet(S), NEW f, \A x \in S : f[x] \in Int
  PROVE  SumFunctionOnSet(f, S) \in Int
BY SumUnfold

\* The empty sum is zero.
LEMMA SumEmpty == ASSUME NEW f PROVE SumFunctionOnSet(f, {}) = 0
BY SumUnfold, FS_EmptySet

\* The sum does not depend on the order in which elements are taken out.
LEMMA SumRemove ==
  ASSUME NEW S, IsFiniteSet(S), NEW f, \A x \in S : f[x] \in Int, NEW x \in S
  PROVE  SumFunctionOnSet(f, S) = f[x] + SumFunctionOnSet(f, S \ {x})
<1> DEFINE Bad == {s \in SUBSET S : \E y \in s :
                     SumFunctionOnSet(f, s) # f[y] + SumFunctionOnSet(f, s \ {y})}
<1> SUFFICES ASSUME Bad # {} PROVE FALSE
  OBVIOUS
<1>1. PICK s \in Bad : \A r \in Bad : Cardinality(s) <= Cardinality(r)
  BY SmallestSubset
<1>2. PICK y \in s : SumFunctionOnSet(f, s) # f[y] + SumFunctionOnSet(f, s \ {y})
  OBVIOUS
<1> DEFINE z == First(s)
<1>3. s \in SUBSET S /\ z \in s
  BY <1>2, FirstIn
<1> HIDE DEF z
<1>4. IsFiniteSet(s) /\ \A u \in s : f[u] \in Int
  BY <1>3, FS_Subset
<1>5. SumFunctionOnSet(f, s) = f[z] + SumFunctionOnSet(f, s \ {z})
  BY <1>2, <1>4, SumUnfold DEF z
<1>6. y # z
  BY <1>2, <1>5
<1>7. ASSUME NEW u \in s
      PROVE  /\ IsFiniteSet(s \ {u}) /\ s \ {u} \notin Bad /\ s \ {u} \in SUBSET S
             /\ Cardinality(s) \in Nat /\ Cardinality(s \ {u}) = Cardinality(s) - 1
  <2>1. Cardinality(s) \in Nat /\ Cardinality(s \ {u}) = Cardinality(s) - 1
    BY <1>4, FS_RemoveElement, FS_CardinalityType
  <2>2. IsFiniteSet(s \ {u})
    BY <1>4, FS_RemoveElement
  <2>3. s \ {u} \in SUBSET S
    BY <1>3
  <2>4. ~(Cardinality(s) <= Cardinality(s \ {u}))
    BY <2>1
  <2> HIDE DEF Bad
  <2> QED BY <1>1, <2>1, <2>2, <2>3, <2>4
<1>8. SumFunctionOnSet(f, s \ {z}) = f[y] + SumFunctionOnSet(f, (s \ {z}) \ {y})
  BY <1>3, <1>6, <1>7
<1>9. SumFunctionOnSet(f, s \ {y}) = f[z] + SumFunctionOnSet(f, (s \ {y}) \ {z})
  BY <1>3, <1>6, <1>7
<1>10. (s \ {z}) \ {y} = (s \ {y}) \ {z} /\ f[y] \in Int /\ f[z] \in Int
  BY <1>3, <1>4
<1>11. SumFunctionOnSet(f, (s \ {z}) \ {y}) \in Int
  <2>1. (s \ {z}) \ {y} \in SUBSET s
    OBVIOUS
  <2> QED BY <1>4, <2>1, FS_Subset, SumType
<1>12. SumFunctionOnSet(f, s) = f[z] + (f[y] + SumFunctionOnSet(f, (s \ {z}) \ {y}))
  BY <1>5, <1>8
<1>13. f[y] + SumFunctionOnSet(f, s \ {y})
         = f[y] + (f[z] + SumFunctionOnSet(f, (s \ {z}) \ {y}))
  BY <1>9, <1>10
<1> HIDE DEF Bad
<1> QED BY <1>2, <1>10, <1>11, <1>12, <1>13

\* Only the values on the set count.
LEMMA SumSame ==
  ASSUME NEW S, IsFiniteSet(S), NEW f, NEW g, \A x \in S : f[x] \in Int /\ g[x] = f[x]
  PROVE  SumFunctionOnSet(g, S) = SumFunctionOnSet(f, S)
<1> DEFINE Bad == {s \in SUBSET S : SumFunctionOnSet(g, s) # SumFunctionOnSet(f, s)}
<1> SUFFICES ASSUME Bad # {} PROVE FALSE
  OBVIOUS
<1>1. PICK s \in Bad : \A r \in Bad : Cardinality(s) <= Cardinality(r)
  BY SmallestSubset
<1>2. IsFiniteSet(s) /\ s \in SUBSET S /\ \A u \in s : f[u] \in Int /\ g[u] = f[u]
  BY FS_Subset
<1>3. s # {}
  BY SumEmpty
<1>4. First(s) \in s
  BY <1>3, FirstIn
<1>5. s \ {First(s)} \in SUBSET S /\ s \ {First(s)} \notin Bad
  <2>1. Cardinality(s) \in Nat /\ Cardinality(s \ {First(s)}) = Cardinality(s) - 1
    BY <1>2, <1>4, FS_RemoveElement, FS_CardinalityType
  <2> QED BY <1>1, <1>2, <2>1
<1>6. /\ SumFunctionOnSet(f, s) = f[First(s)] + SumFunctionOnSet(f, s \ {First(s)})
      /\ SumFunctionOnSet(g, s) = g[First(s)] + SumFunctionOnSet(g, s \ {First(s)})
  BY <1>2, <1>4, SumRemove
<1> QED BY <1>2, <1>4, <1>5, <1>6

\* A change of one summand changes the sum by as much.
LEMMA SumChange ==
  ASSUME NEW S, IsFiniteSet(S), NEW f, \A x \in S : f[x] \in Int, NEW y \in S,
         NEW g, g[y] \in Int, \A x \in S \ {y} : g[x] = f[x]
  PROVE  SumFunctionOnSet(g, S) = SumFunctionOnSet(f, S) - f[y] + g[y]
<1>1. /\ SumFunctionOnSet(f, S) = f[y] + SumFunctionOnSet(f, S \ {y})
      /\ SumFunctionOnSet(g, S) = g[y] + SumFunctionOnSet(g, S \ {y})
  <2>1. \A x \in S : g[x] \in Int
    OBVIOUS
  <2> QED BY <2>1, SumRemove
<1>2. IsFiniteSet(S \ {y})
  BY FS_RemoveElement
<1>3. SumFunctionOnSet(g, S \ {y}) = SumFunctionOnSet(f, S \ {y})
  BY <1>2, SumSame
<1>4. SumFunctionOnSet(f, S \ {y}) \in Int
  BY <1>2, SumType
<1> QED BY <1>1, <1>3, <1>4

\* Nothing but zeros adds up to zero.
LEMMA SumZero ==
  ASSUME NEW S, IsFiniteSet(S)
  PROVE  SumFunctionOnSet([x \in S |-> 0], S) = 0
<1> DEFINE f == [x \in S |-> 0]
           Bad == {s \in SUBSET S : SumFunctionOnSet(f, s) # 0}
<1> SUFFICES ASSUME Bad # {} PROVE FALSE
  OBVIOUS
<1>1. PICK s \in Bad : \A r \in Bad : Cardinality(s) <= Cardinality(r)
  BY SmallestSubset
<1>2. IsFiniteSet(s) /\ s \in SUBSET S /\ \A x \in s : f[x] = 0
  BY FS_Subset
<1>3. s # {}
  BY SumEmpty
<1>4. First(s) \in s
  BY <1>3, FirstIn
<1>5. s \ {First(s)} \in SUBSET S /\ s \ {First(s)} \notin Bad
  <2>1. Cardinality(s) \in Nat /\ Cardinality(s \ {First(s)}) = Cardinality(s) - 1
    BY <1>2, <1>4, FS_RemoveElement, FS_CardinalityType
  <2> QED BY <1>1, <1>2, <2>1
<1>6. SumFunctionOnSet(f, s) = f[First(s)] + SumFunctionOnSet(f, s \ {First(s)})
  <2> HIDE DEF f, Bad
  <2> QED BY <1>2, <1>4, SumRemove
<1> QED BY <1>2, <1>4, <1>5, <1>6

\* Renaming the elements of the set one to one does not change the sum.
LEMMA SumReindex ==
  ASSUME NEW S, IsFiniteSet(S), NEW T, NEW h \in Bijection(S, T),
         NEW f, \A x \in T : f[x] \in Int, NEW g, \A x \in S : g[x] = f[h[x]]
  PROVE  SumFunctionOnSet(g, S) = SumFunctionOnSet(f, T)
<1> DEFINE Im(s) == {h[x] : x \in s}
           Bad == {s \in SUBSET S : SumFunctionOnSet(g, s) # SumFunctionOnSet(f, Im(s))}
<1>h. /\ h \in [S -> T] /\ \A x, y \in S : h[x] = h[y] => x = y
      /\ \A y \in T : \E x \in S : h[x] = y
  BY Fun_BijectionProperties
<1>1. Im(S) = T
  BY <1>h
<1> SUFFICES ASSUME Bad # {} PROVE FALSE
  <2> HIDE DEF Im
  <2> QED BY <1>1
<1>2. PICK s \in Bad : \A r \in Bad : Cardinality(s) <= Cardinality(r)
  BY SmallestSubset
<1>3. IsFiniteSet(s) /\ s \in SUBSET S /\ \A u \in s : g[u] \in Int
  <2>1. \A u \in S : h[u] \in T
    BY <1>h
  <2> QED BY <2>1, FS_Subset
<1>4. s # {}
  <2>1. Im({}) = {}
    OBVIOUS
  <2> QED BY <2>1, SumEmpty
<1> DEFINE x == First(s)
<1>5. x \in s /\ x \in S
  BY <1>3, <1>4, FirstIn
<1> HIDE DEF x
<1>6. s \ {x} \in SUBSET S /\ s \ {x} \notin Bad
  <2>1. Cardinality(s) \in Nat /\ Cardinality(s \ {x}) = Cardinality(s) - 1
    BY <1>3, <1>5, FS_RemoveElement, FS_CardinalityType
  <2> QED BY <1>2, <1>3, <2>1
<1>7. Im(s \ {x}) = Im(s) \ {h[x]} /\ h[x] \in Im(s) /\ Im(s) \subseteq T
  <2>1. \A y \in s : y \in S
    BY <1>3
  <2> QED BY <1>h, <1>5, <2>1
<1>8. IsFiniteSet(Im(s))
  <2> DEFINE k == [y \in s |-> h[y]]
  <2>1. k \in [s -> Im(s)] /\ \A z \in Im(s) : \E y \in s : k[y] = z
    OBVIOUS
  <2> HIDE DEF k, Im
  <2>2. k \in Surjection(s, Im(s))
    BY <2>1, Fun_IsSurj
  <2> QED BY <1>3, <2>2, FS_Surjection
<1>9. /\ SumFunctionOnSet(g, s) = g[x] + SumFunctionOnSet(g, s \ {x})
      /\ SumFunctionOnSet(f, Im(s)) = f[h[x]] + SumFunctionOnSet(f, Im(s) \ {h[x]})
  <2> HIDE DEF Im, Bad
  <2>1. \A y \in Im(s) : f[y] \in Int
    BY <1>7
  <2> QED BY <1>3, <1>5, <1>7, <1>8, <2>1, SumRemove
<1>10. SumFunctionOnSet(g, s \ {x}) = SumFunctionOnSet(f, Im(s \ {x}))
  BY <1>6
<1>11. SumFunctionOnSet(g, s) = SumFunctionOnSet(f, Im(s))
  <2> HIDE DEF Im, Bad
  <2> QED BY <1>5, <1>7, <1>9, <1>10
<1> QED BY <1>2, <1>11

\* Natural numbers add up to one.
LEMMA SumNat ==
  ASSUME NEW S, IsFiniteSet(S), NEW f, \A x \in S : f[x] \in Nat
  PROVE  SumFunctionOnSet(f, S) \in Nat
<1> DEFINE Bad == {s \in SUBSET S : SumFunctionOnSet(f, s) \notin Nat}
<1> SUFFICES ASSUME Bad # {} PROVE FALSE
  OBVIOUS
<1>1. PICK s \in Bad : \A r \in Bad : Cardinality(s) <= Cardinality(r)
  BY SmallestSubset
<1>2. IsFiniteSet(s) /\ s \in SUBSET S /\ \A u \in s : f[u] \in Nat
  BY FS_Subset
<1>3. s # {}
  BY SumEmpty
<1>4. First(s) \in s
  BY <1>3, FirstIn
<1>5. s \ {First(s)} \in SUBSET S /\ s \ {First(s)} \notin Bad
  <2>1. Cardinality(s) \in Nat /\ Cardinality(s \ {First(s)}) = Cardinality(s) - 1
    BY <1>2, <1>4, FS_RemoveElement, FS_CardinalityType
  <2> QED BY <1>1, <1>2, <2>1
<1>6. SumFunctionOnSet(f, s) = f[First(s)] + SumFunctionOnSet(f, s \ {First(s)})
  <2>1. \A u \in s : f[u] \in Int
    BY <1>2
  <2> QED BY <1>2, <1>4, <2>1, SumRemove
<1> QED BY <1>2, <1>4, <1>5, <1>6
=============================================================================
