---------------------------- MODULE DataInduction ----------------------------
(***************************************************************************)
(* Induction over data, for the proofs of the other modules: over sets of  *)
(* natural numbers and over the subsets of a finite set, and from them     *)
(* what a sum over a finite set is.  The predicate an induction is about   *)
(* is given as the set of the values that satisfy it.                      *)
(***************************************************************************)
EXTENDS Integers, FiniteSets, Functions, FiniteSetTheorems, WellFoundedInduction, TLAPS

\* The order of the natural numbers as a relation.
NatLess == {ss \in Nat \X Nat : ss[1] < ss[2]}

\* A set of naturals that holds 0 and the successor of each of its members holds
\* them all.
LEMMA InductionOnNat ==
  ASSUME NEW T \in SUBSET Nat, 0 \in T, \A n \in Nat : n \in T => n + 1 \in T
  PROVE  T = Nat
<1> DEFINE U == Nat \ T
<1> SUFFICES ASSUME U # {} PROVE FALSE
  OBVIOUS
<1>0. IsWellFoundedOn(NatLess, Nat)
  BY NatLessThanWellFounded DEF OpToRel, NatLess
<1>1. PICK x \in U : \A y \in U : ~ (<<y, x>> \in NatLess)
  <2> U \subseteq Nat
    OBVIOUS
  <2> HIDE DEF U
  <2> QED
    BY <1>0, WFMin
<1>2. x # 0 /\ x - 1 \in Nat /\ x-1 \in U
  OBVIOUS
<1>3. <<x-1, x>> \in NatLess
  BY <1>2 DEF NatLess
<1> QED BY <1>1, <1>2, <1>3

\* The element the fold takes away first.
First(s) == CHOOSE x \in s : TRUE

\* g sums f over every subset of S.
IsSum(g, f, S) ==
  g = [s \in SUBSET S |-> IF s = {} THEN 0 ELSE f[First(s)] + g[s \ {First(s)}]]

\* SumFunctionOnSet is the value of a function that satisfies the recursion.
LEMMA SumUnfold ==
  ASSUME NEW f, NEW S
  PROVE  SumFunctionOnSet(f, S) = (CHOOSE g : IsSum(g, f, S))[S]
BY DEF SumFunctionOnSet, FoldFunctionOnSet, MapThenFoldSet, IsSum, First

\* The recursion has a solution on every finite set, by induction over the
\* cardinality of its subsets.
LEMMA SumExists ==
  ASSUME NEW f, NEW S, IsFiniteSet(S)
  PROVE  \E g : IsSum(g, f, S)
<1> DEFINE Sub(n) == {s \in SUBSET S : Cardinality(s) <= n}
           Val(g, s) == IF s = {} THEN 0 ELSE f[First(s)] + g[s \ {First(s)}]
           T == {n \in Nat : \E g : g = [s \in Sub(n) |-> Val(g, s)]}
<1>1. \A s \in SUBSET S : IsFiniteSet(s) /\ Cardinality(s) \in Nat /\ Cardinality(s) <= Cardinality(S)
  BY FS_Subset, FS_CardinalityType
<1>2. \A s \in SUBSET S : s # {} => /\ First(s) \in s
                                    /\ s \ {First(s)} \in SUBSET S
                                    /\ Cardinality(s \ {First(s)}) = Cardinality(s) - 1
  BY <1>1, FS_RemoveElement DEF First
<1>3. 0 \in T
  <2>1. Sub(0) = {{}}
    BY <1>1, FS_EmptySet
  <2> DEFINE g == [s \in Sub(0) |-> 0]
  <2>2. g = [s \in Sub(0) |-> Val(g, s)]
    BY <2>1
  <2> QED BY <2>2
<1>4. ASSUME NEW n \in Nat, n \in T PROVE n + 1 \in T
  <2>1. PICK g : g = [s \in Sub(n) |-> Val(g, s)]
    BY <1>4
  <2> DEFINE h == [s \in Sub(n + 1) |-> Val(g, s)]
  <2>2. ASSUME NEW s \in Sub(n) PROVE s \in Sub(n + 1) /\ h[s] = g[s]
    <3>1. s \in Sub(n + 1)
      BY <1>1
    <3>2. g[s] = Val(g, s)
      BY <2>1
    <3> HIDE DEF Val
    <3> QED BY <3>1, <3>2
  <2>3. ASSUME NEW s \in Sub(n + 1) PROVE h[s] = Val(h, s)
    <3>1. h[s] = Val(g, s)
      OBVIOUS
    <3>2. CASE s = {}
      BY <3>1, <3>2
    <3>3. CASE s # {}
      <4>1. s \ {First(s)} \in Sub(n)
        BY <1>1, <1>2, <3>3
      <4>2. h[s \ {First(s)}] = g[s \ {First(s)}]
        BY <2>2, <4>1
      <4> HIDE DEF h
      <4> QED BY <3>1, <3>3, <4>2
    <3> QED BY <3>2, <3>3
  <2>4. h = [s \in Sub(n + 1) |-> Val(h, s)]
    <3>1. h = [s \in Sub(n + 1) |-> h[s]]
      OBVIOUS
    <3> HIDE DEF h, Val, Sub
    <3> QED BY <2>3, <3>1
  <2> HIDE DEF h, Val, Sub
  <2> QED BY <2>4
<1>5. T = Nat
  <2> HIDE DEF T
  <2>1. T \in SUBSET Nat BY DEF T
  <2> QED BY <1>3, <1>4, <2>1, InductionOnNat
<1>6. SUBSET S = Sub(Cardinality(S))
  BY <1>1
<1>7. Cardinality(S) \in T
  BY <1>1, <1>5
<1>8. PICK g : g = [s \in SUBSET S |-> Val(g, s)]
  BY <1>6, <1>7
<1> QED BY <1>8 DEF IsSum

\* A property of subsets that every subset has as soon as its proper subsets have
\* it holds of all subsets of a finite set.
LEMMA FiniteSetInduction ==
  ASSUME NEW S, IsFiniteSet(S), NEW P,
         \A s \in SUBSET S : (\A t \in SUBSET s : t # s => t \in P) => s \in P
  PROVE  SUBSET S \subseteq P
<1> DEFINE T == {n \in Nat : \A s \in SUBSET S : Cardinality(s) <= n => s \in P}
<1>1. \A s \in SUBSET S : IsFiniteSet(s) /\ Cardinality(s) \in Nat /\ Cardinality(s) <= Cardinality(S)
  BY FS_Subset, FS_CardinalityType
<1>2. ASSUME NEW s \in SUBSET S, NEW t \in SUBSET s, t # s
      PROVE  t \in SUBSET S /\ Cardinality(t) < Cardinality(s)
  <2>1. IsFiniteSet(s)
    BY <1>1
  <2>2. Cardinality(t) <= Cardinality(s) /\ Cardinality(t) # Cardinality(s)
    BY <2>1, <1>2, FS_Subset
  <2>3. t \in SUBSET S
    OBVIOUS
  <2> QED BY <1>1, <2>2, <2>3
<1>3. 0 \in T
  <2> SUFFICES ASSUME NEW s \in SUBSET S, Cardinality(s) <= 0 PROVE s \in P
    OBVIOUS
  <2>1. \A t \in SUBSET s : t # s => FALSE
    BY <1>1, <1>2
  <2> QED BY <2>1
<1>4. ASSUME NEW n \in Nat, n \in T PROVE n + 1 \in T
  <2> SUFFICES ASSUME NEW s \in SUBSET S, Cardinality(s) <= n + 1 PROVE s \in P
    OBVIOUS
  <2>1. ASSUME NEW t \in SUBSET s, t # s PROVE t \in P
    <3>1. t \in SUBSET S /\ Cardinality(t) <= n
      BY <1>1, <1>2, <2>1
    <3> QED BY <1>4, <3>1
  <2> QED BY <2>1
<1>5. T = Nat
  <2>1. T \in SUBSET Nat
    OBVIOUS
  <2> HIDE DEF T
  <2> QED BY <1>3, <1>4, <2>1, InductionOnNat
<1> QED BY <1>1, <1>5

\* Two solutions of the recursion agree where the summands do.
LEMMA SumAgree ==
  ASSUME NEW S, NEW T \in SUBSET S, IsFiniteSet(T), NEW f, NEW g, NEW F, NEW G,
         IsSum(F, f, S), IsSum(G, g, T), \A x \in T : f[x] = g[x]
  PROVE  F[T] = G[T]
<1> DEFINE P == {s \in SUBSET T : F[s] = G[s]}
<1>1. ASSUME NEW s \in SUBSET T, \A t \in SUBSET s : t # s => t \in P PROVE s \in P
  <2>0. s \in SUBSET S
    OBVIOUS
  <2>1. CASE s = {}
    BY <2>0, <2>1 DEF IsSum
  <2>2. CASE s # {}
    <3>1. First(s) \in s
      BY <2>2 DEF First
    <3>2. s \ {First(s)} \in P
      BY <1>1, <3>1
    <3>3. F[s] = f[First(s)] + F[s \ {First(s)}]
      BY <2>0, <2>2 DEF IsSum
    <3>4. G[s] = g[First(s)] + G[s \ {First(s)}]
      BY <2>2 DEF IsSum
    <3>5. f[First(s)] = g[First(s)]
      BY <3>1
    <3>6. F[s \ {First(s)}] = G[s \ {First(s)}]
      BY <3>2
    <3> QED BY <3>3, <3>4, <3>5, <3>6
  <2> QED BY <2>1, <2>2
<1>2. SUBSET T \subseteq P
  <2> HIDE DEF P
  <2> QED BY <1>1, FiniteSetInduction
<1> QED BY <1>2

\* The sum is the value of a solution of the recursion.
LEMMA SumSatisfies ==
  ASSUME NEW f, NEW S, IsFiniteSet(S)
  PROVE  \E F : IsSum(F, f, S) /\ F[S] = SumFunctionOnSet(f, S)
  BY SumExists, SumUnfold

\* Summands that agree have equal sums.
THEOREM SumOfEqual ==
  ASSUME NEW f, NEW g, NEW S, IsFiniteSet(S), \A x \in S : f[x] = g[x]
  PROVE  SumFunctionOnSet(f, S) = SumFunctionOnSet(g, S)
<1>1. PICK F : IsSum(F, f, S) /\ F[S] = SumFunctionOnSet(f, S)
  BY SumSatisfies
<1>2. PICK G : IsSum(G, g, S) /\ G[S] = SumFunctionOnSet(g, S)
  BY SumSatisfies
<1>3. S \in SUBSET S
  OBVIOUS
<1> QED BY <1>1, <1>2, <1>3, SumAgree

\* The recursion equation of a sum.
LEMMA SumStep ==
  ASSUME NEW f, NEW S, IsFiniteSet(S)
  PROVE  SumFunctionOnSet(f, S) =
           IF S = {} THEN 0 ELSE f[First(S)] + SumFunctionOnSet(f, S \ {First(S)})
<1>1. PICK F : IsSum(F, f, S) /\ F[S] = SumFunctionOnSet(f, S)
  BY SumSatisfies
<1>2. CASE S = {}
  BY <1>1, <1>2 DEF IsSum
<1>3. CASE S # {}
  <2> DEFINE R == S \ {First(S)}
  <2>1. IsFiniteSet(R) /\ R \in SUBSET S
    BY FS_RemoveElement
  <2>2. PICK G : IsSum(G, f, R) /\ G[R] = SumFunctionOnSet(f, R)
    BY <2>1, SumSatisfies
  <2>3. F[R] = G[R]
    BY <1>1, <2>1, <2>2, SumAgree
  <2>4. F[S] = f[First(S)] + F[R]
    BY <1>1, <1>3 DEF IsSum
  <2> QED BY <1>1, <1>3, <2>2, <2>3, <2>4
<1> QED BY <1>2, <1>3

\* An empty sum is zero.
THEOREM SumOfNone == ASSUME NEW f PROVE SumFunctionOnSet(f, {}) = 0
  BY SumStep, FS_EmptySet

\* A sum of integers is an integer, one of naturals a natural.
LEMMA SumClosed ==
  ASSUME NEW f, NEW S, IsFiniteSet(S), NEW V, V \in {Int, Nat}, \A x \in S : f[x] \in V
  PROVE  SumFunctionOnSet(f, S) \in V
<1> DEFINE P == {s \in SUBSET S : SumFunctionOnSet(f, s) \in V}
<1>1. ASSUME NEW s \in SUBSET S, \A t \in SUBSET s : t # s => t \in P PROVE s \in P
  <2>1. IsFiniteSet(s)
    BY FS_Subset
  <2>2. CASE s = {}
    BY <2>2, SumOfNone
  <2>3. CASE s # {}
    <3>1. First(s) \in s
      BY <2>3 DEF First
    <3>2. s \ {First(s)} \in P
      BY <1>1, <3>1
    <3>3. SumFunctionOnSet(f, s) = f[First(s)] + SumFunctionOnSet(f, s \ {First(s)})
      BY <2>1, <2>3, SumStep
    <3>4. f[First(s)] \in V /\ SumFunctionOnSet(f, s \ {First(s)}) \in V
      BY <3>1, <3>2
    <3> QED BY <3>3, <3>4
  <2> QED BY <2>2, <2>3
<1>2. SUBSET S \subseteq P
  <2> HIDE DEF P
  <2> QED BY <1>1, FiniteSetInduction
<1> QED BY <1>2

\* A sum of integers is an integer.
THEOREM SumInInt ==
  ASSUME NEW f, NEW S, IsFiniteSet(S), \A x \in S : f[x] \in Int
  PROVE  SumFunctionOnSet(f, S) \in Int
  BY SumClosed

\* A sum of naturals is a natural.
THEOREM SumInNat ==
  ASSUME NEW f, NEW S, IsFiniteSet(S), \A x \in S : f[x] \in Nat
  PROVE  SumFunctionOnSet(f, S) \in Nat
  BY SumClosed

\* A sum is any of its summands and the sum of the others: the order in which the
\* fold takes them away does not matter.
THEOREM SumWithout ==
  ASSUME NEW f, NEW S, IsFiniteSet(S), \A x \in S : f[x] \in Int, NEW e \in S
  PROVE  SumFunctionOnSet(f, S) = f[e] + SumFunctionOnSet(f, S \ {e})
<1> DEFINE Sum(s) == SumFunctionOnSet(f, s)
           P == {s \in SUBSET S : \A x \in s : Sum(s) = f[x] + Sum(s \ {x})}
<1>0. \A s \in SUBSET S : IsFiniteSet(s) /\ Sum(s) \in Int
  <2> SUFFICES ASSUME NEW s \in SUBSET S PROVE IsFiniteSet(s) /\ Sum(s) \in Int
    OBVIOUS
  <2>1. IsFiniteSet(s) /\ \A x \in s : f[x] \in Int
    BY FS_Subset
  <2> QED BY <2>1, SumInInt
<1>1. ASSUME NEW s \in SUBSET S, \A t \in SUBSET s : t # s => t \in P PROVE s \in P
  <2> SUFFICES ASSUME NEW x \in s PROVE Sum(s) = f[x] + Sum(s \ {x})
    OBVIOUS
  <2> DEFINE y == First(s)
  <2>1. y \in s
    BY DEF First
  <2>2. Sum(s) = f[y] + Sum(s \ {y})
    BY <1>0, SumStep
  <2>3. CASE x = y
    BY <2>2, <2>3
  <2>4. CASE x # y
    <3> HIDE DEF y
    <3>1. x \in s \ {y} /\ y \in s \ {x} /\ s \ {y} \in P /\ s \ {x} \in P
      BY <1>1, <2>1, <2>4
    <3>2. Sum(s \ {y}) = f[x] + Sum((s \ {y}) \ {x})
      BY <3>1
    <3>3. Sum(s \ {x}) = f[y] + Sum((s \ {x}) \ {y})
      BY <3>1
    <3>4. (s \ {y}) \ {x} = (s \ {x}) \ {y} /\ (s \ {y}) \ {x} \in SUBSET S
      OBVIOUS
    <3>5. f[x] \in Int /\ f[y] \in Int /\ Sum((s \ {y}) \ {x}) \in Int
      BY <1>0, <2>1, <3>4
    <3> DEFINE rest == Sum((s \ {y}) \ {x})
    <3>6. Sum(s) = f[y] + (f[x] + rest)
      BY <2>2, <3>2
    <3>7. Sum(s \ {x}) = f[y] + rest
      BY <3>3, <3>4
    <3>8. rest \in Int
      BY <3>5
    <3> HIDE DEF rest, Sum
    <3> QED BY <3>5, <3>6, <3>7, <3>8
  <2> QED BY <2>3, <2>4
<1>2. SUBSET S \subseteq P
  <2> HIDE DEF P
  <2> QED BY <1>1, FiniteSetInduction
<1>3. S \in P
  BY <1>2
<1> QED BY <1>3

\* Sums over disjoint sets add up.
THEOREM SumOfUnion ==
  ASSUME NEW f, NEW S, IsFiniteSet(S), NEW T, IsFiniteSet(T), S \cap T = {}, \A x \in S \cup T : f[x] \in Int
  PROVE  SumFunctionOnSet(f, S \cup T) = SumFunctionOnSet(f, S) + SumFunctionOnSet(f, T)
<1> DEFINE Sum(s) == SumFunctionOnSet(f, s)
           P == {t \in SUBSET T : Sum(S \cup t) = Sum(S) + Sum(t)}
<1>0. \A t \in SUBSET T : /\ IsFiniteSet(t) /\ IsFiniteSet(S \cup t)
                          /\ Sum(t) \in Int /\ Sum(S \cup t) \in Int
  <2> SUFFICES ASSUME NEW t \in SUBSET T PROVE IsFiniteSet(t) /\ IsFiniteSet(S \cup t)
                                               /\ Sum(t) \in Int /\ Sum(S \cup t) \in Int
    OBVIOUS
  <2>1. IsFiniteSet(t) /\ IsFiniteSet(S \cup t)
    BY FS_Subset, FS_Union
  <2>2. (\A x \in t : f[x] \in Int) /\ \A x \in S \cup t : f[x] \in Int
    OBVIOUS
  <2> QED BY <2>1, <2>2, SumInInt
<1>1. ASSUME NEW t \in SUBSET T, \A u \in SUBSET t : u # t => u \in P PROVE t \in P
  <2>1. Sum(S) \in Int
    BY SumInInt
  <2>2. CASE t = {}
    <3>1. Sum({}) = 0 /\ S \cup {} = S
      BY SumOfNone
    <3> HIDE DEF Sum
    <3> QED BY <2>1, <2>2, <3>1
  <2>3. CASE t # {}
    <3>1. PICK x : x \in t
      BY <2>3
    <3>2. t \ {x} \in P /\ t \ {x} \in SUBSET T
      BY <1>1, <3>1
    <3>3. Sum(t) = f[x] + Sum(t \ {x})
      <4>1. IsFiniteSet(t) /\ \A y \in t : f[y] \in Int
        BY <1>0
      <4> QED BY <3>1, <4>1, SumWithout
    <3>4. Sum(S \cup t) = f[x] + Sum((S \cup t) \ {x})
      <4>1. IsFiniteSet(S \cup t) /\ x \in S \cup t /\ \A y \in S \cup t : f[y] \in Int
        BY <1>0, <3>1
      <4> QED BY <4>1, SumWithout
    <3>5. (S \cup t) \ {x} = S \cup (t \ {x})
      BY <3>1
    <3>6. Sum(S \cup (t \ {x})) = Sum(S) + Sum(t \ {x})
      BY <3>2
    <3>7. f[x] \in Int /\ Sum(t \ {x}) \in Int
      BY <1>0, <3>1, <3>2
    <3>8. Sum(S \cup t) = f[x] + Sum(S \cup (t \ {x}))
      BY <3>4, <3>5
    <3> HIDE DEF Sum
    <3> QED BY <2>1, <3>3, <3>6, <3>7, <3>8
  <2> QED BY <2>2, <2>3
<1>2. SUBSET T \subseteq P
  <2> HIDE DEF P
  <2> QED BY <1>1, FiniteSetInduction
<1> QED BY <1>2

\* A smaller set of naturals has no larger sum.
THEOREM SumMonotone ==
  ASSUME NEW f, NEW S, IsFiniteSet(S), \A x \in S : f[x] \in Nat, NEW T \in SUBSET S
  PROVE  SumFunctionOnSet(f, T) <= SumFunctionOnSet(f, S)
<1> DEFINE Sum(s) == SumFunctionOnSet(f, s)
           P == {s \in SUBSET S : \A t \in SUBSET s : Sum(t) <= Sum(s)}
<1>0. \A s \in SUBSET S : IsFiniteSet(s) /\ Sum(s) \in Nat
  <2> SUFFICES ASSUME NEW s \in SUBSET S PROVE IsFiniteSet(s) /\ Sum(s) \in Nat
    OBVIOUS
  <2>1. IsFiniteSet(s) /\ \A x \in s : f[x] \in Nat
    BY FS_Subset
  <2> QED BY <2>1, SumInNat
<1>1. ASSUME NEW s \in SUBSET S, \A t \in SUBSET s : t # s => t \in P PROVE s \in P
  <2> SUFFICES ASSUME NEW t \in SUBSET s PROVE Sum(t) <= Sum(s)
    OBVIOUS
  <2>0. t \in SUBSET S
    OBVIOUS
  <2>1. CASE t = s
    BY <1>0, <2>1
  <2>2. CASE t # s
    <3>1. PICK x \in s : x \notin t
      BY <2>2
    <3>2. s \ {x} \in P /\ t \in SUBSET (s \ {x})
      BY <1>1, <3>1
    <3>3. Sum(t) <= Sum(s \ {x})
      BY <3>2
    <3>4. Sum(s) = f[x] + Sum(s \ {x})
      <4>1. IsFiniteSet(s) /\ \A y \in s : f[y] \in Int
        BY <1>0
      <4> QED BY <4>1, <3>1, SumWithout
    <3>5. f[x] \in Nat /\ Sum(s \ {x}) \in Nat /\ Sum(t) \in Nat
      BY <1>0, <2>0, <3>1
    <3> HIDE DEF Sum
    <3> QED BY <3>3, <3>4, <3>5
  <2> QED BY <2>1, <2>2
<1>2. SUBSET S \subseteq P
  <2> HIDE DEF P
  <2> QED BY <1>1, FiniteSetInduction
<1> QED BY <1>2

\* Changing one summand changes the sum by the difference.
THEOREM SumChange ==
  ASSUME NEW f, NEW g, NEW S, IsFiniteSet(S), NEW e \in S,
         \A x \in S : f[x] \in Int, g[e] \in Int,
         \A x \in S \ {e} : g[x] = f[x]
  PROVE  SumFunctionOnSet(g, S) = SumFunctionOnSet(f, S) - f[e] + g[e]
<1>1. IsFiniteSet(S \ {e}) /\ \A x \in S : g[x] \in Int
  BY FS_RemoveElement
<1>2. /\ SumFunctionOnSet(f, S) = f[e] + SumFunctionOnSet(f, S \ {e})
      /\ SumFunctionOnSet(g, S) = g[e] + SumFunctionOnSet(g, S \ {e})
  BY <1>1, SumWithout
<1>3. SumFunctionOnSet(g, S \ {e}) = SumFunctionOnSet(f, S \ {e})
  BY <1>1, SumOfEqual
<1>4. SumFunctionOnSet(f, S \ {e}) \in Int /\ f[e] \in Int
  BY <1>1, SumInInt
<1> QED BY <1>2, <1>3, <1>4
=============================================================================
