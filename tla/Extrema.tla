-------------------------------- MODULE Extrema --------------------------------
(***************************************************************************)
(* The first and the last of a set of natural numbers, how many things a   *)
(* finite set of rows can name, and how many of them a cut at some number  *)
(* leaves: what the proofs about the desk and the booking form need of     *)
(* Min, Max and Cardinality.                                               *)
(***************************************************************************)
EXTENDS Integers, FiniteSets, FiniteSetsExt, FiniteSetTheorems, WellFoundedInduction, TLAPS

LEMMA MinOfNat ==
  ASSUME NEW S \in SUBSET Nat, S # {}
  PROVE  Min(S) \in S /\ \A n \in S : Min(S) <= n
<1> DEFINE R == OpToRel(<, Nat)
<1>1. \A m, n \in Nat : <<m, n>> \in R <=> m < n
  BY DEF OpToRel
<1>2. IsWellFoundedOn(R, Nat)
  BY NatLessThanWellFounded
<1> HIDE DEF R
<1>3. PICK x \in S : \A y \in S : ~(<<y, x>> \in R)
  BY <1>2, WFMin
<1>4. x \in S /\ \A y \in S : x =< y
  <2>1. \A y \in S : x \in Nat /\ y \in Nat /\ ~(y < x)
    BY <1>1, <1>3
  <2> QED BY <2>1
<1> QED BY <1>4 DEF Min

LEMMA MaxOfNat ==
  ASSUME NEW S \in SUBSET Nat, S # {}, IsFiniteSet(S)
  PROVE  Max(S) \in S /\ \A n \in S : n <= Max(S)
<1> DEFINE Bounded(T) == \E b \in Nat : \A n \in T : n <= b
           Wild == {T \in FiniteSubsetsOf(S) : ~Bounded(T)}
           R    == StrictSubsetOrdering(S)
<1>1. IsWellFoundedOn(R, FiniteSubsetsOf(S)) /\ Wild \subseteq FiniteSubsetsOf(S)
  BY FS_StrictSubsetOrderingWellFounded
<1>2. ASSUME NEW T \in Wild, \A U \in Wild : ~(<<U, T>> \in R) PROVE FALSE
  <2>1. T \subseteq S /\ IsFiniteSet(T) /\ ~Bounded(T)
    BY DEF FiniteSubsetsOf
  <2>2. PICK x \in T : TRUE
    BY <2>1
  <2>3. T \ {x} \in FiniteSubsetsOf(S) /\ <<T \ {x}, T>> \in R
    BY <2>1, <2>2, FS_RemoveElement DEF FiniteSubsetsOf, StrictSubsetOrdering
  <2>4. Bounded(T \ {x})
    BY <1>2, <2>3
  <2>5. PICK b \in Nat : \A n \in T \ {x} : n <= b
    BY <2>4
  <2>6. x \in Nat /\ (b <= x \/ x <= b) /\ T \subseteq Nat
    BY <2>1, <2>2
  <2>7. Bounded(T)
    BY <2>5, <2>6
  <2> QED BY <2>1, <2>7
<1>3. Bounded(S)
  <2>1. S \in FiniteSubsetsOf(S)
    BY DEF FiniteSubsetsOf
  <2>2. ASSUME Wild # {} PROVE FALSE
    <3> HIDE DEF R, Wild
    <3>1. \E T \in Wild : \A U \in Wild : ~(<<U, T>> \in R)
      BY <1>1, <2>2, WFMin
    <3> QED BY <1>2, <3>1
  <2> QED BY <2>1, <2>2
<1> DEFINE Above == {b \in Nat : \A n \in S : n <= b}
<1>4. Above \in SUBSET Nat /\ Above # {}
  BY <1>3
<1> DEFINE top == Min(Above)
<1>5. top \in Above /\ \A b \in Above : top <= b
  BY <1>4, MinOfNat
<1>6. top \in S
  <2> SUFFICES ASSUME top \notin S PROVE FALSE
    OBVIOUS
  <2>1. PICK s \in S : TRUE
    OBVIOUS
  <2>2. top \in Nat /\ \A n \in S : n \in Nat /\ n <= top /\ n # top
    BY <1>5
  <2> HIDE DEF top
  <2>3. top - 1 \in Nat /\ \A n \in S : n <= top - 1
    BY <2>1, <2>2
  <2>4. top - 1 \in Above
    BY <2>3
  <2> QED BY <1>5, <2>2, <2>4
<1>7. \A n \in S : n \in Nat /\ top >= n
  BY <1>5
<1> HIDE DEF top
<1>8. \E x \in S : \A y \in S : x >= y
  BY <1>6, <1>7
<1> QED BY <1>8 DEF Max
-----------------------------------------------------------------------------
(* How many *)

\* Fewer things are named than there are rows that name them.
LEMMA ImageCardinality ==
  ASSUME NEW S, IsFiniteSet(S), NEW f, DOMAIN f = S, f = [x \in S |-> f[x]]
  PROVE  /\ IsFiniteSet({f[x] : x \in S})
         /\ Cardinality({f[x] : x \in S}) <= Cardinality(S)
<1>1. f \in Surjection(S, {f[x] : x \in S})
  BY DEF Surjection
<1> QED BY <1>1, FS_Surjection

\* Of the rest of a set there are at least as many as the set has more than what
\* is taken away.
LEMMA RestCardinality ==
  ASSUME NEW S, IsFiniteSet(S), NEW T, IsFiniteSet(T)
  PROVE  /\ Cardinality(S) \in Nat /\ Cardinality(T) \in Nat /\ Cardinality(S \ T) \in Nat
         /\ Cardinality(S) - Cardinality(T) <= Cardinality(S \ T)
<1>1. /\ Cardinality(S) \in Nat /\ Cardinality(T) \in Nat
      /\ IsFiniteSet(S \ T) /\ Cardinality(S \ T) = Cardinality(S) - Cardinality(S \cap T)
  BY FS_CardinalityType, FS_Difference
<1>2. Cardinality(S \cap T) <= Cardinality(T) /\ IsFiniteSet(S \cap T)
  BY FS_Intersection
<1>3. Cardinality(S \ T) \in Nat /\ Cardinality(S \cap T) \in Nat
  BY <1>1, <1>2, FS_CardinalityType
<1> QED BY <1>1, <1>2, <1>3
-----------------------------------------------------------------------------
(* The first n *)

\* Cut an ordered set behind its first n elements: if that leaves one out, there
\* are n before the cut, and each of them comes before the one left out.
LEMMA CutIsFull ==
  ASSUME NEW S, IsFiniteSet(S), NEW R,
         \A x, y \in S : x = y \/ <<x, y>> \in R \/ <<y, x>> \in R,
         \A x \in S : <<x, x>> \notin R,
         \A x, y, z \in S : <<x, y>> \in R /\ <<y, z>> \in R => <<x, z>> \in R,
         NEW n \in Nat, NEW out \in S, n <= Cardinality({y \in S : <<y, out>> \in R}),
         NEW first, first = {x \in S : Cardinality({y \in S : <<y, x>> \in R}) < n}
  PROVE  Cardinality(first) = n /\ \A x \in first : <<x, out>> \in R
<1> DEFINE Before(x) == {y \in S : <<y, x>> \in R}
           rank  == [x \in S |-> Cardinality(Before(x))]
           N     == Cardinality(S)
           cut   == [x \in first |-> rank[x]]
<1>1. N \in Nat /\ \A x \in S : IsFiniteSet(Before(x))
  BY FS_CardinalityType, FS_Subset
<1>2. \A x \in S : rank[x] \in 0 .. N - 1
  <2> SUFFICES ASSUME NEW x \in S PROVE rank[x] \in 0 .. N - 1
    OBVIOUS
  <2>1. Before(x) \subseteq S \ {x}
    OBVIOUS
  <2>2. IsFiniteSet(S \ {x}) /\ Cardinality(S \ {x}) = N - 1
    BY FS_RemoveElement
  <2>3. Cardinality(Before(x)) <= N - 1 /\ Cardinality(Before(x)) \in Nat
    <3> HIDE DEF Before
    <3>1. Before(x) \in SUBSET (S \ {x})
      BY <2>1
    <3> QED BY <1>1, <2>2, <3>1, FS_Subset, FS_CardinalityType
  <2> QED BY <1>1, <2>3
<1>3. \A x, y \in S : <<x, y>> \in R => rank[x] < rank[y]
  <2> SUFFICES ASSUME NEW x \in S, NEW y \in S, <<x, y>> \in R PROVE rank[x] < rank[y]
    OBVIOUS
  <2>1. Before(x) \subseteq Before(y) /\ x \in Before(y) /\ x \notin Before(x)
    OBVIOUS
  <2>2. /\ Cardinality(Before(x)) <= Cardinality(Before(y))
        /\ Cardinality(Before(x)) # Cardinality(Before(y))
    <3> HIDE DEF Before
    <3> QED BY <1>1, <2>1, FS_Subset
  <2>3. Cardinality(Before(x)) \in Nat /\ Cardinality(Before(y)) \in Nat
    BY <1>1, FS_CardinalityType
  <2> QED BY <2>2, <2>3
<1>4. n <= rank[out] /\ first = {x \in S : rank[x] < n} /\ DOMAIN rank = S /\ rank = [x \in S |-> rank[x]]
  OBVIOUS
<1> HIDE DEF rank, Before
<1>5. \A x \in S : rank[x] \in Nat
  BY <1>1, <1>2
<1>6. \A x, y \in S : rank[x] = rank[y] => x = y
  <2> SUFFICES ASSUME NEW x \in S, NEW y \in S, rank[x] = rank[y], x # y PROVE FALSE
    OBVIOUS
  <2>1. rank[x] < rank[y] \/ rank[y] < rank[x]
    BY <1>3
  <2> QED BY <1>5, <2>1
<1>7. rank \in Injection(S, 0 .. N - 1)
  <2>1. rank \in [S -> 0 .. N - 1]
    BY <1>2, <1>4
  <2> QED BY <1>6, <2>1 DEF Injection, IsInjective
<1>8. N >= 1 /\ IsFiniteSet(0 .. N - 1) /\ Cardinality(0 .. N - 1) = N
  <2>1. N - 1 \in Int /\ 0 \in Int /\ rank[out] \in 0 .. N - 1
    BY <1>1, <1>2
  <2>2. ~(0 > N - 1) /\ (N - 1) - 0 + 1 = N
    BY <1>1, <2>1
  <2> QED BY <1>1, <2>1, <2>2, FS_Interval
<1>9. rank \in Surjection(S, 0 .. N - 1)
  BY <1>7, <1>8, FS_Injection
<1>10. cut \in Injection(first, 0 .. n - 1)
  <2>1. cut \in [first -> 0 .. n - 1]
    <3>1. \A x \in first : rank[x] \in Nat /\ rank[x] < n
      BY <1>4, <1>5
    <3> QED BY <3>1
  <2>2. \A x, y \in first : cut[x] = cut[y] => x = y
    BY <1>4, <1>6
  <2> QED BY <2>1, <2>2 DEF Injection, IsInjective
<1>11. cut \in Surjection(first, 0 .. n - 1)
  <2> SUFFICES ASSUME NEW k \in 0 .. n - 1 PROVE \E x \in first : cut[x] = k
    BY <1>10 DEF Injection, Surjection
  <2>1. k \in 0 .. N - 1 /\ k < n
    BY <1>1, <1>2, <1>4
  <2>2. PICK x \in S : rank[x] = k
    BY <1>9, <2>1 DEF Surjection
  <2> QED BY <1>4, <2>1, <2>2
<1>12. IsFiniteSet(0 .. n - 1) /\ Cardinality(0 .. n - 1) = n
  <2>1. n - 1 \in Int /\ 0 \in Int /\ (0 > n - 1 <=> n = 0) /\ (n - 1) - 0 + 1 = n
    OBVIOUS
  <2> QED BY <2>1, FS_Interval
<1>13. Cardinality(first) = n
  <2> HIDE DEF cut
  <2> QED BY <1>10, <1>11, <1>12, FS_Injection
<1>14. ASSUME NEW x \in first PROVE <<x, out>> \in R
  <2>1. rank[x] \in Nat /\ rank[out] \in Nat /\ rank[x] < n /\ x \in S
    BY <1>4, <1>5
  <2>2. ~(rank[out] < rank[x]) /\ rank[out] # rank[x]
    BY <1>4, <2>1
  <2>3. x # out /\ <<out, x>> \notin R
    BY <1>3, <2>1, <2>2
  <2> QED BY <2>1, <2>3
<1> QED BY <1>13, <1>14
=============================================================================
