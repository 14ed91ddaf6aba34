----------------------------- MODULE ListLemmas ------------------------------
(* What the operators of Lists return, for every finite set of numbers and   *)
(* every list; and induction over the naturals and least elements in a form  *)
(* that the provers can use.                                                 *)
EXTENDS Lists, FiniteSetTheorems, TLAPS

----------------------------------------------------------------------------
(* Least elements and induction                                            *)

\* A set of naturals that is not empty has a least element.
LEMMA LeastNatural ==
    ASSUME NEW T \in SUBSET Nat, T # {}
    PROVE  \E x \in T : \A y \in T : x <= y
<1> DEFINE R == OpToRel(<, Nat)
<1>1. IsWellFoundedOn(R, Nat)
  BY NatLessThanWellFounded
<1>2. PICK x \in T : \A y \in T : <<y, x>> \notin R
  <2> HIDE DEF R
  <2> QED BY <1>1, WFMin
<1>3. ASSUME NEW y \in T, y < x PROVE <<y, x>> \in R
  <2>1. <<y, x>> \in Nat \X Nat
    OBVIOUS
  <2>2. <<y, x>>[1] = y /\ <<y, x>>[2] = x
    OBVIOUS
  <2> QED BY <1>3, <2>1, <2>2 DEF OpToRel
<1>4. \A y \in T : x \in Nat /\ y \in Nat
  OBVIOUS
<1> HIDE DEF R
<1>5. ASSUME NEW y \in T PROVE x <= y
  <2>1. ~(y < x)
    BY <1>2, <1>3
  <2> QED BY <1>4, <2>1
<1> QED BY <1>5

\* What 0 has, and n + 1 has whenever n does, all naturals have.
LEMMA NaturalSteps ==
    ASSUME NEW T, 0 \in T, \A n \in Nat : n \in T => n + 1 \in T
    PROVE  Nat \subseteq T
<1> DEFINE U == {n \in Nat : n \notin T}
<1>1. SUFFICES ASSUME U # {} PROVE FALSE
  OBVIOUS
<1>2. PICK x \in U : \A y \in U : x <= y
  <2>1. U \in SUBSET Nat
    OBVIOUS
  <2> HIDE DEF U
  <2> QED BY <1>1, <2>1, LeastNatural
<1>3. x - 1 \in Nat /\ x - 1 \in T
  BY <1>2
<1> QED BY <1>3

----------------------------------------------------------------------------
(* Ranks                                                                   *)

\* Ranks are places in the list.
LEMMA RankInRange ==
    ASSUME NEW S \in SUBSET Int, IsFiniteSet(S), NEW i \in S
    PROVE  Rank(S, i) \in 1..Cardinality(S)
<1> DEFINE below == {j \in S : j <= i}
<1>1. below \in SUBSET S /\ i \in below
  OBVIOUS
<1>2. IsFiniteSet(below) /\ Cardinality(below) <= Cardinality(S)
  BY <1>1, FS_Subset
<1>3. Cardinality(below) \in Nat /\ Cardinality(S) \in Nat /\ Cardinality(below) # 0
  BY <1>1, <1>2, FS_CardinalityType, FS_EmptySet
<1> QED BY <1>2, <1>3 DEF Rank

\* A larger number has a larger rank.
LEMMA RankIncreases ==
    ASSUME NEW S \in SUBSET Int, IsFiniteSet(S), NEW i \in S, NEW k \in S, i < k
    PROVE  Rank(S, i) < Rank(S, k)
<1> DEFINE small == {j \in S : j <= i}
           large == {j \in S : j <= k}
<1>1. small \in SUBSET large /\ k \in large /\ k \notin small /\ large \in SUBSET S
  <2>1. i \in Int /\ k \in Int /\ \A j \in S : j \in Int
    OBVIOUS
  <2>2. k <= k /\ ~(k <= i) /\ \A j \in S : j <= i => j <= k
    BY <2>1
  <2> QED BY <2>2
<1>2. IsFiniteSet(large)
  BY <1>1, FS_Subset
<1>3. Cardinality(small) <= Cardinality(large) /\ IsFiniteSet(small)
      /\ Cardinality(small) # Cardinality(large)
  BY <1>1, <1>2, FS_Subset
<1>4. Cardinality(small) \in Nat /\ Cardinality(large) \in Nat
  BY <1>2, <1>3, FS_CardinalityType
<1> QED BY <1>3, <1>4 DEF Rank

\* No two elements have the same rank.
LEMMA RankInjective ==
    ASSUME NEW S \in SUBSET Int, IsFiniteSet(S), NEW i \in S, NEW k \in S,
           Rank(S, i) = Rank(S, k)
    PROVE  i = k
<1>1. CASE i < k
  <2>1. Rank(S, i) < Rank(S, k) /\ Rank(S, i) \in Int
    BY <1>1, RankIncreases, RankInRange
  <2> QED BY <2>1
<1>2. CASE k < i
  <2>1. Rank(S, k) < Rank(S, i) /\ Rank(S, i) \in Int
    BY <1>2, RankIncreases, RankInRange
  <2> QED BY <2>1
<1> QED BY <1>1, <1>2

\* Every place is taken.
LEMMA RankOnto ==
    ASSUME NEW S \in SUBSET Int, IsFiniteSet(S), NEW n \in 1..Cardinality(S)
    PROVE  \E i \in S : Rank(S, i) = n
<1> DEFINE T == 1..Cardinality(S)
           f == [i \in S |-> Rank(S, i)]
<1>1. Cardinality(S) \in Nat
  BY FS_CardinalityType
<1>2. IsFiniteSet(T) /\ Cardinality(T) = Cardinality(S)
  BY <1>1, FS_Interval
<1>3. f \in [S -> T]
  BY RankInRange
<1>4. \A i, k \in S : f[i] = f[k] => i = k
  BY RankInjective
<1>5. f \in Injection(S, T)
  BY <1>3, <1>4 DEF Injection, IsInjective
<1>6. f \in Surjection(S, T)
  <2> HIDE DEF f, T
  <2> QED BY <1>2, <1>5, FS_Injection
<1> QED BY <1>6 DEF Surjection

\* The element of a rank and the rank of an element are inverse.
LEMMA NthProperties ==
    ASSUME NEW S \in SUBSET Int, IsFiniteSet(S)
    PROVE  /\ \A n \in 1..Cardinality(S) : Nth(S, n) \in S /\ Rank(S, Nth(S, n)) = n
           /\ \A i \in S : Nth(S, Rank(S, i)) = i
<1>1. ASSUME NEW n \in 1..Cardinality(S)
      PROVE  Nth(S, n) \in S /\ Rank(S, Nth(S, n)) = n
  BY RankOnto DEF Nth
<1>2. ASSUME NEW i \in S PROVE Nth(S, Rank(S, i)) = i
  <2>1. Rank(S, i) \in 1..Cardinality(S)
    BY RankInRange
  <2>2. PICK k \in S : k = Nth(S, Rank(S, i)) /\ Rank(S, k) = Rank(S, i)
    BY <1>1, <2>1
  <2>3. k = i
    BY <2>2, RankInjective
  <2> QED BY <2>2, <2>3
<1> QED BY <1>1, <1>2

----------------------------------------------------------------------------
(* Lists                                                                   *)

\* The ascending list of a set has each of its numbers, at its rank.
LEMMA AscendingProperties ==
    ASSUME NEW S \in SUBSET Int, IsFiniteSet(S)
    PROVE  /\ Ascending(S) \in Seq(S)
           /\ Len(Ascending(S)) = Cardinality(S)
           /\ DOMAIN Ascending(S) = 1..Cardinality(S)
           /\ \A n \in 1..Cardinality(S) : /\ Ascending(S)[n] \in S
                                           /\ Rank(S, Ascending(S)[n]) = n
           /\ \A i \in S : /\ Rank(S, i) \in 1..Cardinality(S)
                           /\ Ascending(S)[Rank(S, i)] = i
<1>1. Cardinality(S) \in Nat
  BY FS_CardinalityType
<1>2. \A n \in 1..Cardinality(S) : Nth(S, n) \in S /\ Rank(S, Nth(S, n)) = n
  BY NthProperties
<1>3. \A i \in S : Rank(S, i) \in 1..Cardinality(S) /\ Nth(S, Rank(S, i)) = i
  BY NthProperties, RankInRange
<1> QED BY <1>1, <1>2, <1>3 DEF Ascending

\* The ascending list ascends.
LEMMA AscendingOrder ==
    ASSUME NEW S \in SUBSET Int, IsFiniteSet(S),
           NEW m \in 1..Cardinality(S), NEW n \in 1..Cardinality(S), m < n
    PROVE  Ascending(S)[m] < Ascending(S)[n]
<1> DEFINE i == Ascending(S)[m]
           k == Ascending(S)[n]
<1>1. i \in S /\ k \in S /\ Rank(S, i) = m /\ Rank(S, k) = n
  BY AscendingProperties
<1>2. CASE k < i
  <2>1. Rank(S, k) < Rank(S, i)
    BY <1>1, <1>2, RankIncreases
  <2> QED BY <1>1, <2>1
<1>3. CASE i = k
  BY <1>1, <1>3
<1>4. i \in Int /\ k \in Int
  BY <1>1
<1> QED BY <1>2, <1>3, <1>4

\* The descending list has each number once.
LEMMA DescendingProperties ==
    ASSUME NEW S \in SUBSET Int, IsFiniteSet(S)
    PROVE  /\ Descending(S) \in Seq(S)
           /\ Len(Descending(S)) = Cardinality(S)
           /\ DOMAIN Descending(S) = 1..Cardinality(S)
           /\ \A i \in S : \E n \in 1..Cardinality(S) : Descending(S)[n] = i
           /\ \A m, n \in 1..Cardinality(S) : Descending(S)[m] = Descending(S)[n] => m = n
<1> DEFINE c == Cardinality(S)
           d == Descending(S)
<1>1. c \in Nat
  BY FS_CardinalityType
<1>2. \A n \in 1..c : d[n] \in S /\ Rank(S, d[n]) = c + 1 - n
  <2>1. ASSUME NEW n \in 1..c PROVE c + 1 - n \in 1..c
    BY <1>1
  <2> QED BY <2>1, NthProperties DEF Descending
<1>3. ASSUME NEW i \in S PROVE \E n \in 1..c : d[n] = i
  <2>1. Rank(S, i) \in 1..c
    BY RankInRange
  <2>2. c + 1 - Rank(S, i) \in 1..c /\ c + 1 - (c + 1 - Rank(S, i)) = Rank(S, i)
    BY <1>1, <2>1
  <2> QED BY <2>2, NthProperties DEF Descending
<1>4. \A m, n \in 1..c : d[m] = d[n] => m = n
  BY <1>1, <1>2
<1>5. DOMAIN d = 1..c /\ Len(d) = c /\ d \in Seq(S)
  BY <1>1, <1>2 DEF Descending
<1> QED BY <1>3, <1>4, <1>5

\* An entry of the descending list is larger than any after it.
LEMMA DescendingOrder ==
    ASSUME NEW S \in SUBSET Int, IsFiniteSet(S),
           NEW m \in 1..Cardinality(S), NEW n \in 1..Cardinality(S), m < n
    PROVE  Descending(S)[m] > Descending(S)[n]
<1> DEFINE c == Cardinality(S)
           i == Descending(S)[m]
           k == Descending(S)[n]
<1>1. c \in Nat
  BY FS_CardinalityType
<1>2. c + 1 - m \in 1..c /\ c + 1 - n \in 1..c /\ c + 1 - n < c + 1 - m
  BY <1>1
<1>3. i = Nth(S, c + 1 - m) /\ k = Nth(S, c + 1 - n)
  BY DEF Descending
<1>4. i \in S /\ k \in S /\ Rank(S, i) = c + 1 - m /\ Rank(S, k) = c + 1 - n
  BY <1>2, <1>3, NthProperties
<1> HIDE DEF i, k
<1>5. ASSUME i < k PROVE FALSE
  <2>1. Rank(S, i) < Rank(S, k)
    BY <1>4, <1>5, RankIncreases
  <2> QED BY <1>1, <1>2, <1>4, <2>1
<1>6. i # k
  BY <1>1, <1>2, <1>4
<1>7. i \in Int /\ k \in Int
  BY <1>4
<1>8. i > k
  BY <1>5, <1>6, <1>7
<1> QED BY <1>8 DEF i, k

\* Without puts what is at those places, in their order, and nothing else.
LEMMA WithoutPlaces ==
    ASSUME NEW T, NEW list \in Seq(T), NEW S
    PROVE  LET K == Places(list, S)
           IN  /\ K \in SUBSET Int /\ IsFiniteSet(K)
               /\ Cardinality(K) \in Nat /\ Cardinality(K) <= Len(list)
               /\ Without(list, S) \in Seq(T)
               /\ Len(Without(list, S)) = Cardinality(K)
               /\ DOMAIN Without(list, S) = 1..Cardinality(K)
               /\ \A n \in 1..Cardinality(K) :
                     /\ Ascending(K)[n] \in K /\ Rank(K, Ascending(K)[n]) = n
                     /\ Without(list, S)[n] = list[Ascending(K)[n]]
               /\ \A i \in K : /\ Rank(K, i) \in 1..Cardinality(K)
                               /\ Without(list, S)[Rank(K, i)] = list[i]
<1> DEFINE K == Places(list, S)
<1>1. DOMAIN list = 1..Len(list) /\ Len(list) \in Nat
  OBVIOUS
<1>2. IsFiniteSet(1..Len(list)) /\ Cardinality(1..Len(list)) = Len(list)
  BY <1>1, FS_Interval
<1>3. K \in SUBSET (1..Len(list)) /\ K \in SUBSET Int
  BY <1>1 DEF Places
<1> HIDE DEF K
<1>4. IsFiniteSet(K) /\ Cardinality(K) <= Len(list)
  BY <1>2, <1>3, FS_Subset
<1>5. Cardinality(K) \in Nat
  BY <1>4, FS_CardinalityType
<1>6. /\ DOMAIN Ascending(K) = 1..Cardinality(K)
      /\ \A n \in 1..Cardinality(K) : Ascending(K)[n] \in K /\ Rank(K, Ascending(K)[n]) = n
      /\ \A i \in K : Rank(K, i) \in 1..Cardinality(K) /\ Ascending(K)[Rank(K, i)] = i
  BY <1>3, <1>4, AscendingProperties
<1>7. Without(list, S) = [n \in 1..Cardinality(K) |-> list[Ascending(K)[n]]]
  BY <1>6 DEF K, Without
<1>8. ASSUME NEW n \in 1..Cardinality(K) PROVE list[Ascending(K)[n]] \in T
  <2>1. Ascending(K)[n] \in 1..Len(list)
    BY <1>3, <1>6
  <2> QED BY <2>1
<1>9. Without(list, S) \in Seq(T) /\ Len(Without(list, S)) = Cardinality(K)
  <2> DEFINE c == Cardinality(K)
             w == [n \in 1..c |-> list[Ascending(K)[n]]]
  <2>1. w \in [1..c -> T] /\ c \in Nat
    BY <1>5, <1>8
  <2> HIDE DEF c
  <2>2. w \in Seq(T) /\ Len(w) = c
    <3>1. DOMAIN w = 1..c /\ \A n \in 1..c : w[n] \in T
      BY <2>1
    <3>2. w \in UNION {[1..n -> T] : n \in Nat}
      BY <2>1
    <3> QED BY <2>1, <3>1, <3>2
  <2> QED BY <1>7, <2>2 DEF c
<1> QED BY <1>3, <1>4, <1>5, <1>6, <1>7, <1>9 DEF K

\* Without takes the entries in S out and keeps every other one, in fewer or as
\* many places, and as often.
LEMMA WithoutProperties ==
    ASSUME NEW T, NEW list \in Seq(T), NEW S
    PROVE  /\ Without(list, S) \in Seq(T)
           /\ Len(Without(list, S)) <= Len(list)
           /\ \A n \in DOMAIN Without(list, S) :
                 /\ Without(list, S)[n] \notin S
                 /\ \E i \in DOMAIN list : list[i] = Without(list, S)[n]
           /\ \A i \in DOMAIN list : list[i] \notin S =>
                 \E n \in DOMAIN Without(list, S) : Without(list, S)[n] = list[i]
           /\ (\A i, j \in DOMAIN list : list[i] = list[j] => i = j) =>
                 \A m, n \in DOMAIN Without(list, S) :
                    Without(list, S)[m] = Without(list, S)[n] => m = n
<1> DEFINE K == Places(list, S)
<1>0. \A i : i \in K <=> i \in DOMAIN list /\ list[i] \notin S
  BY DEF Places
<1> DEFINE w == Without(list, S)
           c == Cardinality(K)
<1>1. /\ w \in Seq(T) /\ Len(w) = c /\ DOMAIN w = 1..c /\ c <= Len(list)
      /\ \A n \in 1..c : Ascending(K)[n] \in K /\ Rank(K, Ascending(K)[n]) = n
                         /\ w[n] = list[Ascending(K)[n]]
      /\ \A i \in K : Rank(K, i) \in 1..c /\ w[Rank(K, i)] = list[i]
  BY WithoutPlaces
<1> HIDE DEF K
<1>2. ASSUME NEW m \in 1..c, NEW n \in 1..c, w[m] = w[n],
             \A i, j \in DOMAIN list : list[i] = list[j] => i = j
      PROVE  m = n
  <2>1. Ascending(K)[m] \in DOMAIN list /\ Ascending(K)[n] \in DOMAIN list
        /\ list[Ascending(K)[m]] = list[Ascending(K)[n]]
    BY <1>0, <1>1, <1>2
  <2>2. Ascending(K)[m] = Ascending(K)[n]
    BY <1>2, <2>1
  <2> QED BY <1>1, <2>2
<1> QED BY <1>0, <1>1, <1>2

\* Entry d is before e in the list.
ComesBefore(list, d, e) == \E i, j \in DOMAIN list : i < j /\ list[i] = d /\ list[j] = e

\* What is kept is kept in its order.
LEMMA WithoutOrder ==
    ASSUME NEW T, NEW list \in Seq(T), NEW S
    PROVE  /\ \A m, n \in DOMAIN Without(list, S) : m < n =>
                 ComesBefore(list, Without(list, S)[m], Without(list, S)[n])
           /\ \A d, e : ComesBefore(list, d, e) /\ d \notin S /\ e \notin S =>
                 ComesBefore(Without(list, S), d, e)
<1> DEFINE K == Places(list, S)
           w == Without(list, S)
           c == Cardinality(K)
<1>1. /\ K \in SUBSET Int /\ IsFiniteSet(K) /\ DOMAIN w = 1..c
      /\ \A n \in 1..c : Ascending(K)[n] \in K /\ w[n] = list[Ascending(K)[n]]
      /\ \A i \in K : Rank(K, i) \in 1..c /\ w[Rank(K, i)] = list[i]
  BY WithoutPlaces
<1>2. \A i : i \in K <=> i \in DOMAIN list /\ list[i] \notin S
  BY DEF Places
<1> HIDE DEF K, w
<1>3. ASSUME NEW m \in DOMAIN w, NEW n \in DOMAIN w, m < n PROVE ComesBefore(list, w[m], w[n])
  <2>1. Ascending(K)[m] < Ascending(K)[n]
    BY <1>1, <1>3, AscendingOrder
  <2>2. Ascending(K)[m] \in DOMAIN list /\ Ascending(K)[n] \in DOMAIN list
    BY <1>1, <1>2
  <2> QED BY <1>1, <2>1, <2>2 DEF ComesBefore
<1>4. ASSUME NEW d, NEW e, ComesBefore(list, d, e), d \notin S, e \notin S PROVE ComesBefore(w, d, e)
  <2>1. PICK i, j \in DOMAIN list : i < j /\ list[i] = d /\ list[j] = e
    BY <1>4 DEF ComesBefore
  <2>2. i \in K /\ j \in K
    BY <1>2, <1>4, <2>1
  <2>3. Rank(K, i) < Rank(K, j)
    BY <1>1, <2>1, <2>2, RankIncreases
  <2> QED BY <1>1, <2>1, <2>2, <2>3 DEF ComesBefore
<1> QED BY <1>3, <1>4 DEF w

\* Of a list that holds each entry once, taking out one entry takes one place at
\* most.
LEMMA WithoutOne ==
    ASSUME NEW T, NEW list \in Seq(T), NEW e,
           \A i, j \in DOMAIN list : list[i] = list[j] => i = j
    PROVE  Len(list) <= Len(Without(list, {e})) + 1
<1> DEFINE K == Places(list, {e})
<1>1. \A i : i \in K <=> i \in DOMAIN list /\ list[i] \notin {e}
  BY DEF Places
<1> DEFINE D == 1..Len(list)
           w == Without(list, {e})
<1>2. DOMAIN list = D /\ Len(list) \in Nat
  OBVIOUS
<1>3. IsFiniteSet(D) /\ Cardinality(D) = Len(list)
  BY <1>2, FS_Interval
<1>4. Len(w) = Cardinality(K) /\ IsFiniteSet(K) /\ Cardinality(K) \in Nat
  BY WithoutPlaces
<1> HIDE DEF D, w, K
<1>5. CASE \A i \in D : list[i] # e
  <2>1. K = D
    BY <1>1, <1>2, <1>5
  <2>2. Len(list) <= Len(w) + 1
    BY <1>2, <1>4, <1>3, <2>1
  <2> QED BY <2>2 DEF w
<1>6. CASE \E i \in D : list[i] = e
  <2>1. PICK i \in D : list[i] = e
    BY <1>6
  <2>2. K = D \ {i}
    BY <1>1, <1>2, <2>1
  <2>3. Cardinality(D \ {i}) = Cardinality(D) - 1
    BY <1>3, FS_RemoveElement
  <2>4. Len(list) <= Len(w) + 1
    BY <1>2, <1>4, <1>3, <2>2, <2>3
  <2> QED BY <2>4 DEF w
<1> QED BY <1>2, <1>5, <1>6

\* A number that is one of 1, 2 and so on is not below its place.
LEMMA RankAtMost ==
    ASSUME NEW K \in SUBSET (Nat \ {0}), NEW i \in K
    PROVE  Rank(K, i) <= i
<1> DEFINE below == {j \in K : j <= i}
<1>1. i \in Nat /\ \A j \in K : j \in Nat /\ 1 <= j
  <2>1. \A j \in K : j \in Nat \ {0}
    OBVIOUS
  <2> QED BY <2>1
<1>2. below \in SUBSET (1..i)
  <2>1. \A j \in below : j \in K /\ j <= i
    OBVIOUS
  <2> HIDE DEF below
  <2>2. ASSUME NEW j \in below PROVE j \in 1..i
    <3>1. j \in Nat /\ i \in Nat /\ 1 <= j /\ j <= i
      BY <1>1, <2>1
    <3> QED BY <3>1
  <2> QED BY <2>2
<1>3. IsFiniteSet(1..i) /\ Cardinality(1..i) = i
  BY <1>1, FS_Interval
<1>4. Cardinality(below) <= Cardinality(1..i)
  <2> HIDE DEF below
  <2> QED BY <1>2, <1>3, FS_Subset
<1> QED BY <1>3, <1>4 DEF Rank

\* To take nothing out changes nothing.
LEMMA WithoutNothing ==
    ASSUME NEW T, NEW list \in Seq(T)
    PROVE  Without(list, {}) = list
<1> DEFINE K == Places(list, {})
           w == Without(list, {})
<1>1. K = 1..Len(list) /\ Len(list) \in Nat
  BY DEF Places
<1>2. Cardinality(K) = Len(list)
  BY <1>1, FS_Interval
<1>3. /\ w \in Seq(T) /\ Len(w) = Cardinality(K) /\ \A i \in K : w[Rank(K, i)] = list[i]
  BY WithoutPlaces
<1> HIDE DEF K, w
<1>4. ASSUME NEW i \in 1..Len(list) PROVE Rank(K, i) = i
  <2>1. {j \in K : j <= i} = 1..i
    BY <1>1
  <2>2. Cardinality(1..i) = i
    BY FS_Interval
  <2> QED BY <2>1, <2>2 DEF Rank
<1>5. Len(w) = Len(list) /\ \A i \in 1..Len(list) : w[i] = list[i]
  BY <1>1, <1>2, <1>3, <1>4
<1>6. w = list
  BY <1>3, <1>5
<1> QED BY <1>6 DEF w

\* No more entries come to be before place n than were taken out before it.
LEMMA WithoutMoves ==
    ASSUME NEW T, NEW list \in Seq(T), NEW S, NEW n \in Nat \ {0},
           NEW moved, \A m : m \in moved <=> /\ m \in DOMAIN Without(list, S) /\ m < n
                                             /\ Ascending(Places(list, S))[m] >= n,
           NEW gone, \A i : i \in gone <=> i \in 1..Len(list) /\ list[i] \in S /\ i < n
    PROVE  /\ IsFiniteSet(moved) /\ IsFiniteSet(gone)
           /\ Cardinality(gone) \in Nat /\ Cardinality(moved) <= Cardinality(gone)
<1> DEFINE K == Places(list, S)
           B == 1..(n - 1)
<1>1. /\ K \in SUBSET Int /\ IsFiniteSet(K) /\ DOMAIN Without(list, S) = 1..Cardinality(K)
      /\ \A m \in 1..Cardinality(K) : Ascending(K)[m] \in K
      /\ \A i \in K : Rank(K, i) \in 1..Cardinality(K)
  BY WithoutPlaces
<1>2. \A i : i \in K <=> i \in 1..Len(list) /\ list[i] \notin S
  BY DEF Places
<1>3. Len(list) \in Nat
  OBVIOUS
<1>4. \A i \in K : Ascending(K)[Rank(K, i)] = i
  BY <1>1, AscendingProperties
<1> HIDE DEF K
<1>5. IsFiniteSet(B) /\ Cardinality(B) = n - 1
  <2>1. n - 1 \in Nat
    OBVIOUS
  <2> QED BY <2>1, FS_Interval
<1>6. moved \subseteq B /\ gone \subseteq B
  BY <1>1 DEF K
<1>7. IsFiniteSet(moved) /\ IsFiniteSet(gone) /\ Cardinality(moved) \in Nat /\ Cardinality(gone) \in Nat
  BY <1>5, <1>6, FS_Subset, FS_CardinalityType
<1>8. CASE moved = {}
  BY <1>7, <1>8, FS_EmptySet
<1>9. CASE moved # {}
  <2>1. B \subseteq 1..Len(list)
    <3>1. PICK m : m \in moved
      BY <1>9
    <3>2. Ascending(K)[m] \in K /\ Ascending(K)[m] >= n
      BY <1>1, <3>1 DEF K
    <3>3. n <= Len(list)
      BY <1>2, <1>3, <3>2
    <3> QED BY <1>3, <3>3
  <2> DEFINE low == B \cap K
             seats == {Rank(K, i) : i \in low}
             f == [i \in low |-> Rank(K, i)]
  <2>2. gone = B \ K
    BY <1>2, <1>6, <2>1
  <2>3. IsFiniteSet(low) /\ Cardinality(low) \in Nat
    BY <1>5, FS_Subset, FS_CardinalityType
  <2>4. Cardinality(gone) = (n - 1) - Cardinality(low)
    BY <1>5, <2>2, FS_Difference
  <2>5. IsFiniteSet(seats) /\ Cardinality(seats) = Cardinality(low)
    <3>1. \A i, k \in low : f[i] = f[k] => i = k
      BY <1>1, RankInjective
    <3>2. f \in [low -> seats] /\ \A y \in seats : \E i \in low : f[i] = y
      OBVIOUS
    <3> HIDE DEF f, seats, low
    <3>3. f \in Bijection(low, seats)
      BY <3>1, <3>2 DEF Bijection, Injection, Surjection, IsInjective
    <3>4. ExistsBijection(low, seats)
      BY <3>3 DEF ExistsBijection
    <3> QED BY <2>3, <3>4, FS_Bijection
  <2>6. seats \subseteq B
    <3>1. ASSUME NEW i \in low PROVE Rank(K, i) \in B
      <4>1. K \in SUBSET (Nat \ {0}) /\ i \in K /\ i \in 1..(n - 1)
        BY <1>2, <1>3
      <4>2. Rank(K, i) <= i /\ Rank(K, i) \in Nat /\ Rank(K, i) >= 1
        BY <1>1, <4>1, RankAtMost
      <4> QED BY <4>1, <4>2
    <3> QED BY <3>1
  <2>7. seats \cap moved = {}
    <3>1. ASSUME NEW i \in low, Rank(K, i) \in moved PROVE FALSE
      <4>1. Ascending(K)[Rank(K, i)] = i /\ i \in 1..(n - 1)
        BY <1>4
      <4>2. Ascending(K)[Rank(K, i)] >= n
        BY <3>1 DEF K
      <4> QED BY <4>1, <4>2
    <3> QED BY <3>1
  <2> HIDE DEF low, seats
  <2>8. Cardinality(seats \cup moved) = Cardinality(seats) + Cardinality(moved)
    <3>1. /\ Cardinality(seats \cup moved)
                = Cardinality(seats) + Cardinality(moved) - Cardinality(seats \cap moved)
          /\ Cardinality(seats \cap moved) = 0
      BY <1>7, <2>5, <2>7, FS_Union, FS_EmptySet
    <3> QED BY <1>7, <2>3, <2>5, <3>1
  <2>9. Cardinality(seats \cup moved) <= n - 1
    <3>1. seats \cup moved \in SUBSET B
      BY <1>6, <2>6
    <3> QED BY <1>5, <3>1, FS_Subset
  <2> QED BY <1>7, <2>3, <2>4, <2>5, <2>8, <2>9
<1> QED BY <1>7, <1>8, <1>9

\* What a function takes on a finite set is a finite set, and not a larger one.
LEMMA ImageOfFinite ==
    ASSUME NEW M, IsFiniteSet(M), NEW f, NEW I, \A y \in I : \E m \in M : f[m] = y
    PROVE  IsFiniteSet(I) /\ Cardinality(I) <= Cardinality(M)
<1> DEFINE T == {f[m] : m \in M}
           g == [m \in M |-> f[m]]
<1>1. g \in [M -> T] /\ (\A y \in T : \E m \in M : g[m] = y) /\ I \in SUBSET T
  OBVIOUS
<1> HIDE DEF g, T
<1>2. g \in Surjection(M, T)
  BY <1>1 DEF Surjection
<1>3. IsFiniteSet(T) /\ Cardinality(T) <= Cardinality(M)
  BY <1>2, FS_Surjection
<1>4. IsFiniteSet(I) /\ Cardinality(I) <= Cardinality(T)
  BY <1>1, <1>3, FS_Subset
<1>5. Cardinality(I) \in Nat /\ Cardinality(T) \in Nat /\ Cardinality(M) \in Nat
  BY <1>3, <1>4, FS_CardinalityType
<1> QED BY <1>3, <1>4, <1>5
=============================================================================
