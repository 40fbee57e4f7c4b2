--------------------------- MODULE Ordering_proofs ---------------------------
(***************************************************************************)
(* Facts about sorted and filtered sequences, sums and folds.  They are    *)
(* proved by induction over the natural numbers, which here follows from   *)
(* the well-foundedness of the finite subsets of a set: a property to be   *)
(* proved by induction is written as the set of the numbers that have it.  *)
(***************************************************************************)
EXTENDS Ordering, Functions, FiniteSetTheorems, TLAPS

----------------------------------------------------------------------------
(* Induction and recursion *)

\* A nonempty set of natural numbers has a least one: the intervals 0..m are
\* well-founded by inclusion.
LEMMA LeastNumber ==
    ASSUME NEW X \in SUBSET Nat, X # {}
    PROVE  \E n \in X : \A m \in X : n <= m
<1>1. PICK k \in X : TRUE
  OBVIOUS
<1> DEFINE T == {0..m : m \in {m \in X : m <= k}}
<1>2. IsWellFoundedOn(StrictSubsetOrdering(0..k), SUBSET (0..k))
  <2>1. IsFiniteSet(0..k)
    BY FS_Interval
  <2>2. FiniteSubsetsOf(0..k) = SUBSET (0..k)
    BY <2>1, FS_FiniteSubsetsOfFinite
  <2> QED BY <2>2, FS_StrictSubsetOrderingWellFounded
<1>3. T \subseteq SUBSET (0..k) /\ T # {}
  <2>1. 0..k \in T
    OBVIOUS
  <2>2. T \subseteq SUBSET (0..k)
    OBVIOUS
  <2> QED BY <2>1, <2>2
<1>4. PICK S \in T : \A U \in T : ~(<<U, S>> \in StrictSubsetOrdering(0..k))
  <2> HIDE DEF T
  <2> QED BY <1>2, <1>3, WFMin
<1>5. PICK n \in X : n <= k /\ S = 0..n
  OBVIOUS
<1>6. ASSUME NEW m \in X, m < n
      PROVE  FALSE
  <2>1. 0..m \in T /\ m <= k
    BY <1>5, <1>6
  <2>2. <<0..m, S>> \in StrictSubsetOrdering(0..k)
    <3>1. 0..m \subseteq S /\ 0..m # S
      <4>1. n \in S /\ n \notin 0..m
        BY <1>5, <1>6
      <4>2. 0..m \subseteq S
        BY <1>5, <1>6
      <4> QED BY <4>1, <4>2
    <3> QED BY <1>3, <2>1, <3>1 DEF StrictSubsetOrdering
  <2> QED BY <1>4, <2>1, <2>2
<1> QED BY <1>5, <1>6

\* Induction over the natural numbers, for a set instead of a predicate.
LEMMA Induct ==
    ASSUME NEW X, 0 \in X, \A n \in Nat : n \in X => n + 1 \in X
    PROVE  Nat \subseteq X
<1> SUFFICES ASSUME Nat \ X # {} PROVE FALSE
  OBVIOUS
<1>1. PICK n \in Nat \ X : \A m \in Nat \ X : n <= m
  BY LeastNumber
<1>2. n # 0 /\ n - 1 \in Nat /\ n - 1 \in X
  BY <1>1
<1> QED BY <1>1, <1>2

\* g takes the element that next names off a set, and applies step to it and to
\* its value for what remains.
IsRecursion(g, T, base, next, step) ==
    \A s \in SUBSET T :
        g[s] = IF s = {} THEN base ELSE step[<<next[s], g[s \ {next[s]}]>>]

HasRecursion(T, V, base, next, step) ==
    \E g \in [SUBSET T -> V] : IsRecursion(g, T, base, next, step)

\* Recursion over the subsets of a finite set has a solution.
LEMMA Recursion ==
    ASSUME NEW T, IsFiniteSet(T), NEW V, NEW base \in V,
           NEW next \in [(SUBSET T) \ {{}} -> T], \A s \in (SUBSET T) \ {{}} : next[s] \in s,
           NEW step \in [T \X V -> V]
    PROVE  HasRecursion(T, V, base, next, step)
<1> DEFINE Upto(n) == {s \in SUBSET T : Cardinality(s) <= n}
           Recursive(g, n) == \A s \in Upto(n) :
              g[s] = IF s = {} THEN base ELSE step[<<next[s], g[s \ {next[s]}]>>]
           Solved(n) == \E g \in [Upto(n) -> V] : Recursive(g, n)
           X == {n \in Nat : Solved(n)}
<1>1. \A s \in SUBSET T : IsFiniteSet(s) /\ Cardinality(s) \in Nat /\ Cardinality(s) <= Cardinality(T)
  BY FS_Subset, FS_CardinalityType
<1>2. \A s \in (SUBSET T) \ {{}} : /\ s \ {next[s]} \in SUBSET T
                                   /\ Cardinality(s \ {next[s]}) = Cardinality(s) - 1
  BY <1>1, FS_RemoveElement
<1>3. 0 \in X
  <2>1. Upto(0) = {{}}
    BY <1>1, FS_EmptySet
  <2> DEFINE g == [s \in Upto(0) |-> base]
  <2>2. g \in [Upto(0) -> V] /\ Recursive(g, 0)
    BY <2>1
  <2> QED BY <2>2
<1>4. ASSUME NEW n \in Nat, n \in X
      PROVE  n + 1 \in X
  <2>1. PICK f \in [Upto(n) -> V] : Recursive(f, n)
    BY <1>4
  <2> DEFINE g == [s \in Upto(n + 1) |->
                      IF s = {} THEN base ELSE step[<<next[s], f[s \ {next[s]}]>>]]
  <2>2. ASSUME NEW s \in Upto(n + 1), s # {}
        PROVE  s \ {next[s]} \in Upto(n) /\ next[s] \in T
    BY <1>1, <1>2, <2>2
  <2>3. ASSUME NEW s \in Upto(n)
        PROVE  s \in Upto(n + 1) /\ g[s] = f[s]
    <3>1. s \in Upto(n + 1)
      BY <1>1
    <3>2. g[s] = IF s = {} THEN base ELSE step[<<next[s], f[s \ {next[s]}]>>]
      BY <3>1
    <3>3. f[s] = IF s = {} THEN base ELSE step[<<next[s], f[s \ {next[s]}]>>]
      BY <2>1
    <3> QED BY <3>1, <3>2, <3>3
  <2>4. g \in [Upto(n + 1) -> V]
    BY <2>2
  <2>5. Recursive(g, n + 1)
    BY <2>2, <2>3
  <2>6. Solved(n + 1)
    <3> HIDE DEF g
    <3> QED BY <2>4, <2>5
  <2> HIDE DEF Solved
  <2> QED BY <2>6
<1>5. Cardinality(T) \in X
  <2> HIDE DEF X
  <2> QED BY <1>3, <1>4, Induct, FS_CardinalityType
<1>6. Upto(Cardinality(T)) = SUBSET T
  BY <1>1
<1> QED BY <1>5, <1>6 DEF HasRecursion, IsRecursion

----------------------------------------------------------------------------
(* Arrangements *)

IsStrictOrder(I, before) ==
    /\ \A i \in I : <<i, i>> \notin before
    /\ \A i, j, k \in I : <<i, j>> \in before /\ <<j, k>> \in before => <<i, k>> \in before
    /\ \A i, j \in I : i # j => <<i, j>> \in before \/ <<j, i>> \in before

\* e goes through I, each element once.
Enumerates(e, I) ==
    /\ e \in [1..Cardinality(I) -> I]
    /\ \A k, l \in 1..Cardinality(I) : e[k] = e[l] => k = l
    /\ \A i \in I : \E k \in 1..Cardinality(I) : e[k] = i

\* t goes through the positions I of s, each once, in their order.
Arranges(t, s, I, before) ==
    \E e : /\ Enumerates(e, I)
           /\ \A k, l \in 1..Cardinality(I) : k < l => <<e[k], e[l]>> \in before
           /\ t = [k \in 1..Cardinality(I) |-> s[e[k]]]

LEMMA Arrangement ==
    ASSUME NEW s, NEW I, IsFiniteSet(I), NEW before, IsStrictOrder(I, before)
    PROVE  Arranges(Arranged(s, I, before), s, I, before)
<1> DEFINE n == Cardinality(I)
           Before(i) == {j \in I : <<j, i>> \in before}
           place == [i \in I |-> Cardinality(Before(i))]
           e == [k \in 1..n |-> CHOOSE i \in I : Cardinality(Before(i)) = k - 1]
<1>1. n \in Nat
  BY FS_CardinalityType
<1>2. \A i \in I : /\ IsFiniteSet(Before(i)) /\ place[i] \in Nat
  BY FS_Subset, FS_CardinalityType
<1>3. ASSUME NEW i \in I, NEW j \in I, <<i, j>> \in before
      PROVE  place[i] < place[j]
  <2>1. Before(i) \subseteq Before(j)
    BY <1>3 DEF IsStrictOrder
  <2>2. i \in Before(j) /\ i \notin Before(i)
    BY <1>3 DEF IsStrictOrder
  <2>3. Cardinality(Before(i)) <= Cardinality(Before(j)) /\ Cardinality(Before(i)) # Cardinality(Before(j))
    BY <1>2, <2>1, <2>2, FS_Subset
  <2> QED BY <1>2, <2>3
<1>4. ASSUME NEW i \in I
      PROVE  place[i] \in 0..(n - 1)
  <2>1. Before(i) \subseteq I \ {i}
    BY DEF IsStrictOrder
  <2>2. IsFiniteSet(I \ {i}) /\ Cardinality(I \ {i}) = n - 1
    BY FS_RemoveElement
  <2>3. Cardinality(Before(i)) <= n - 1
    <3> HIDE DEF Before
    <3> QED BY <2>1, <2>2, FS_Subset
  <2> QED BY <1>1, <1>2, <2>3
<1>5. \A i, j \in I : place[i] = place[j] => i = j
  <2> SUFFICES ASSUME NEW i \in I, NEW j \in I, place[i] = place[j], i # j PROVE FALSE
    OBVIOUS
  <2>1. place[i] \in Nat /\ place[j] \in Nat
    BY <1>2
  <2>2. <<i, j>> \in before \/ <<j, i>> \in before
    BY DEF IsStrictOrder
  <2> HIDE DEF place
  <2> QED BY <1>3, <2>1, <2>2
<1>6. ASSUME NEW p \in 0..(n - 1)
      PROVE  \E i \in I : place[i] = p
  <2>1. IsFiniteSet(0..(n - 1)) /\ Cardinality(0..(n - 1)) = n
    BY <1>1, FS_Interval
  <2>2. place \in Injection(I, 0..(n - 1))
    <3> HIDE DEF place
    <3>1. place \in [I -> 0..(n - 1)]
      BY <1>4 DEF place
    <3> QED BY <3>1, <1>5 DEF Injection, IsInjective
  <2>3. place \in Surjection(I, 0..(n - 1))
    <3> HIDE DEF place
    <3> QED BY <2>1, <2>2, FS_Injection
  <2> HIDE DEF place
  <2> QED BY <2>3 DEF Surjection
<1>7. \A k \in 1..n : e[k] \in I /\ place[e[k]] = k - 1
  <2> SUFFICES ASSUME NEW k \in 1..n PROVE e[k] \in I /\ place[e[k]] = k - 1
    OBVIOUS
  <2>1. k - 1 \in 0..(n - 1)
    BY <1>1
  <2>2. \E i \in I : Cardinality(Before(i)) = k - 1
    BY <1>6, <2>1
  <2> QED BY <2>2
<1>8. \A i \in I : place[i] + 1 \in 1..n /\ e[place[i] + 1] = i
  <2> SUFFICES ASSUME NEW i \in I PROVE place[i] + 1 \in 1..n /\ e[place[i] + 1] = i
    OBVIOUS
  <2> HIDE DEF place, e
  <2>1. place[i] + 1 \in 1..n
    BY <1>1, <1>4
  <2>2. e[place[i] + 1] \in I /\ place[e[place[i] + 1]] = place[i]
    BY <1>4, <1>7, <2>1
  <2> QED BY <1>5, <2>1, <2>2
<1>9. Enumerates(e, I)
  <2>1. e \in [1..n -> I]
    BY <1>7
  <2> HIDE DEF place, e
  <2> QED BY <1>1, <1>7, <1>8, <2>1 DEF Enumerates
<1>10. ASSUME NEW k \in 1..n, NEW l \in 1..n, k < l
       PROVE  <<e[k], e[l]>> \in before
  <2> HIDE DEF place, e
  <2>1. e[k] # e[l]
    BY <1>1, <1>7, <1>10
  <2>2. ~(<<e[l], e[k]>> \in before)
    BY <1>1, <1>3, <1>7, <1>10
  <2> QED BY <1>7, <2>1, <2>2 DEF IsStrictOrder
<1>11. Arranged(s, I, before) = [k \in 1..n |-> s[e[k]]]
  BY DEF Arranged
<1> HIDE DEF e
<1> QED BY <1>9, <1>10, <1>11 DEF Arranges

\* Pairs of numbers of a set by one relation on them, where it is an order.
LEMMA SmallerFirst ==
    ASSUME NEW I \in SUBSET Int
    PROVE  IsStrictOrder(I, {p \in I \X I : p[1] < p[2]})
BY DEF IsStrictOrder

LEMMA GreaterFirst ==
    ASSUME NEW I \in SUBSET Int
    PROVE  IsStrictOrder(I, {p \in I \X I : p[1] > p[2]})
BY DEF IsStrictOrder

\* The comparison of sequences of one length is transitive, and decides between
\* any two that differ.
LEMMA LexTransitive ==
    ASSUME NEW w \in Nat, NEW s \in [1..w -> Int], NEW t \in [1..w -> Int], NEW u \in [1..w -> Int],
           LexGreater(s, t), LexGreater(t, u)
    PROVE  LexGreater(s, u)
<1>1. PICK i \in 1..w : s[i] > t[i] /\ \A j \in 1..(i - 1) : s[j] = t[j]
  BY DEF LexGreater
<1>2. PICK k \in 1..w : t[k] > u[k] /\ \A j \in 1..(k - 1) : t[j] = u[j]
  BY DEF LexGreater
<1>3. CASE i <= k
  <2>1. s[i] > u[i]
    BY <1>1, <1>2, <1>3
  <2>2. \A j \in 1..(i - 1) : s[j] = u[j]
    BY <1>1, <1>2, <1>3
  <2> QED BY <2>1, <2>2 DEF LexGreater
<1>4. CASE k < i
  <2>1. s[k] > u[k]
    BY <1>1, <1>2, <1>4
  <2>2. \A j \in 1..(k - 1) : s[j] = u[j]
    BY <1>1, <1>2, <1>4
  <2> QED BY <2>1, <2>2 DEF LexGreater
<1> QED BY <1>3, <1>4

LEMMA LexTotal ==
    ASSUME NEW w \in Nat, NEW s \in [1..w -> Int], NEW t \in [1..w -> Int], s # t
    PROVE  LexGreater(s, t) \/ LexGreater(t, s)
<1> DEFINE X == {i \in 1..w : s[i] # t[i]}
<1>1. X # {} /\ X \in SUBSET Nat
  OBVIOUS
<1>2. PICK i \in X : \A j \in X : i <= j
  <2> HIDE DEF X
  <2> QED BY <1>1, LeastNumber
<1>3. \A j \in 1..(i - 1) : s[j] = t[j]
  BY <1>2
<1>4. s[i] > t[i] \/ t[i] > s[i]
  BY <1>2
<1> QED BY <1>3, <1>4 DEF LexGreater

LEMMA RankedOrder ==
    ASSUME NEW w \in Nat, NEW I \in SUBSET Int, NEW ranks \in [I -> [1..w -> Int]],
           NEW before, before = {p \in I \X I : RankedBefore(ranks, p[1], p[2])}
    PROVE  IsStrictOrder(I, before)
<1>1. \A i \in I : ~ LexGreater(ranks[i], ranks[i])
  BY DEF LexGreater
<1>2. ASSUME NEW i \in I, NEW j \in I, NEW k \in I,
             RankedBefore(ranks, i, j), RankedBefore(ranks, j, k)
      PROVE  RankedBefore(ranks, i, k)
  <2>1. LexGreater(ranks[i], ranks[j]) /\ LexGreater(ranks[j], ranks[k])
           => LexGreater(ranks[i], ranks[k])
    BY LexTransitive
  <2> QED BY <1>2, <2>1 DEF RankedBefore
<1>3. ASSUME NEW i \in I, NEW j \in I, i # j
      PROVE  RankedBefore(ranks, i, j) \/ RankedBefore(ranks, j, i)
  <2>1. ranks[i] # ranks[j] => LexGreater(ranks[i], ranks[j]) \/ LexGreater(ranks[j], ranks[i])
    BY LexTotal
  <2> QED BY <1>3, <2>1 DEF RankedBefore
<1>4. \A i \in I : ~ RankedBefore(ranks, i, i)
  BY <1>1 DEF RankedBefore
<1> QED BY <1>2, <1>3, <1>4 DEF IsStrictOrder

\* t has the elements of s, each once, by their ranks.
Permutes(t, s, ranks) ==
    \E e \in [1..Len(s) -> 1..Len(s)] :
        /\ Enumerates(e, 1..Len(s))
        /\ \A k, l \in 1..Len(s) : k < l => RankedBefore(ranks, e[k], e[l])
        /\ t = [k \in 1..Len(s) |-> s[e[k]]]

\* Sorting keeps every position once.
LEMMA SortedIs ==
    ASSUME NEW S, NEW s \in Seq(S), NEW w \in Nat, NEW ranks \in [1..Len(s) -> [1..w -> Int]]
    PROVE  Permutes(SortedBy(ranks, s), s, ranks)
<1> DEFINE I == 1..Len(s)
           before == {p \in I \X I : RankedBefore(ranks, p[1], p[2])}
<1>1. IsFiniteSet(I) /\ Cardinality(I) = Len(s) /\ DOMAIN s = I
  BY FS_Interval
<1>2. Evaluated(ranks) = ranks
  <2>1. ranks \in Seq([1..w -> Int])
    OBVIOUS
  <2> QED BY <2>1 DEF Evaluated
<1>3. IsStrictOrder(I, before)
  <2>1. I \in SUBSET Int /\ ranks \in [I -> [1..w -> Int]]
    OBVIOUS
  <2> HIDE DEF I
  <2> QED BY <2>1, RankedOrder
<1>4. PICK e : /\ Enumerates(e, I)
               /\ \A k, l \in 1..Cardinality(I) : k < l => <<e[k], e[l]>> \in before
               /\ Arranged(s, I, before) = [k \in 1..Cardinality(I) |-> s[e[k]]]
  <2> HIDE DEF before, I
  <2>1. Arranges(Arranged(s, I, before), s, I, before)
    BY <1>1, <1>3, Arrangement
  <2> QED BY <2>1 DEF Arranges
<1>5. SortedBy(ranks, s) = Arranged(s, I, before)
  BY <1>1, <1>2 DEF SortedBy
<1>6. \A k, l \in 1..Len(s) : k < l => RankedBefore(ranks, e[k], e[l])
  BY <1>1, <1>4
<1> HIDE DEF I, before
<1>7. e \in [1..Len(s) -> I]
  BY <1>1, <1>4 DEF Enumerates
<1> QED BY <1>1, <1>4, <1>5, <1>6, <1>7 DEF I, Permutes

\* t has the elements of s at the positions I, in the order they have in s.
Selects(t, s, I) ==
    \E e : /\ Enumerates(e, I)
           /\ \A k, l \in 1..Cardinality(I) : k < l => e[k] < e[l]
           /\ t = [k \in 1..Cardinality(I) |-> s[e[k]]]

\* Selecting keeps the positions in their order.
LEMMA SelectedIs ==
    ASSUME NEW S, NEW s \in Seq(S), NEW I \in SUBSET (1..Len(s))
    PROVE  /\ IsFiniteSet(I) /\ Cardinality(I) \in Nat
           /\ Selects(Selected(s, I), s, I)
<1> DEFINE before == {p \in I \X I : p[1] < p[2]}
<1>1. IsFiniteSet(I) /\ Cardinality(I) \in Nat
  <2>1. IsFiniteSet(1..Len(s))
    BY FS_Interval
  <2>2. IsFiniteSet(I)
    BY <2>1, FS_Subset
  <2> QED BY <2>2, FS_CardinalityType
<1>2. IsStrictOrder(I, before)
  BY SmallerFirst
<1>3. PICK e : /\ Enumerates(e, I)
               /\ \A k, l \in 1..Cardinality(I) : k < l => <<e[k], e[l]>> \in before
               /\ Arranged(s, I, before) = [k \in 1..Cardinality(I) |-> s[e[k]]]
  <2> HIDE DEF before
  <2>1. Arranges(Arranged(s, I, before), s, I, before)
    BY <1>1, <1>2, Arrangement
  <2> QED BY <2>1 DEF Arranges
<1>4. \A k, l \in 1..Cardinality(I) : k < l => e[k] < e[l]
  BY <1>1, <1>3
<1>5. Selected(s, I) = Arranged(s, I, before)
  BY DEF Selected
<1> HIDE DEF before
<1> QED BY <1>1, <1>3, <1>4, <1>5 DEF Selects

\* A finite set of numbers has a greatest one.
LEMMA GreatestNumber ==
    ASSUME NEW X \in SUBSET Int, IsFiniteSet(X), X # {}
    PROVE  \E n \in X : \A m \in X : n >= m
<1> DEFINE before == {p \in X \X X : p[1] > p[2]}
<1>1. IsStrictOrder(X, before)
  BY GreaterFirst
<1>2. PICK e : /\ Enumerates(e, X)
               /\ \A k, l \in 1..Cardinality(X) : k < l => <<e[k], e[l]>> \in before
  <2> HIDE DEF before
  <2>1. Arranges(Arranged(<<>>, X, before), <<>>, X, before)
    BY <1>1, Arrangement
  <2> QED BY <2>1 DEF Arranges
<1>3. Cardinality(X) \in Nat \ {0}
  BY FS_CardinalityType, FS_EmptySet
<1>4. \A m \in X : \E k \in 1..Cardinality(X) : e[k] = m
  BY <1>2 DEF Enumerates
<1>5. e[1] \in X
  BY <1>2, <1>3 DEF Enumerates
<1>6. ASSUME NEW m \in X
      PROVE  e[1] >= m
  <2>1. PICK k \in 1..Cardinality(X) : e[k] = m
    BY <1>4
  <2>2. CASE k = 1
    BY <1>5, <2>1, <2>2
  <2>3. CASE k > 1
    <3>1. <<e[1], m>> \in before
      BY <1>2, <1>3, <2>1, <2>3
    <3>2. e[1] > m
      BY <3>1
    <3>3. e[1] \in Int /\ m \in Int
      BY <1>5
    <3> QED BY <3>2, <3>3
  <2> QED BY <2>1, <2>2, <2>3
<1> QED BY <1>5, <1>6

\* A finite set of numbers with ranks has a best one.
LEMMA BestRanked ==
    ASSUME NEW w \in Nat, NEW I \in SUBSET Int, IsFiniteSet(I), I # {},
           NEW ranks \in [I -> [1..w -> Int]]
    PROVE  \E i \in I : \A j \in I \ {i} : RankedBefore(ranks, i, j)
<1> DEFINE before == {p \in I \X I : RankedBefore(ranks, p[1], p[2])}
<1>1. IsStrictOrder(I, before)
  BY RankedOrder
<1>2. PICK e : /\ Enumerates(e, I)
               /\ \A k, l \in 1..Cardinality(I) : k < l => <<e[k], e[l]>> \in before
  <2> HIDE DEF before
  <2>1. Arranges(Arranged(<<>>, I, before), <<>>, I, before)
    BY <1>1, Arrangement
  <2> QED BY <2>1 DEF Arranges
<1>3. Cardinality(I) \in Nat \ {0}
  BY FS_CardinalityType, FS_EmptySet
<1>4. \A j \in I : \E k \in 1..Cardinality(I) : e[k] = j
  BY <1>2 DEF Enumerates
<1>5. e[1] \in I
  BY <1>2, <1>3 DEF Enumerates
<1>6. ASSUME NEW j \in I \ {e[1]}
      PROVE  RankedBefore(ranks, e[1], j)
  <2>1. PICK k \in 1..Cardinality(I) : e[k] = j
    BY <1>4
  <2>2. <<e[1], e[k]>> \in before
    BY <1>2, <1>3, <2>1
  <2> QED BY <2>1, <2>2
<1> QED BY <1>5, <1>6

----------------------------------------------------------------------------
(* Sums *)

\* A sum of integers is an integer, not negative and positive as its terms are.
LEMMA SumIs ==
    ASSUME NEW T, IsFiniteSet(T), NEW fun, \A x \in T : fun[x] \in Int
    PROVE  /\ SumFunctionOnSet(fun, T) \in Int
           /\ (\A x \in T : fun[x] >= 0) => SumFunctionOnSet(fun, T) >= 0
           /\ (\A x \in T : fun[x] > 0) /\ T # {} => SumFunctionOnSet(fun, T) > 0
<1> DEFINE next == [s \in (SUBSET T) \ {{}} |-> CHOOSE x \in s : TRUE]
           step == [p \in T \X Int |-> fun[p[1]] + p[2]]
           Iterates(g) == g = [s \in SUBSET T |->
                                 IF s = {} THEN 0
                                 ELSE fun[CHOOSE x \in s : TRUE] + g[s \ {CHOOSE x \in s : TRUE}]]
<1>1. next \in [(SUBSET T) \ {{}} -> T] /\ \A s \in (SUBSET T) \ {{}} : next[s] \in s
  OBVIOUS
<1>2. step \in [T \X Int -> Int]
  OBVIOUS
<1>3. PICK g \in [SUBSET T -> Int] : \A s \in SUBSET T :
          g[s] = IF s = {} THEN 0 ELSE step[<<next[s], g[s \ {next[s]}]>>]
  <2> HIDE DEF next, step
  <2>1. \A V, base : base \in V /\ step \in [T \X V -> V] => HasRecursion(T, V, base, next, step)
    BY <1>1, Recursion
  <2>2. HasRecursion(T, Int, 0, next, step)
    BY <1>2, <2>1
  <2> QED BY <2>2 DEF HasRecursion, IsRecursion
<1>4. \A s \in (SUBSET T) \ {{}} : g[s] = fun[next[s]] + g[s \ {next[s]}]
  BY <1>1, <1>3
<1>5. Iterates(g)
  <2>1. \A s \in (SUBSET T) \ {{}} : next[s] = CHOOSE x \in s : TRUE
    OBVIOUS
  <2> HIDE DEF next, step
  <2> QED BY <1>3, <1>4, <2>1
<1> DEFINE iter == CHOOSE f : Iterates(f)
<1>6. Iterates(iter)
  <2> HIDE DEF Iterates
  <2> QED BY <1>5
<1>7. SumFunctionOnSet(fun, T) = iter[T]
  BY DEF SumFunctionOnSet, FoldFunctionOnSet, MapThenFoldSet
<1>8. /\ iter[{}] = 0
      /\ \A s \in (SUBSET T) \ {{}} : \E x \in s : iter[s] = fun[x] + iter[s \ {x}]
  <2>1. iter[{}] = 0
    <3> HIDE DEF iter
    <3> QED BY <1>6
  <2>2. ASSUME NEW s \in (SUBSET T) \ {{}}
        PROVE  \E x \in s : iter[s] = fun[x] + iter[s \ {x}]
    <3> HIDE DEF iter
    <3>1. PICK x \in s : x = CHOOSE y \in s : TRUE
      OBVIOUS
    <3>2. iter[s] = fun[x] + iter[s \ {x}]
      BY <1>6, <3>1
    <3> QED BY <3>2
  <2> QED BY <2>1, <2>2
<1> DEFINE Summed(s) == /\ iter[s] \in Int
                        /\ (\A x \in T : fun[x] >= 0) => iter[s] >= 0
                        /\ (\A x \in T : fun[x] > 0) /\ s # {} => iter[s] > 0
           X == {n \in Nat : \A s \in SUBSET T : Cardinality(s) = n => Summed(s)}
<1> HIDE DEF iter
<1>9. 0 \in X
  <2>1. \A s \in SUBSET T : Cardinality(s) = 0 => s = {}
    BY FS_Subset, FS_EmptySet
  <2>2. Summed({})
    BY <1>8
  <2> HIDE DEF Summed
  <2> QED BY <2>1, <2>2
<1>10. ASSUME NEW n \in Nat, n \in X
       PROVE  n + 1 \in X
  <2> SUFFICES ASSUME NEW s \in SUBSET T, Cardinality(s) = n + 1
               PROVE  Summed(s)
    OBVIOUS
  <2>1. s # {} /\ IsFiniteSet(s)
    BY FS_Subset, FS_EmptySet
  <2>2. PICK x \in s : iter[s] = fun[x] + iter[s \ {x}]
    BY <1>8, <2>1
  <2>3. s \ {x} \in SUBSET T /\ Cardinality(s \ {x}) = n
    <3>1. Cardinality(s \ {x}) = Cardinality(s) - 1
      BY <2>1, <2>2, FS_RemoveElement
    <3> QED BY <3>1
  <2>4. Summed(s \ {x})
    BY <1>10, <2>3
  <2>5. fun[x] \in Int
    OBVIOUS
  <2>6. iter[s] \in Int
    BY <2>2, <2>4, <2>5
  <2>7. (\A y \in T : fun[y] >= 0) => iter[s] >= 0
    BY <2>2, <2>4, <2>5
  <2>8. (\A y \in T : fun[y] > 0) => iter[s] > 0
    BY <2>2, <2>4, <2>5
  <2> QED BY <2>6, <2>7, <2>8
<1>11. Summed(T)
  <2>1. Cardinality(T) \in X
    <3> HIDE DEF X
    <3> QED BY <1>9, <1>10, Induct, FS_CardinalityType
  <2> HIDE DEF Summed
  <2> QED BY <2>1
<1> QED BY <1>7, <1>11
==============================================================================
