--------------------------- MODULE Candidates_proofs ---------------------------
(***************************************************************************)
(* Candidates keeps its types, its clusters have each entry once, and a    *)
(* run holds what its client chose, for every set of entries and all they  *)
(* may say, and for every order in which they are logged, distilled,       *)
(* ranked and asked for.                                                   *)
(***************************************************************************)
EXTENDS Candidates, ImportanceScoring_proofs, Ordering_proofs

----------------------------------------------------------------------------
(* The scores are numbers, so that every two of them compare *)

LEMMA FiniteSums ==
    ASSUME NEW T, IsFiniteSet(T), NEW fun, \A x \in T : fun[x] \in Nat
    PROVE  SumFunctionOnSet(fun, T) \in Nat
<1>1. \A x \in T : fun[x] \in Int /\ fun[x] >= 0
  OBVIOUS
<1>2. SumFunctionOnSet(fun, T) \in Int /\ SumFunctionOnSet(fun, T) >= 0
  BY <1>1, SumIs
<1> QED BY <1>2

LEMMA ScoreIsNat == \A x \in Score : x \in Nat /\ x \in Int
BY DEF Score, Unit

LEMMA FourFinite == \A a, b, c, d : IsFiniteSet({a, b, c, d})
<1> TAKE a, b, c, d
<1>1. IsFiniteSet({a})
  BY FS_Singleton
<1>2. IsFiniteSet({a} \cup {b})
  BY <1>1, FS_AddElement
<1>3. IsFiniteSet(({a} \cup {b}) \cup {c})
  BY <1>2, FS_AddElement
<1>4. IsFiniteSet((({a} \cup {b}) \cup {c}) \cup {d})
  BY <1>3, FS_AddElement
<1>5. {a, b, c, d} = (({a} \cup {b}) \cup {c}) \cup {d}
  OBVIOUS
<1> QED BY <1>4, <1>5

LEMMA ClampInt ==
    ASSUME NEW x \in Int
    PROVE  Clamp(x) \in Score
BY DEF Clamp, Score, Unit

LEMMA ShareIs ==
    ASSUME NEW n \in Nat, NEW ceiling \in Nat \ {0}
    PROVE  Share(n, ceiling) \in Score
<1>1. n * Unit \in Nat
  BY DEF Unit
<1>2. (n * Unit) \div ceiling \in Nat
  BY <1>1
<1> QED BY <1>2, ClampInt DEF Share

LEMMA MeanIs ==
    ASSUME NEW signals \in Seq(Int), signals # <<>>
    PROVE  Mean(signals) \in Int
<1>1. IsFiniteSet(DOMAIN signals) /\ \A k \in DOMAIN signals : signals[k] \in Int
  BY FS_Interval
<1>2. SumFunction(signals) \in Int
  BY <1>1, SumIs DEF SumFunction
<1>3. Len(signals) \in Nat \ {0}
  OBVIOUS
<1> QED BY <1>2, <1>3 DEF Mean

LEMMA QualityIs ==
    ASSUME NEW signals \in Seq(Int), NEW n \in Nat
    PROVE  FastQualityScore(signals, n) \in Score
<1> DEFINE base == IF n > 1 THEN 3500 ELSE 0
<1>1. base \in Score
  BY DEF Score, Unit
<1>2. ASSUME signals # <<>>
      PROVE  Clamp(Greater(base, Mean(signals))) \in Score
  <2>1. Greater(base, Mean(signals)) \in Int
    BY <1>2, MeanIs DEF Greater
  <2> QED BY <2>1, ClampInt
<1> QED BY <1>1, <1>2 DEF FastQualityScore

LEMMA NoiseIs ==
    ASSUME NEW meta \in Meta, NEW signals \in Seq(Int)
    PROVE  FastNoisePenalty(meta, signals) \in Score
<1>1. meta.noise # None => meta.noise \in Int
  BY ScoreIsNat DEF Meta
<1>2. signals # <<>> => Mean(signals) \in Int
  BY MeanIs
<1>3. 0 \in Score
  BY DEF Score, Unit
<1> QED BY <1>1, <1>2, <1>3, ClampInt DEF FastNoisePenalty

LEMMA StaticIs ==
    ASSUME NEW meta \in Meta
    PROVE  FastStaticScore(meta) \in Score
<1> DEFINE given == {s \in DOMAIN Weight : meta[s] # None}
           terms == [s \in given |-> meta[s] * Weight[s]]
<1>1. /\ DOMAIN Weight = {"importance", "novelty", "confidence", "impact"}
      /\ \A s \in DOMAIN Weight : Weight[s] \in Nat /\ Weight[s] > 0
  BY DEF Weight
<1>2. IsFiniteSet(DOMAIN Weight)
  <2>1. IsFiniteSet({"importance", "novelty", "confidence", "impact"})
    BY FourFinite, Zenon
  <2> QED BY <1>1, <2>1
<1>3. IsFiniteSet(given)
  BY <1>2, FS_Subset
<1>4. \A s \in given : meta[s] \in Nat
  <2>1. \A s \in DOMAIN Weight : meta[s] \in Score \cup {None}
    BY <1>1 DEF Meta
  <2> QED BY <2>1, ScoreIsNat
<1>5. \A s \in given : terms[s] \in Int
  BY <1>1, <1>4
<1>6. SumFunction(terms) \in Int
  <2>1. DOMAIN terms = given
    OBVIOUS
  <2> HIDE DEF terms, given
  <2> QED BY <1>3, <1>5, <2>1, SumIs DEF SumFunction
<1>7. given # {} => SumFunctionOnSet(Weight, given) \in Int /\ SumFunctionOnSet(Weight, given) > 0
  <2>1. \A s \in given : Weight[s] \in Int /\ Weight[s] > 0
    BY <1>1
  <2> HIDE DEF given
  <2> QED BY <1>3, <2>1, SumIs
<1>8. given # {} => Clamp(SumFunction(terms) \div SumFunctionOnSet(Weight, given)) \in Score
  <2> HIDE DEF terms, given
  <2>1. ASSUME given # {}
        PROVE  SumFunction(terms) \div SumFunctionOnSet(Weight, given) \in Int
    BY <1>6, <1>7, <2>1
  <2> QED BY <2>1, ClampInt
<1>9. 3500 \in Score
  BY DEF Score, Unit
<1> QED BY <1>8, <1>9 DEF FastStaticScore

LEMMA SelectionIs ==
    ASSUME NEW static \in Score, NEW quality \in Score, NEW noise \in Score, NEW n \in Nat
    PROVE  SelectionScore(static, quality, noise, n) \in Score
<1>1. SelectionScore(static, quality, noise, n) \in static..Unit
  BY RecurrenceOnlyAdds
<1>2. static \in Nat /\ Unit \in Nat
  BY ScoreIsNat DEF Unit
<1> HIDE DEF Unit
<1>3. static..Unit \subseteq 0..Unit
  BY <1>2
<1> QED BY <1>1, <1>3 DEF Score

LEMMA RetryIs == \A event : Retry(event) \in Seq(Int)
BY DEF Retry

\* What is known of an entry.
LEMMA LoggedIs ==
    ASSUME NEW e \in Entries
    PROVE  /\ EntryOf[e] \in Logged
           /\ EntryOf[e].tokens \in Seq(STRING)
           /\ EntryOf[e].recurrence \in Nat
           /\ EntryOf[e].meta \in Meta
           /\ EntryOf[e].selection # None => EntryOf[e].selection \in Score
           /\ IsFiniteSet(EntryOf[e].entities) /\ IsFiniteSet(EntryOf[e].types)
<1>1. EntryOf[e] \in Logged
  BY CandidatesAssumption
<1> QED BY <1>1, CandidatesAssumption DEF Logged

LEMMA EntryScoreIs ==
    ASSUME NEW e \in Entries
    PROVE  EntryScore[e] \in Score
<1> DEFINE l == EntryOf[e]
           own == SelectionScore(FastStaticScore(l.meta), FastQualityScore(<<>>, l.recurrence),
                                 FastNoisePenalty(l.meta, Retry(l.event)), l.recurrence)
<1>1. own \in Score
  <2>1. FastStaticScore(l.meta) \in Score
    BY LoggedIs, StaticIs
  <2>2. FastQualityScore(<<>>, l.recurrence) \in Score
    <3>1. <<>> \in Seq(Int) /\ l.recurrence \in Nat
      BY LoggedIs
    <3> QED BY <3>1, QualityIs
  <2>3. FastNoisePenalty(l.meta, Retry(l.event)) \in Score
    BY LoggedIs, NoiseIs, RetryIs
  <2> QED BY <2>1, <2>2, <2>3, LoggedIs, SelectionIs
<1>2. EntryScore[e] = IF l.selection # None THEN l.selection ELSE own
  BY DEF EntryScore
<1> HIDE DEF own
<1> QED BY <1>1, <1>2, LoggedIs

LEMMA FirstIs ==
    ASSUME NEW S, NEW s \in Seq(S), NEW n \in Nat
    PROVE  /\ First(s, n) \in Seq(S)
           /\ Len(First(s, n)) = Smaller(n, Len(s)) /\ Len(First(s, n)) <= Len(s)
           /\ \A k \in 1..Len(First(s, n)) : First(s, n)[k] = s[k]
BY DEF First, Smaller

LEMMA SeqFinite ==
    ASSUME NEW S, NEW s \in Seq(S)
    PROVE  IsFiniteSet(ToSet(s)) /\ Cardinality(ToSet(s)) \in Nat
<1>1. IsFiniteSet(DOMAIN s)
  BY FS_Interval
<1> DEFINE f == [i \in DOMAIN s |-> s[i]]
<1>2. f \in Surjection(DOMAIN s, ToSet(s))
  BY DEF Surjection, ToSet
<1>3. IsFiniteSet(ToSet(s))
  BY <1>1, <1>2, FS_Surjection
<1> QED BY <1>3, FS_CardinalityType

LEMMA SetSimilarityIs ==
    ASSUME NEW A, NEW B, IsFiniteSet(A), IsFiniteSet(B)
    PROVE  SetSimilarity(A, B) \in Nat
<1>1. ASSUME A # {}, B # {}
      PROVE  Share(Cardinality(A \cap B), Cardinality(A \cup B)) \in Nat
  <2>1. IsFiniteSet(A \cap B) /\ IsFiniteSet(A \cup B)
    BY FS_Intersection, FS_Union
  <2>2. Cardinality(A \cap B) \in Nat /\ Cardinality(A \cup B) \in Nat
    BY <2>1, FS_CardinalityType
  <2>3. Cardinality(A \cup B) # 0
    BY <1>1, <2>1, FS_EmptySet
  <2>4. Share(Cardinality(A \cap B), Cardinality(A \cup B)) \in Score
    BY <2>2, <2>3, ShareIs
  <2> QED BY <2>4, ScoreIsNat
<1> QED BY <1>1 DEF SetSimilarity

LEMMA SimilarityIs ==
    ASSUME NEW e \in Entries, NEW f \in Entries
    PROVE  Similarity[<<e, f>>] \in Nat
<1>1. \A x \in Entries : IsFiniteSet(Tokens[x])
  <2> SUFFICES ASSUME NEW x \in Entries PROVE IsFiniteSet(Tokens[x])
    OBVIOUS
  <2>1. First(EntryOf[x].tokens, SetTokens) \in Seq(STRING)
    BY LoggedIs, FirstIs, CandidatesAssumption
  <2>2. Tokens[x] = ToSet(First(EntryOf[x].tokens, SetTokens))
    BY DEF Tokens
  <2> QED BY <2>1, <2>2, SeqFinite
<1>2. Similarity[<<e, f>>] = SetSimilarity(Tokens[e], Tokens[f])
  BY DEF Similarity
<1> QED BY <1>1, <1>2, SetSimilarityIs

LEMMA ScopeAlignmentIs ==
    ASSUME NEW e \in Entries, NEW f \in Entries
    PROVE  ScopeAlignment[<<e, f>>] \in Nat
<1> DEFINE alike == {field \in DOMAIN ScopeWeight : /\ EntryOf[e][field] = EntryOf[f][field]
                                                    /\ EntryOf[e][field] # None}
<1>1. /\ DOMAIN ScopeWeight = {"kind", "area", "component", "feature"}
      /\ \A x \in DOMAIN ScopeWeight : ScopeWeight[x] \in Nat
  BY DEF ScopeWeight
<1>2. IsFiniteSet(DOMAIN ScopeWeight)
  <2>1. IsFiniteSet({"kind", "area", "component", "feature"})
    BY FourFinite, Zenon
  <2> QED BY <1>1, <2>1
<1>3. IsFiniteSet(alike) /\ \A x \in alike : ScopeWeight[x] \in Nat
  BY <1>1, <1>2, FS_Subset
<1>4. SumFunctionOnSet(ScopeWeight, alike) \in Nat
  <2> HIDE DEF alike
  <2> QED BY <1>3, FiniteSums
<1>5. ScopeAlignment[<<e, f>>] = SumFunctionOnSet(ScopeWeight, alike)
                               + IF EntryOf[e].event = EntryOf[f].event THEN 1200 ELSE 0
  BY DEF ScopeAlignment
<1> HIDE DEF alike
<1> QED BY <1>4, <1>5

Keys == Seq(STRING \cup {None})

LEMMA KeyIs ==
    ASSUME NEW e \in Entries
    PROVE  Key[e] \in Keys
<1> DEFINE l == EntryOf[e]
           head == <<IF l.kind # None THEN l.kind ELSE l.event, l.area, l.component, l.feature>>
<1>1. head \in Keys
  <2>1. l \in Logged
    BY LoggedIs
  <2> QED BY <2>1 DEF Logged, Keys
<1>2. First(l.tokens, KeyTokens) \in Seq(STRING)
  BY LoggedIs, FirstIs, CandidatesAssumption
<1>3. First(l.tokens, KeyTokens) \in Keys
  BY <1>2 DEF Keys
<1>4. Key[e] = head \o First(l.tokens, KeyTokens)
  BY DEF Key
<1> HIDE DEF head
<1> QED BY <1>1, <1>3, <1>4 DEF Keys

----------------------------------------------------------------------------
(* Sequences *)

LEMMA Tuples ==
    /\ \A a, b \in Int : <<a, b>> \in [1..2 -> Int]
    /\ \A a, b, c \in Int : <<a, b, c>> \in [1..3 -> Int]
    /\ \A a, b, c, d \in Int : <<a, b, c, d>> \in [1..4 -> Int]
OBVIOUS

LEMMA ConcatIs ==
    ASSUME NEW S, NEW s \in Seq(S), NEW t \in Seq(S)
    PROVE  /\ s \o t \in Seq(S)
           /\ ToSet(s \o t) = ToSet(s) \cup ToSet(t)
           /\ IsInjective(s) /\ IsInjective(t) /\ ToSet(s) \cap ToSet(t) = {} => IsInjective(s \o t)
<1> DEFINE m == Len(s)
           n == Len(t)
<1>1. /\ m \in Nat /\ n \in Nat /\ DOMAIN s = 1..m /\ DOMAIN t = 1..n /\ DOMAIN (s \o t) = 1..(m + n)
      /\ s \o t \in Seq(S)
  OBVIOUS
<1>2. \A i \in 1..m : i \in 1..(m + n) /\ (s \o t)[i] = s[i]
  OBVIOUS
<1>3. \A i \in 1..n : m + i \in 1..(m + n) /\ (s \o t)[m + i] = t[i]
  OBVIOUS
<1>4. \A i \in 1..(m + n) : i \in 1..m \/ (i - m \in 1..n /\ i = m + (i - m))
  BY <1>1
<1> DEFINE u == s \o t
<1> HIDE DEF m, n, u
<1>5. ToSet(u) = ToSet(s) \cup ToSet(t)
  <2>1. ToSet(s) \subseteq ToSet(u)
    BY <1>1, <1>2 DEF ToSet, u
  <2>2. ToSet(t) \subseteq ToSet(u)
    BY <1>1, <1>3 DEF ToSet, u
  <2>3. ASSUME NEW i \in 1..(m + n)
        PROVE  u[i] \in ToSet(s) \cup ToSet(t)
    <3>1. CASE i \in 1..m
      BY <1>1, <1>2, <3>1 DEF ToSet, u
    <3>2. CASE i - m \in 1..n /\ i = m + (i - m)
      <4>1. u[i] = t[i - m]
        BY <1>3, <3>2 DEF u
      <4> QED BY <1>1, <3>2, <4>1 DEF ToSet
    <3> QED BY <1>4, <3>1, <3>2
  <2>4. ToSet(u) \subseteq ToSet(s) \cup ToSet(t)
    BY <1>1, <2>3 DEF ToSet, u
  <2> QED BY <2>1, <2>2, <2>4
<1>6. ASSUME IsInjective(s), IsInjective(t), ToSet(s) \cap ToSet(t) = {},
             NEW i \in 1..(m + n), NEW j \in 1..(m + n), u[i] = u[j]
      PROVE  i = j
  <2>1. CASE i \in 1..m /\ j \in 1..m
    BY <1>1, <1>2, <1>6, <2>1 DEF IsInjective, u
  <2>2. ASSUME NEW k \in 1..m, NEW l \in 1..(m + n), l - m \in 1..n, l = m + (l - m)
        PROVE  u[k] # u[l]
    <3>1. u[k] = s[k] /\ u[l] = t[l - m]
      BY <1>2, <1>3, <2>2 DEF u
    <3>2. s[k] \in ToSet(s) /\ t[l - m] \in ToSet(t)
      BY <1>1, <2>2 DEF ToSet
    <3> QED BY <1>6, <3>1, <3>2
  <2>3. CASE i - m \in 1..n /\ i = m + (i - m) /\ j - m \in 1..n /\ j = m + (j - m)
    <3>1. t[i - m] = t[j - m]
      BY <1>3, <1>6, <2>3 DEF u
    <3>2. i - m = j - m
      BY <1>1, <1>6, <2>3, <3>1 DEF IsInjective
    <3> QED BY <1>1, <2>3, <3>2
  <2> QED BY <1>4, <1>6, <2>1, <2>2, <2>3
<1> QED BY <1>1, <1>5, <1>6 DEF IsInjective, u

\* What is selected stands at the positions, once for each.
LEMMA SelectedHas ==
    ASSUME NEW S, NEW s \in Seq(S), NEW I \in SUBSET (1..Len(s))
    PROVE  /\ Selected(s, I) \in Seq(S)
           /\ ToSet(Selected(s, I)) = {s[i] : i \in I}
           /\ (\A i, j \in I : s[i] = s[j] => i = j) => IsInjective(Selected(s, I))
<1> DEFINE n == Cardinality(I)
           t == Selected(s, I)
<1>1. n \in Nat
  BY SelectedIs
<1>2. PICK e : Enumerates(e, I) /\ t = [k \in 1..n |-> s[e[k]]]
  <2>1. Selects(t, s, I)
    BY SelectedIs
  <2> QED BY <2>1 DEF Selects
<1>3. /\ e \in [1..n -> I]
      /\ \A k, l \in 1..n : e[k] = e[l] => k = l
      /\ \A i \in I : \E k \in 1..n : e[k] = i
  BY <1>2 DEF Enumerates
<1>4. \A i \in I : s[i] \in S
  OBVIOUS
<1> HIDE DEF n, t
<1>5. DOMAIN t = 1..n /\ \A k \in 1..n : e[k] \in I /\ t[k] = s[e[k]] /\ t[k] \in S
  BY <1>2, <1>3, <1>4
<1>6. t \in Seq(S)
  <2>1. t \in [1..n -> S]
    BY <1>2, <1>5
  <2> QED BY <1>1, <2>1
<1>7. ToSet(t) = {s[i] : i \in I}
  <2>1. \A k \in DOMAIN t : t[k] \in {s[i] : i \in I}
    BY <1>5
  <2>2. \A i \in I : \E k \in DOMAIN t : t[k] = s[i]
    BY <1>3, <1>5
  <2> QED BY <2>1, <2>2 DEF ToSet
<1>8. ASSUME \A i, j \in I : s[i] = s[j] => i = j, NEW k \in DOMAIN t, NEW l \in DOMAIN t, t[k] = t[l]
      PROVE  k = l
  <2>1. e[k] \in I /\ e[l] \in I /\ s[e[k]] = s[e[l]]
    BY <1>5, <1>8
  <2>2. e[k] = e[l]
    BY <1>8, <2>1
  <2> QED BY <1>3, <1>5, <2>2
<1> QED BY <1>6, <1>7, <1>8 DEF t, IsInjective

----------------------------------------------------------------------------
(* Clusters *)

ClusterType == [members : Seq(Entries), keys : Seq(Keys), rep : Entries]

\* A cluster of entries of the pool.
Loose(pool, c) ==
    /\ c \in ClusterType
    /\ c.members # <<>>
    /\ ToSet(c.members) \subseteq ToSet(pool)

\* ... with every entry of its keys, once.
Whole(pool, c) ==
    /\ Loose(pool, c)
    /\ IsInjective(c.members)
    /\ {Key[e] : e \in ToSet(c.members)} = ToSet(c.keys)
    /\ \A e \in ToSet(pool) : Key[e] \in ToSet(c.keys) => e \in ToSet(c.members)

\* The clusters are whole and divide the keys K among them.
Divide(pool, cs, K) ==
    /\ cs \in Seq(ClusterType)
    /\ \A i \in DOMAIN cs : Whole(pool, cs[i])
    /\ \A i, j \in DOMAIN cs : i # j => ToSet(cs[i].keys) \cap ToSet(cs[j].keys) = {}
    /\ UNION {ToSet(cs[i].keys) : i \in DOMAIN cs} = K

LEMMA RepresentativeIs ==
    ASSUME NEW pool \in Seq(Entries), NEW members \in Seq(Entries), members # <<>>,
           ToSet(members) \subseteq ToSet(pool)
    PROVE  Representative(pool, members) \in Entries
<1> DEFINE n == Len(members)
           rank(k) == <<EntryScore[members[k]], EntryOf[members[k]].recurrence,
                        -(CHOOSE i \in DOMAIN pool : pool[i] = members[k])>>
           ranks == [k \in DOMAIN members |-> rank(k)]
<1>1. DOMAIN members = 1..n /\ n \in Nat \ {0}
  OBVIOUS
<1>2. ASSUME NEW k \in 1..n
      PROVE  rank(k) \in [1..3 -> Int]
  <2>1. members[k] \in Entries /\ members[k] \in ToSet(members)
    BY DEF ToSet
  <2>2. EntryScore[members[k]] \in Int
    BY <2>1, EntryScoreIs, ScoreIsNat
  <2>3. EntryOf[members[k]].recurrence \in Int
    BY <2>1, LoggedIs
  <2>4. PICK i \in DOMAIN pool : i = CHOOSE j \in DOMAIN pool : pool[j] = members[k]
    <3>1. \E j \in DOMAIN pool : pool[j] = members[k]
      BY <2>1 DEF ToSet
    <3> QED BY <3>1
  <2>5. -i \in Int
    OBVIOUS
  <2> QED BY <2>2, <2>3, <2>4, <2>5, Tuples
<1>3. ranks \in [1..n -> [1..3 -> Int]]
  <2> HIDE DEF rank
  <2> QED BY <1>1, <1>2
<1>4. PICK e : e \in [1..n -> 1..n] /\ SortedBy(ranks, members) = [k \in 1..n |-> members[e[k]]]
  <2> HIDE DEF ranks
  <2>1. Permutes(SortedBy(ranks, members), members, ranks)
    BY <1>3, SortedIs
  <2> QED BY <2>1 DEF Permutes
<1>5. Representative(pool, members) = SortedBy(ranks, members)[1]
  BY DEF Representative
<1>6. SortedBy(ranks, members)[1] = members[e[1]] /\ e[1] \in 1..n
  <2> HIDE DEF ranks
  <2> QED BY <1>1, <1>4
<1> QED BY <1>1, <1>5, <1>6

LEMMA ClusterIs ==
    ASSUME NEW pool \in Seq(Entries), NEW members \in Seq(Entries), members # <<>>,
           ToSet(members) \subseteq ToSet(pool), NEW keys \in Seq(Keys)
    PROVE  /\ Loose(pool, Cluster(pool, members, keys))
           /\ Cluster(pool, members, keys).members = members
           /\ Cluster(pool, members, keys).keys = keys
BY RepresentativeIs DEF Cluster, Loose, ClusterType

LEMMA KeyedIs ==
    ASSUME NEW pool \in Seq(Entries), IsInjective(pool), NEW h \in DOMAIN pool
    PROVE  /\ Whole(pool, Keyed(pool, Key[pool[h]]))
           /\ ToSet(Keyed(pool, Key[pool[h]]).keys) = {Key[pool[h]]}
<1> DEFINE key == Key[pool[h]]
           I == {i \in DOMAIN pool : Key[pool[i]] = key}
           members == Selected(pool, I)
<1>1. key \in Keys
  BY KeyIs
<1>2. I \in SUBSET (1..Len(pool)) /\ \A i, j \in I : pool[i] = pool[j] => i = j
  BY DEF IsInjective
<1>3. h \in I
  OBVIOUS
<1>4. members \in Seq(Entries) /\ ToSet(members) = {pool[i] : i \in I} /\ IsInjective(members)
  <2> HIDE DEF I
  <2> QED BY <1>2, SelectedHas
<1>5. /\ ToSet(members) \subseteq ToSet(pool)
      /\ pool[h] \in ToSet(members)
      /\ \A x \in ToSet(members) : Key[x] = key
      /\ \A x \in ToSet(pool) : Key[x] = key => x \in ToSet(members)
  <2> HIDE DEF members
  <2> QED BY <1>3, <1>4 DEF ToSet
<1>6. <<key>> \in Seq(Keys) /\ ToSet(<<key>>) = {key}
  <2> HIDE DEF key
  <2> QED BY <1>1 DEF ToSet
<1> DEFINE c == Cluster(pool, members, <<key>>)
<1> HIDE DEF members, key, I
<1>7. members # <<>>
  BY <1>5 DEF ToSet
<1>8. Loose(pool, c) /\ c.members = members /\ c.keys = <<key>>
  <2>1. <<key>> \in Seq(Keys)
    BY <1>6
  <2>2. \A keys \in Seq(Keys) : /\ Loose(pool, Cluster(pool, members, keys))
                                /\ Cluster(pool, members, keys).members = members
                                /\ Cluster(pool, members, keys).keys = keys
    BY <1>4, <1>5, <1>7, ClusterIs
  <2> QED BY <2>1, <2>2
<1>9. {Key[x] : x \in ToSet(members)} = {key}
  BY <1>5
<1>10. Keyed(pool, key) = c
  BY DEF Keyed, members, key, I
<1> HIDE DEF c
<1>11. Whole(pool, c)
  BY <1>4, <1>5, <1>6, <1>8, <1>9 DEF Whole
<1> QED BY <1>6, <1>8, <1>10, <1>11 DEF key

\* Sorting whole clusters keeps them.
LEMMA SortedDivide ==
    ASSUME NEW pool, NEW K, NEW cs, Divide(pool, cs, K), NEW ranks, NEW t, Permutes(t, cs, ranks)
    PROVE  Divide(pool, t, K)
<1> DEFINE n == Len(cs)
<1>1. cs \in Seq(ClusterType) /\ n \in Nat /\ DOMAIN cs = 1..n
  BY DEF Divide
<1>2. PICK e \in [1..n -> 1..n] : Enumerates(e, 1..n) /\ t = [k \in 1..n |-> cs[e[k]]]
  BY DEF Permutes
<1>3. Cardinality(1..n) = n
  <2> HIDE DEF n
  <2> QED BY <1>1, FS_Interval
<1>4. /\ \A k, l \in 1..n : e[k] = e[l] => k = l
      /\ \A i \in 1..n : \E k \in 1..n : e[k] = i
  BY <1>2, <1>3 DEF Enumerates
<1> HIDE DEF n
<1>5. DOMAIN t = 1..n /\ \A k \in 1..n : e[k] \in 1..n /\ t[k] = cs[e[k]]
  BY <1>2
<1>6. t \in Seq(ClusterType)
  <2>1. \A k \in 1..n : t[k] \in ClusterType
    BY <1>1, <1>5
  <2>2. t \in [1..n -> ClusterType]
    BY <1>2, <1>5, <2>1
  <2> QED BY <1>1, <2>2
<1>7. \A k \in DOMAIN t : Whole(pool, t[k])
  BY <1>1, <1>5 DEF Divide
<1>8. ASSUME NEW k \in DOMAIN t, NEW l \in DOMAIN t, k # l
      PROVE  ToSet(t[k].keys) \cap ToSet(t[l].keys) = {}
  <2>1. e[k] # e[l] /\ e[k] \in DOMAIN cs /\ e[l] \in DOMAIN cs
    BY <1>1, <1>4, <1>5, <1>8
  <2> QED BY <1>5, <2>1 DEF Divide
<1>9. UNION {ToSet(t[k].keys) : k \in DOMAIN t} = K
  <2>1. \A k \in DOMAIN t : \E i \in DOMAIN cs : t[k] = cs[i]
    BY <1>1, <1>5
  <2>2. \A i \in DOMAIN cs : \E k \in DOMAIN t : t[k] = cs[i]
    BY <1>1, <1>4, <1>5
  <2>3. UNION {ToSet(cs[i].keys) : i \in DOMAIN cs} = K
    BY DEF Divide
  <2>4. \A x \in K : \E k \in DOMAIN t : x \in ToSet(t[k].keys)
    BY <2>2, <2>3
  <2>5. \A k \in DOMAIN t : ToSet(t[k].keys) \subseteq K
    BY <2>1, <2>3
  <2> QED BY <2>4, <2>5
<1> QED BY <1>6, <1>7, <1>8, <1>9 DEF Divide

\* The base clusters divide the keys of the pool.
LEMMA BaseIs ==
    ASSUME NEW pool \in Seq(Entries), IsInjective(pool)
    PROVE  Divide(pool, BaseClusters(pool), {Key[x] : x \in ToSet(pool)})
<1> DEFINE keys == [i \in DOMAIN pool |-> Key[pool[i]]]
           I == {i \in DOMAIN pool : \A j \in 1..(i - 1) : keys[j] # keys[i]}
           found == Selected(keys, I)
           base == [i \in DOMAIN found |-> Keyed(pool, found[i])]
           ranks == [i \in DOMAIN base |-> <<Len(base[i].members), EntryScore[base[i].rep],
                                             EntryOf[base[i].rep].recurrence>>]
           K == {Key[x] : x \in ToSet(pool)}
           n == Len(pool)
<1>1. DOMAIN pool = 1..n /\ n \in Nat /\ \A i \in 1..n : pool[i] \in Entries
  OBVIOUS
<1>2. \A i \in 1..n : keys[i] = Key[pool[i]] /\ keys[i] \in Keys
  BY <1>1, KeyIs
<1>3. keys \in Seq(Keys) /\ Len(keys) = n
  <2>1. keys \in [1..n -> Keys]
    BY <1>1, <1>2
  <2> HIDE DEF keys
  <2> QED BY <1>1, <2>1
<1>4. \A i \in 1..n : keys[i] \in K
  BY <1>1, <1>2 DEF ToSet
<1>5. \A x \in K : \E i \in 1..n : x = keys[i]
  BY <1>1, <1>2 DEF ToSet
<1> HIDE DEF keys, n
<1>6. I \in SUBSET (1..n) /\ I \in SUBSET (1..Len(keys))
  BY <1>1, <1>3
<1>7. ASSUME NEW h \in 1..n
      PROVE  \E i \in I : keys[i] = keys[h]
  <2> DEFINE X == {i \in 1..n : keys[i] = keys[h]}
  <2>1. X \in SUBSET Nat /\ h \in X
    BY <1>1
  <2>2. PICK i \in X : \A j \in X : i <= j
    <3> HIDE DEF X
    <3> QED BY <2>1, LeastNumber
  <2>3. i \in I
    <3>1. ASSUME NEW j \in 1..(i - 1), keys[j] = keys[i]
          PROVE  FALSE
      <4>1. j \in X /\ j < i
        BY <1>1, <2>2, <3>1
      <4> QED BY <1>1, <2>2, <4>1
    <3> QED BY <1>1, <2>2, <3>1
  <2> QED BY <2>2, <2>3
<1>8. ASSUME NEW i \in I, NEW j \in I, keys[i] = keys[j]
      PROVE  i = j
  <2>1. i \in Nat /\ j \in Nat /\ i >= 1 /\ j >= 1
    BY <1>1
  <2>2. ~ (i < j) /\ ~ (j < i)
    BY <1>8, <2>1
  <2> QED BY <2>1, <2>2
<1>9. found \in Seq(Keys) /\ ToSet(found) = {keys[i] : i \in I} /\ IsInjective(found)
  <2> HIDE DEF I
  <2> QED BY <1>3, <1>6, <1>8, SelectedHas
<1>10. ToSet(found) = K
  <2> HIDE DEF found, K
  <2> QED BY <1>4, <1>5, <1>6, <1>7, <1>9
<1> HIDE DEF I, found
<1>11. DOMAIN found = 1..Len(found) /\ Len(found) \in Nat
  BY <1>9
<1>12. ASSUME NEW i \in DOMAIN found
       PROVE  Whole(pool, base[i]) /\ ToSet(base[i].keys) = {found[i]}
  <2>1. found[i] \in K
    BY <1>10 DEF ToSet
  <2>2. PICK h \in DOMAIN pool : found[i] = Key[pool[h]]
    BY <2>1 DEF ToSet
  <2>3. base[i] = Keyed(pool, Key[pool[h]])
    BY <2>2
  <2> HIDE DEF base
  <2> QED BY <2>2, <2>3, KeyedIs
<1>13. DOMAIN base = 1..Len(found) /\ base \in Seq(ClusterType) /\ Len(base) = Len(found)
  <2>1. \A i \in DOMAIN found : base[i] \in ClusterType
    BY <1>12 DEF Whole, Loose
  <2>2. base \in [1..Len(found) -> ClusterType]
    BY <1>11, <2>1
  <2> HIDE DEF base
  <2> QED BY <1>11, <2>2
<1>14. Divide(pool, base, K)
  <2>1. \A i, j \in DOMAIN base : i # j => ToSet(base[i].keys) \cap ToSet(base[j].keys) = {}
    <3> SUFFICES ASSUME NEW i \in DOMAIN base, NEW j \in DOMAIN base, i # j
                 PROVE  ToSet(base[i].keys) \cap ToSet(base[j].keys) = {}
      OBVIOUS
    <3>1. found[i] # found[j]
      BY <1>9, <1>11, <1>13 DEF IsInjective
    <3>2. ToSet(base[i].keys) = {found[i]} /\ ToSet(base[j].keys) = {found[j]}
      BY <1>11, <1>12, <1>13
    <3> QED BY <3>1, <3>2
  <2>2. UNION {ToSet(base[i].keys) : i \in DOMAIN base} = ToSet(found)
    <3>1. \A i \in DOMAIN found : ToSet(base[i].keys) = {found[i]}
      BY <1>12
    <3>2. UNION {ToSet(base[i].keys) : i \in DOMAIN found} = {found[i] : i \in DOMAIN found}
      <4> HIDE DEF base
      <4>1. \A i \in DOMAIN found : \A x : x \in ToSet(base[i].keys) <=> x = found[i]
        BY <3>1
      <4> QED BY <4>1
    <3> QED BY <1>11, <1>13, <3>2 DEF ToSet
  <2> HIDE DEF base
  <2> QED BY <1>10, <1>11, <1>12, <1>13, <2>1, <2>2 DEF Divide
<1>15. ranks \in [1..Len(base) -> [1..3 -> Int]]
  <2>1. ASSUME NEW i \in DOMAIN base
        PROVE  ranks[i] \in [1..3 -> Int]
    <3>1. base[i] \in ClusterType
      BY <1>13
    <3> DEFINE c == base[i]
    <3> HIDE DEF base
    <3>2. c.members \in Seq(Entries) /\ c.rep \in Entries
      BY <3>1 DEF ClusterType
    <3>3. Len(c.members) \in Int /\ EntryScore[c.rep] \in Int /\ EntryOf[c.rep].recurrence \in Int
      BY <3>2, EntryScoreIs, ScoreIsNat, LoggedIs
    <3>4. ranks[i] = <<Len(c.members), EntryScore[c.rep], EntryOf[c.rep].recurrence>>
      OBVIOUS
    <3> QED BY <3>3, <3>4, Tuples
  <2>2. DOMAIN ranks = 1..Len(base) /\ DOMAIN base = 1..Len(base)
    BY <1>13
  <2> HIDE DEF base
  <2>3. ranks = [i \in 1..Len(base) |-> ranks[i]]
    BY <2>2
  <2> HIDE DEF ranks
  <2> QED BY <2>1, <2>2, <2>3
<1>16. Permutes(SortedBy(ranks, base), base, ranks)
  <2> HIDE DEF ranks, base
  <2> QED BY <1>13, <1>15, SortedIs
<1>17. BaseClusters(pool) = SortedBy(ranks, base)
  BY DEF BaseClusters, keys, I, found
<1> HIDE DEF ranks, base, K
<1>18. Divide(pool, BaseClusters(pool), K)
  BY <1>14, <1>16, <1>17, SortedDivide
<1> QED BY <1>18 DEF K

LEMMA MergeScoreIs ==
    ASSUME NEW c \in ClusterType, NEW d \in ClusterType
    PROVE  MergeScore(c, d) \in Int
<1>1. c.rep \in Entries /\ d.rep \in Entries
  BY DEF ClusterType
<1> DEFINE scope == ScopeAlignment[<<c.rep, d.rep>>]
           tokens == Similarity[<<c.rep, d.rep>>]
           types == SetSimilarity(EntryOf[c.rep].types, EntryOf[d.rep].types)
<1>2. scope \in Nat /\ tokens \in Nat
  BY <1>1, ScopeAlignmentIs, SimilarityIs
<1>3. types \in Nat
  BY <1>1, LoggedIs, SetSimilarityIs
<1>4. MergeScore(c, d) = IF tokens < 1200 /\ types = 0 /\ scope < 7500 THEN 0
                         ELSE (scope * 55 + tokens * 30 + types * 15) \div 100
  BY DEF MergeScore
<1> HIDE DEF scope, tokens, types
<1>5. (scope * 55 + tokens * 30 + types * 15) \div 100 \in Int
  BY <1>2, <1>3
<1> QED BY <1>4, <1>5

\* A cluster is appended or joins one of those before it.
LEMMA MergedIs ==
    ASSUME NEW pool, NEW m \in Seq(ClusterType), NEW c \in ClusterType
    PROVE  \/ Merged(pool, m, c) = Append(m, c)
           \/ \E b \in DOMAIN m : Merged(pool, m, c) = [m EXCEPT ![b] = Joined(pool, m[b], c)]
<1> DEFINE near == {i \in DOMAIN m : MergeScore(m[i], c) >= 5200}
           Best(i) == \A j \in near \ {i} :
                         LexGreater(<<MergeScore(m[i], c), -i>>, <<MergeScore(m[j], c), -j>>)
           best == CHOOSE i \in near : Best(i)
<1>1. near \subseteq DOMAIN m /\ DOMAIN m = 1..Len(m) /\ Len(m) \in Nat
  OBVIOUS
<1>2. ASSUME near # {}
      PROVE  \E i \in near : Best(i)
  <2> DEFINE ranks == [i \in near |-> <<MergeScore(m[i], c), -i>>]
  <2>1. \A i \in near : ranks[i] = <<MergeScore(m[i], c), -i>> /\ i \in Int /\ m[i] \in ClusterType
    BY <1>1
  <2>2. \A i \in near : MergeScore(m[i], c) \in Int /\ -i \in Int
    <3>1. \A i \in near : i \in Int /\ m[i] \in ClusterType
      BY <2>1
    <3> HIDE DEF near, ranks
    <3>2. \A i \in near : -i \in Int
      BY <3>1
    <3>3. \A i \in near : MergeScore(m[i], c) \in Int
      BY <3>1, MergeScoreIs
    <3> QED BY <3>2, <3>3
  <2> HIDE DEF near
  <2>3. ranks \in [near -> [1..2 -> Int]]
    <3>1. \A i \in near : <<MergeScore(m[i], c), -i>> \in [1..2 -> Int]
      BY <2>2, Tuples
    <3> QED BY <3>1
  <2>4. near \in SUBSET Int /\ IsFiniteSet(near)
    <3>1. IsFiniteSet(1..Len(m))
      BY <1>1, FS_Interval
    <3>2. near \in SUBSET (1..Len(m))
      BY <1>1
    <3> QED BY <1>1, <3>1, <3>2, FS_Subset
  <2> HIDE DEF ranks
  <2>5. PICK i \in near : \A j \in near \ {i} : RankedBefore(ranks, i, j)
    BY <1>2, <2>3, <2>4, BestRanked
  <2>6. ASSUME NEW j \in near \ {i}
        PROVE  LexGreater(<<MergeScore(m[i], c), -i>>, <<MergeScore(m[j], c), -j>>)
    <3>1. <<MergeScore(m[i], c), -i>> # <<MergeScore(m[j], c), -j>>
      BY <2>1
    <3>2. ranks[i] = <<MergeScore(m[i], c), -i>> /\ ranks[j] = <<MergeScore(m[j], c), -j>>
      BY <2>1
    <3>3. LexGreater(ranks[i], ranks[j])
      BY <2>5, <3>1, <3>2 DEF RankedBefore
    <3> QED BY <3>2, <3>3
  <2> QED BY <2>6
<1>3. near # {} => best \in near
  <2> HIDE DEF near, Best
  <2> QED BY <1>2
<1>4. Merged(pool, m, c) = IF near = {} THEN Append(m, c)
                           ELSE [m EXCEPT ![best] = Joined(pool, m[best], c)]
  BY DEF Merged
<1> HIDE DEF best, near
<1> QED BY <1>1, <1>3, <1>4

LEMMA JoinedIs ==
    ASSUME NEW pool \in Seq(Entries), NEW c, Loose(pool, c), NEW d, Loose(pool, d)
    PROVE  /\ Loose(pool, Joined(pool, c, d))
           /\ Joined(pool, c, d).members = c.members \o d.members
           /\ Joined(pool, c, d).keys = c.keys \o d.keys
<1>1. /\ c.members \in Seq(Entries) /\ d.members \in Seq(Entries)
      /\ c.keys \in Seq(Keys) /\ d.keys \in Seq(Keys)
      /\ c.members # <<>>
      /\ ToSet(c.members) \subseteq ToSet(pool) /\ ToSet(d.members) \subseteq ToSet(pool)
  BY DEF Loose, ClusterType
<1>2. c.members \o d.members \in Seq(Entries) /\ c.keys \o d.keys \in Seq(Keys)
  BY <1>1
<1>3. ToSet(c.members \o d.members) \subseteq ToSet(pool)
  BY <1>1, ConcatIs
<1>4. c.members \o d.members # <<>>
  <2>1. Len(c.members \o d.members) = Len(c.members) + Len(d.members)
    BY <1>1
  <2>2. Len(c.members) \in Nat \ {0} /\ Len(d.members) \in Nat
    BY <1>1
  <2> QED BY <1>2, <2>1, <2>2
<1> DEFINE members == c.members \o d.members
           keys == c.keys \o d.keys
<1> HIDE DEF members, keys
<1>5. members \in Seq(Entries) /\ members # <<>> /\ ToSet(members) \subseteq ToSet(pool) /\ keys \in Seq(Keys)
  BY <1>2, <1>3, <1>4 DEF members, keys
<1>6. /\ Loose(pool, Cluster(pool, members, keys))
      /\ Cluster(pool, members, keys).members = members
      /\ Cluster(pool, members, keys).keys = keys
  BY <1>5, ClusterIs
<1> QED BY <1>6 DEF Joined, members, keys

LEMMA JoinedWhole ==
    ASSUME NEW pool \in Seq(Entries), NEW c, Whole(pool, c), NEW d, Whole(pool, d),
           ToSet(c.keys) \cap ToSet(d.keys) = {}
    PROVE  /\ Whole(pool, Joined(pool, c, d))
           /\ ToSet(Joined(pool, c, d).keys) = ToSet(c.keys) \cup ToSet(d.keys)
<1> DEFINE j == Joined(pool, c, d)
<1>1. Loose(pool, c) /\ Loose(pool, d)
  BY DEF Whole
<1>2. Loose(pool, j) /\ j.members = c.members \o d.members /\ j.keys = c.keys \o d.keys
  <2>1. /\ Loose(pool, Joined(pool, c, d))
        /\ Joined(pool, c, d).members = c.members \o d.members
        /\ Joined(pool, c, d).keys = c.keys \o d.keys
    BY <1>1, JoinedIs, Zenon
  <2> QED BY <2>1
<1> HIDE DEF j
<1>3. /\ c.members \in Seq(Entries) /\ d.members \in Seq(Entries)
      /\ c.keys \in Seq(Keys) /\ d.keys \in Seq(Keys)
  BY <1>1 DEF Loose, ClusterType
<1>4. ToSet(c.members) \cap ToSet(d.members) = {}
  <2>1. ASSUME NEW x \in ToSet(c.members), x \in ToSet(d.members)
        PROVE  FALSE
    <3>1. Key[x] \in ToSet(c.keys) /\ Key[x] \in ToSet(d.keys)
      BY <2>1 DEF Whole
    <3> QED BY <3>1
  <2> QED BY <2>1
<1>5. ToSet(j.members) = ToSet(c.members) \cup ToSet(d.members) /\ IsInjective(j.members)
  BY <1>2, <1>3, <1>4, ConcatIs DEF Whole
<1>6. ToSet(j.keys) = ToSet(c.keys) \cup ToSet(d.keys)
  BY <1>2, <1>3, ConcatIs
<1>7. {Key[x] : x \in ToSet(j.members)} = ToSet(j.keys)
  <2>1. {Key[x] : x \in ToSet(c.members)} = ToSet(c.keys) /\ {Key[x] : x \in ToSet(d.members)} = ToSet(d.keys)
    BY DEF Whole
  <2> QED BY <1>5, <1>6, <2>1
<1>8. \A x \in ToSet(pool) : Key[x] \in ToSet(j.keys) => x \in ToSet(j.members)
  BY <1>5, <1>6 DEF Whole
<1>9. Whole(pool, j)
  BY <1>2, <1>5, <1>7, <1>8 DEF Whole
<1> QED BY <1>6, <1>9 DEF j

\* The clusters a merge can be given, whatever their keys.
LooseClusters(pool) == {m \in Seq(ClusterType) : \A i \in DOMAIN m : Loose(pool, m[i])}

LEMMA MergedLoose ==
    ASSUME NEW pool \in Seq(Entries), NEW m \in LooseClusters(pool), NEW c, Loose(pool, c)
    PROVE  Merged(pool, m, c) \in LooseClusters(pool)
<1>1. c \in ClusterType /\ m \in Seq(ClusterType) /\ \A i \in DOMAIN m : Loose(pool, m[i])
  BY DEF Loose, LooseClusters
<1>2. CASE Merged(pool, m, c) = Append(m, c)
  <2>1. Append(m, c) \in Seq(ClusterType)
    BY <1>1
  <2>2. \A i \in DOMAIN Append(m, c) : (i \in DOMAIN m /\ Append(m, c)[i] = m[i]) \/ Append(m, c)[i] = c
    BY <1>1
  <2>3. \A i \in DOMAIN Append(m, c) : Loose(pool, Append(m, c)[i])
    BY <1>1, <2>2
  <2> QED BY <1>2, <2>1, <2>3 DEF LooseClusters
<1>3. ASSUME NEW b \in DOMAIN m, Merged(pool, m, c) = [m EXCEPT ![b] = Joined(pool, m[b], c)]
      PROVE  Merged(pool, m, c) \in LooseClusters(pool)
  <2> DEFINE j == Joined(pool, m[b], c)
  <2>1. Loose(pool, j)
    BY <1>1, JoinedIs
  <2> HIDE DEF j
  <2>2. j \in ClusterType
    BY <2>1 DEF Loose
  <2> DEFINE t == [m EXCEPT ![b] = j]
  <2>3. t \in Seq(ClusterType) /\ DOMAIN t = DOMAIN m
    BY <1>1, <2>2
  <2>4. \A i \in DOMAIN t : t[i] = IF i = b THEN j ELSE m[i]
    OBVIOUS
  <2> HIDE DEF t
  <2>5. \A i \in DOMAIN t : Loose(pool, t[i])
    BY <1>1, <2>1, <2>3, <2>4
  <2>6. Merged(pool, m, c) = t
    BY <1>3 DEF t, j
  <2> QED BY <2>3, <2>5, <2>6 DEF LooseClusters
<1> QED BY <1>1, <1>2, <1>3, MergedIs

LEMMA MergedDivide ==
    ASSUME NEW pool \in Seq(Entries), NEW m, NEW K, Divide(pool, m, K),
           NEW c, Whole(pool, c), ToSet(c.keys) \cap K = {}
    PROVE  Divide(pool, Merged(pool, m, c), K \cup ToSet(c.keys))
<1>1. c \in ClusterType /\ m \in Seq(ClusterType) /\ \A i \in DOMAIN m : Whole(pool, m[i])
  BY DEF Whole, Loose, Divide
<1>2. /\ \A i, j \in DOMAIN m : i # j => ToSet(m[i].keys) \cap ToSet(m[j].keys) = {}
      /\ UNION {ToSet(m[i].keys) : i \in DOMAIN m} = K
      /\ DOMAIN m = 1..Len(m) /\ Len(m) \in Nat
  BY <1>1 DEF Divide
<1>3. \A i \in DOMAIN m : ToSet(m[i].keys) \subseteq K /\ ToSet(m[i].keys) \cap ToSet(c.keys) = {}
  BY <1>2
<1>4. CASE Merged(pool, m, c) = Append(m, c)
  <2> DEFINE t == Append(m, c)
             n == Len(m)
  <2>1. /\ t \in Seq(ClusterType) /\ DOMAIN t = 1..(n + 1) /\ n + 1 \in DOMAIN t
        /\ t[n + 1] = c /\ \A i \in DOMAIN m : i \in DOMAIN t /\ t[i] = m[i]
    BY <1>1
  <2>2. \A i \in DOMAIN t : i \in DOMAIN m \/ i = n + 1
    BY <1>2, <2>1
  <2> HIDE DEF t, n
  <2>3. \A i \in DOMAIN t : Whole(pool, t[i])
    BY <1>1, <2>1, <2>2
  <2>4. \A i, j \in DOMAIN t : i # j => ToSet(t[i].keys) \cap ToSet(t[j].keys) = {}
    BY <1>2, <1>3, <2>1, <2>2
  <2>5. UNION {ToSet(t[i].keys) : i \in DOMAIN t} = K \cup ToSet(c.keys)
    <3>1. \A i \in DOMAIN t : ToSet(t[i].keys) \subseteq K \cup ToSet(c.keys)
      BY <1>3, <2>1, <2>2
    <3>2. \A x \in K : \E i \in DOMAIN t : x \in ToSet(t[i].keys)
      BY <1>2, <2>1
    <3>3. \A x \in ToSet(c.keys) : \E i \in DOMAIN t : x \in ToSet(t[i].keys)
      BY <2>1
    <3> QED BY <3>1, <3>2, <3>3
  <2>6. Divide(pool, t, K \cup ToSet(c.keys))
    BY <2>1, <2>3, <2>4, <2>5 DEF Divide
  <2> QED BY <1>4, <2>6 DEF t
<1>5. ASSUME NEW b \in DOMAIN m, Merged(pool, m, c) = [m EXCEPT ![b] = Joined(pool, m[b], c)]
      PROVE  Divide(pool, Merged(pool, m, c), K \cup ToSet(c.keys))
  <2> DEFINE d == Joined(pool, m[b], c)
             t == [m EXCEPT ![b] = d]
  <2>1. Whole(pool, d) /\ ToSet(d.keys) = ToSet(m[b].keys) \cup ToSet(c.keys)
    <3> DEFINE a == m[b]
    <3>1. Whole(pool, a) /\ ToSet(a.keys) \cap ToSet(c.keys) = {}
      BY <1>1, <1>3
    <3> HIDE DEF a
    <3>2. /\ Whole(pool, Joined(pool, a, c))
          /\ ToSet(Joined(pool, a, c).keys) = ToSet(a.keys) \cup ToSet(c.keys)
      BY <3>1, JoinedWhole
    <3> QED BY <3>2 DEF a
  <2> HIDE DEF d
  <2>2. d \in ClusterType
    BY <2>1 DEF Whole, Loose
  <2>3. t \in Seq(ClusterType) /\ DOMAIN t = DOMAIN m
    BY <1>1, <2>2
  <2>4. \A i \in DOMAIN t : t[i] = IF i = b THEN d ELSE m[i]
    OBVIOUS
  <2>5. Merged(pool, m, c) = t
    BY <1>5 DEF d
  <2> HIDE DEF t
  <2>6. \A i \in DOMAIN t : Whole(pool, t[i])
    BY <1>1, <2>1, <2>3, <2>4
  <2>7. \A i, j \in DOMAIN t : i # j => ToSet(t[i].keys) \cap ToSet(t[j].keys) = {}
    BY <1>2, <1>3, <2>1, <2>3, <2>4
  <2>8. UNION {ToSet(t[i].keys) : i \in DOMAIN t} = K \cup ToSet(c.keys)
    <3>1. \A i \in DOMAIN t : ToSet(t[i].keys) \subseteq K \cup ToSet(c.keys)
      BY <1>3, <2>1, <2>3, <2>4
    <3>2. \A i \in DOMAIN m : ToSet(m[i].keys) \subseteq ToSet(t[i].keys)
      BY <2>1, <2>3, <2>4
    <3>3. \A x \in K : \E i \in DOMAIN t : x \in ToSet(t[i].keys)
      BY <1>2, <2>3, <3>2
    <3>4. \A x \in ToSet(c.keys) : x \in ToSet(t[b].keys) /\ b \in DOMAIN t
      BY <2>1, <2>3, <2>4
    <3> QED BY <3>1, <3>3, <3>4
  <2>9. Divide(pool, t, K \cup ToSet(c.keys))
    BY <2>3, <2>6, <2>7, <2>8 DEF Divide
  <2> QED BY <2>5, <2>9
<1> QED BY <1>1, <1>4, <1>5, MergedIs

\* Merging one cluster after the other, as the fold does.
LEMMA FoldOfMerges ==
    ASSUME NEW pool \in Seq(Entries), IsInjective(pool)
    PROVE  \E iter : /\ Clusters(pool) = iter[1..Len(BaseClusters(pool))]
                     /\ iter[{}] = <<>>
                     /\ \A s \in SUBSET (1..Len(BaseClusters(pool))), k \in 1..Len(BaseClusters(pool)) :
                           k \in s /\ (\A j \in s : k >= j)
                             => iter[s] = Merged(pool, iter[s \ {k}], BaseClusters(pool)[k])
<1> DEFINE cs == BaseClusters(pool)
           n == Len(cs)
           T == DOMAIN cs
           V == LooseClusters(pool)
           next == [s \in (SUBSET T) \ {{}} |-> Max(s)]
           step == [p \in T \X V |-> Merged(pool, p[2], cs[p[1]])]
           Iterates(g) == g = [s \in SUBSET T |->
                                 IF s = {} THEN <<>> ELSE Merged(pool, g[s \ {Max(s)}], cs[Max(s)])]
           iter == CHOOSE g : Iterates(g)
<1>1. cs \in Seq(ClusterType) /\ \A i \in T : Loose(pool, cs[i])
  BY BaseIs DEF Divide, Whole
<1> HIDE DEF cs
<1>2. T = 1..n /\ n \in Nat /\ T \subseteq Int /\ IsFiniteSet(T)
  BY <1>1, FS_Interval
<1>3. ASSUME NEW s \in (SUBSET T) \ {{}}
      PROVE  Max(s) \in s /\ \A j \in s : Max(s) >= j
  <2>1. s \in SUBSET Int /\ IsFiniteSet(s) /\ s # {}
    BY <1>2, FS_Subset
  <2>2. \E k \in s : \A j \in s : k >= j
    BY <2>1, GreatestNumber
  <2> QED BY <2>2 DEF Max
<1>4. next \in [(SUBSET T) \ {{}} -> T] /\ \A s \in (SUBSET T) \ {{}} : next[s] \in s
  <2> HIDE DEF T
  <2> QED BY <1>3
<1>5. step \in [T \X V -> V]
  <2>1. \A i \in T, m \in V : Merged(pool, m, cs[i]) \in V
    BY <1>1, MergedLoose
  <2> HIDE DEF T, V
  <2> QED BY <2>1
<1>6. <<>> \in V
  BY DEF LooseClusters
<1>7. PICK g \in [SUBSET T -> V] : \A s \in SUBSET T :
          g[s] = IF s = {} THEN <<>> ELSE step[<<next[s], g[s \ {next[s]}]>>]
  <2> HIDE DEF T, V, next, step
  <2>1. HasRecursion(T, V, <<>>, next, step)
    BY <1>2, <1>4, <1>5, <1>6, Recursion
  <2> QED BY <2>1 DEF HasRecursion, IsRecursion
<1>8. Iterates(g)
  <2>1. ASSUME NEW s \in (SUBSET T) \ {{}}
        PROVE  g[s] = Merged(pool, g[s \ {Max(s)}], cs[Max(s)])
    <3>1. next[s] = Max(s) /\ Max(s) \in T
      BY <1>3
    <3>2. g[s \ {Max(s)}] \in V
      OBVIOUS
    <3>3. g[s] = step[<<Max(s), g[s \ {Max(s)}]>>]
      BY <1>7, <3>1
    <3> HIDE DEF T, V
    <3> QED BY <3>1, <3>2, <3>3
  <2>2. g[{}] = <<>>
    BY <1>7
  <2> HIDE DEF next, step, T, V
  <2> QED BY <2>1, <2>2
<1>9. Iterates(iter)
  <2> HIDE DEF Iterates
  <2> QED BY <1>8
<1>10. Clusters(pool) = iter[T]
  BY DEF Clusters, FoldLeft, MapThenFoldSet, cs
<1> HIDE DEF iter
<1>11. iter[{}] = <<>>
  BY <1>9
<1>12. ASSUME NEW s \in SUBSET T, NEW k \in s, \A j \in s : k >= j
       PROVE  iter[s] = Merged(pool, iter[s \ {k}], cs[k])
  <2>1. s # {} /\ Max(s) \in s /\ \A j \in s : Max(s) >= j
    BY <1>3
  <2>2. k = Max(s)
    <3>1. k \in Int /\ Max(s) \in Int /\ k >= Max(s) /\ Max(s) >= k
      BY <1>2, <1>12, <2>1
    <3> QED BY <3>1
  <2>3. iter[s] = Merged(pool, iter[s \ {Max(s)}], cs[Max(s)])
    BY <1>9, <2>1
  <2> QED BY <2>2, <2>3
<1>13. \A s \in SUBSET (1..n), k \in 1..n :
          k \in s /\ (\A j \in s : k >= j) => iter[s] = Merged(pool, iter[s \ {k}], cs[k])
  <2> HIDE DEF n, T
  <2> QED BY <1>2, <1>12
<1>14. Clusters(pool) = iter[1..n]
  <2> HIDE DEF n, T
  <2> QED BY <1>2, <1>10
<1> QED BY <1>11, <1>13, <1>14, Zenon DEF cs

\* The clusters divide the keys of the pool.
LEMMA ClustersIs ==
    ASSUME NEW pool \in Seq(Entries), IsInjective(pool)
    PROVE  Divide(pool, Clusters(pool), {Key[x] : x \in ToSet(pool)})
<1> DEFINE cs == BaseClusters(pool)
           n == Len(cs)
           K == {Key[x] : x \in ToSet(pool)}
           Had(k) == UNION {ToSet(cs[i].keys) : i \in 1..k}
<1>1. Divide(pool, cs, K)
  BY BaseIs
<1>2. PICK iter : /\ Clusters(pool) = iter[1..n]
                  /\ iter[{}] = <<>>
                  /\ \A s \in SUBSET (1..n), k \in 1..n :
                        k \in s /\ (\A j \in s : k >= j) => iter[s] = Merged(pool, iter[s \ {k}], cs[k])
  BY FoldOfMerges
<1> HIDE DEF cs, K
<1>3. /\ n \in Nat /\ DOMAIN cs = 1..n
      /\ \A i \in 1..n : Whole(pool, cs[i])
      /\ \A i, j \in 1..n : i # j => ToSet(cs[i].keys) \cap ToSet(cs[j].keys) = {}
      /\ Had(n) = K
  <2>1. DOMAIN cs = 1..n /\ n \in Nat
    BY <1>1 DEF Divide
  <2> HIDE DEF n
  <2> QED BY <1>1, <2>1 DEF Divide
<1> DEFINE Good(k) == k <= n => Divide(pool, iter[1..k], Had(k))
           X == {k \in Nat : Good(k)}
<1>4. 0 \in X
  <2>1. 1..0 = {}
    OBVIOUS
  <2>2. Had(0) = {}
    BY <2>1
  <2>3. Divide(pool, <<>>, {})
    BY DEF Divide
  <2>4. Good(0)
    <3> HIDE DEF n, Had
    <3> QED BY <1>2, <2>1, <2>2, <2>3
  <2> HIDE DEF Good
  <2> QED BY <2>4
<1>5. ASSUME NEW k \in Nat, k \in X
      PROVE  k + 1 \in X
  <2>1. ASSUME k + 1 <= n
        PROVE  Divide(pool, iter[1..(k + 1)], Had(k + 1))
    <3>1. Divide(pool, iter[1..k], Had(k))
      <4> HIDE DEF n, Had
      <4> QED BY <1>3, <1>5, <2>1
    <3>2. /\ 1..(k + 1) \in SUBSET (1..n) /\ k + 1 \in 1..n /\ k + 1 \in 1..(k + 1)
          /\ \A j \in 1..(k + 1) : k + 1 >= j
          /\ (1..(k + 1)) \ {k + 1} = 1..k
      <4> HIDE DEF n
      <4> QED BY <1>3, <2>1
    <3>3. iter[1..(k + 1)] = Merged(pool, iter[1..k], cs[k + 1])
      <4>1. iter[1..(k + 1)] = Merged(pool, iter[(1..(k + 1)) \ {k + 1}], cs[k + 1])
        <5> HIDE DEF n
        <5> QED BY <1>2, <3>2
      <4> QED BY <3>2, <4>1
    <3>4. ToSet(cs[k + 1].keys) \cap Had(k) = {}
      <4>1. \A i \in 1..k : i \in 1..n /\ i # k + 1
        <5> HIDE DEF n
        <5> QED BY <1>3, <2>1
      <4>2. \A i \in 1..k : ToSet(cs[i].keys) \cap ToSet(cs[k + 1].keys) = {}
        <5> HIDE DEF n
        <5> QED BY <1>3, <3>2, <4>1
      <4> QED BY <4>2
    <3>5. Had(k + 1) = Had(k) \cup ToSet(cs[k + 1].keys)
      <4>1. 1..(k + 1) = (1..k) \cup {k + 1}
        OBVIOUS
      <4> QED BY <4>1
    <3>6. Whole(pool, cs[k + 1])
      <4> HIDE DEF n
      <4> QED BY <1>3, <3>2
    <3> HIDE DEF Had
    <3> QED BY <3>1, <3>3, <3>4, <3>5, <3>6, MergedDivide
  <2>2. Good(k + 1)
    BY <2>1
  <2> HIDE DEF Good
  <2> QED BY <2>2
<1>6. n \in X
  <2> HIDE DEF X, n
  <2> QED BY <1>3, <1>4, <1>5, Induct
<1>7. Divide(pool, iter[1..n], Had(n))
  <2> HIDE DEF n, Had
  <2> QED BY <1>3, <1>6
<1> QED BY <1>2, <1>3, <1>7 DEF K

----------------------------------------------------------------------------
(* Candidates *)

LEMMA ImageFinite ==
    ASSUME NEW S, IsFiniteSet(S), NEW f, DOMAIN f = S
    PROVE  IsFiniteSet({f[x] : x \in S}) /\ Cardinality({f[x] : x \in S}) \in Nat
<1> DEFINE T == {f[x] : x \in S}
           g == [x \in S |-> f[x]]
<1>1. g \in Surjection(S, T)
  BY DEF Surjection
<1>2. IsFiniteSet(T)
  <2> HIDE DEF T, g
  <2> QED BY <1>1, FS_Surjection
<1> HIDE DEF T
<1>3. Cardinality(T) \in Nat
  BY <1>2, FS_CardinalityType
<1> QED BY <1>2, <1>3 DEF T

LEMMA CountIs ==
    ASSUME NEW members \in Seq(Entries), NEW S
    PROVE  Count(members, S) \in Nat
<1> DEFINE I == {k \in DOMAIN members : members[k] \in S}
<1>1. IsFiniteSet(DOMAIN members)
  BY FS_Interval
<1>2. IsFiniteSet(I)
  BY <1>1, FS_Subset
<1>3. Cardinality(I) \in Nat
  <2> HIDE DEF I
  <2> QED BY <1>2, FS_CardinalityType
<1> QED BY <1>3 DEF Count

LEMMA RecurrencesIs ==
    ASSUME NEW members \in Seq(Entries)
    PROVE  Recurrences(members) \in Nat
<1> DEFINE f == [k \in DOMAIN members |-> Greater(1, EntryOf[members[k]].recurrence)]
<1>1. IsFiniteSet(DOMAIN members)
  BY FS_Interval
<1>2. \A k \in DOMAIN members : f[k] \in Nat
  <2> SUFFICES ASSUME NEW k \in DOMAIN members PROVE f[k] \in Nat
    OBVIOUS
  <2>1. EntryOf[members[k]].recurrence \in Nat
    BY LoggedIs
  <2> QED BY <2>1 DEF Greater
<1>3. Recurrences(members) = SumFunctionOnSet(f, DOMAIN members)
  BY DEF Recurrences, SumFunction
<1> HIDE DEF f
<1> QED BY <1>1, <1>2, <1>3, FiniteSums

LEMMA SessionsIs ==
    ASSUME NEW members \in Seq(Entries)
    PROVE  Cardinality(Sessions(members)) \in Nat
<1> DEFINE S == ToSet(members)
           f == [e \in S |-> EntryOf[e].session]
<1>1. IsFiniteSet(S)
  BY SeqFinite
<1>2. IsFiniteSet({f[e] : e \in S})
  <2>1. DOMAIN f = S
    OBVIOUS
  <2> HIDE DEF f, S
  <2> QED BY <1>1, <2>1, ImageFinite
<1>3. Sessions(members) \in SUBSET {f[e] : e \in S}
  BY DEF Sessions
<1> HIDE DEF f, S
<1> QED BY <1>2, <1>3, FS_Subset, FS_CardinalityType

LEMMA DensestIs ==
    ASSUME NEW members \in Seq(Entries), members # <<>>
    PROVE  Densest(members) \in Nat
<1> DEFINE S == ToSet(members)
           f == [m \in S |-> Count(members, {e \in Entries : EntryOf[e].session = EntryOf[m].session})]
           T == {f[m] : m \in S}
<1>1. IsFiniteSet(S)
  BY SeqFinite
<1>2. \A m \in S : f[m] \in Nat
  BY CountIs
<1>3. S # {}
  <2>1. 1 \in DOMAIN members
    OBVIOUS
  <2> QED BY <2>1 DEF ToSet
<1>4. IsFiniteSet(T)
  <2>1. DOMAIN f = S
    OBVIOUS
  <2> HIDE DEF f, S
  <2> QED BY <1>1, <2>1, ImageFinite
<1>5. T \subseteq Nat /\ T # {}
  <2> HIDE DEF f, S
  <2> QED BY <1>2, <1>3
<1>6. Densest(members) = Max(T)
  BY DEF Densest
<1> HIDE DEF T
<1>7. \E n \in T : \A m \in T : n >= m
  BY <1>4, <1>5, GreatestNumber
<1>8. Max(T) \in T
  BY <1>7 DEF Max
<1> QED BY <1>5, <1>6, <1>8

LEMMA CandidateScoreIs ==
    ASSUME NEW c \in ClusterType, c.members # <<>>
    PROVE  CandidateScore(c) \in Int
<1> DEFINE rep == c.rep
           members == c.members
           n == Len(members)
           days == Cardinality({EntryOf[e].day : e \in ToSet(members)})
           entities == Cardinality(UNION {EntryOf[e].entities : e \in ToSet(members)})
           texts == Cardinality({EntryOf[e].text : e \in ToSet(members)})
           scope == Mean([k \in 1..n |-> ScopeAlignment[<<rep, members[k]>>]])
           cohesion == Mean([k \in 1..n |-> (60 * ScopeAlignment[<<rep, members[k]>>]
                                               + 40 * Similarity[<<rep, members[k]>>]) \div 100])
           outcomes == Count(members, {e \in Entries : EntryOf[e].outcome})
           retries == Count(members, {e \in Entries : EntryOf[e].event = "retry"})
           sessions == Cardinality(Sessions(members))
           quality == <<Share(sessions, 4), Share(days, 3), Share(outcomes, 3), Share(entities, 5),
                        Share(days, 3), Share(entities, 4), cohesion, scope>>
           density == Densest(members)
           noise == Retry(EntryOf[rep].event)
                      \o <<Unit - Share(texts, n), Share(density, n), Share(retries, n),
                           Unit - cohesion, Unit - scope>>
<1>1. rep \in Entries /\ members \in Seq(Entries) /\ members # <<>>
  BY DEF ClusterType
<1> HIDE DEF rep, members
<1>2. n \in Nat \ {0} /\ \A k \in 1..n : members[k] \in Entries
  BY <1>1
<1>3. IsFiniteSet(ToSet(members)) /\ ToSet(members) \subseteq Entries
  BY <1>1, SeqFinite DEF ToSet
<1>4. days \in Nat
  <2> DEFINE f == [e \in ToSet(members) |-> EntryOf[e].day]
             T == {EntryOf[e].day : e \in ToSet(members)}
  <2>1. T = {f[e] : e \in ToSet(members)} /\ DOMAIN f = ToSet(members)
    OBVIOUS
  <2> HIDE DEF f
  <2>2. IsFiniteSet(T)
    <3> HIDE DEF T
    <3> QED BY <1>3, <2>1, ImageFinite
  <2> QED BY <2>2, FS_CardinalityType
<1>5. texts \in Nat
  <2> DEFINE f == [e \in ToSet(members) |-> EntryOf[e].text]
             T == {EntryOf[e].text : e \in ToSet(members)}
  <2>1. T = {f[e] : e \in ToSet(members)} /\ DOMAIN f = ToSet(members)
    OBVIOUS
  <2> HIDE DEF f
  <2>2. IsFiniteSet(T)
    <3> HIDE DEF T
    <3> QED BY <1>3, <2>1, ImageFinite
  <2> QED BY <2>2, FS_CardinalityType
<1>6. entities \in Nat
  <2> DEFINE f == [e \in ToSet(members) |-> EntryOf[e].entities]
             T == {EntryOf[e].entities : e \in ToSet(members)}
  <2>1. T = {f[e] : e \in ToSet(members)} /\ DOMAIN f = ToSet(members)
    OBVIOUS
  <2>2. \A x \in T : IsFiniteSet(x)
    BY <1>3, LoggedIs
  <2> HIDE DEF f
  <2>3. IsFiniteSet(T)
    <3> HIDE DEF T
    <3> QED BY <1>3, <2>1, ImageFinite
  <2>4. IsFiniteSet(UNION T)
    <3> HIDE DEF T
    <3> QED BY <2>2, <2>3, FS_UNION
  <2> QED BY <2>4, FS_CardinalityType
<1>7. scope \in Int
  <2> DEFINE f == [k \in 1..n |-> ScopeAlignment[<<rep, members[k]>>]]
  <2>1. \A k \in 1..n : ScopeAlignment[<<rep, members[k]>>] \in Int
    BY <1>1, <1>2, ScopeAlignmentIs
  <2>2. f \in Seq(Int) /\ f # <<>>
    <3>1. f \in [1..n -> Int]
      BY <2>1
    <3> HIDE DEF f, n
    <3> QED BY <1>2, <3>1
  <2> HIDE DEF f
  <2>3. Mean(f) \in Int
    BY <2>2, MeanIs
  <2> QED BY <2>3 DEF f
<1>8. cohesion \in Int
  <2> DEFINE g(k) == (60 * ScopeAlignment[<<rep, members[k]>>]
                        + 40 * Similarity[<<rep, members[k]>>]) \div 100
             f == [k \in 1..n |-> g(k)]
  <2>1. ASSUME NEW k \in 1..n
        PROVE  g(k) \in Int
    <3>1. PICK a \in Nat : a = ScopeAlignment[<<rep, members[k]>>]
      BY <1>1, <1>2, ScopeAlignmentIs
    <3>2. PICK b \in Nat : b = Similarity[<<rep, members[k]>>]
      BY <1>1, <1>2, SimilarityIs
    <3>3. (60 * a + 40 * b) \div 100 \in Int
      OBVIOUS
    <3> QED BY <3>1, <3>2, <3>3
  <2>2. f \in Seq(Int) /\ f # <<>>
    <3> HIDE DEF g
    <3>1. f \in [1..n -> Int]
      BY <2>1
    <3> HIDE DEF f, n
    <3> QED BY <1>2, <3>1
  <2> HIDE DEF f
  <2>3. Mean(f) \in Int
    BY <2>2, MeanIs
  <2> QED BY <2>3 DEF f
<1>9. outcomes \in Nat /\ retries \in Nat /\ sessions \in Nat /\ density \in Nat
  BY <1>1, CountIs, SessionsIs, DensestIs
<1> HIDE DEF n, days, entities, texts, scope, cohesion, outcomes, retries, sessions, density
<1>10. quality \in Seq(Int)
  <2>1. \A x \in Nat, y \in Nat \ {0} : Share(x, y) \in Int
    BY ShareIs, ScoreIsNat
  <2>2. /\ Share(sessions, 4) \in Int /\ Share(days, 3) \in Int /\ Share(outcomes, 3) \in Int
        /\ Share(entities, 5) \in Int /\ Share(entities, 4) \in Int
    BY <1>4, <1>6, <1>9, <2>1
  <2> QED BY <1>7, <1>8, <2>2
<1>11. noise \in Seq(Int)
  <2>1. Share(texts, n) \in Int /\ Share(density, n) \in Int /\ Share(retries, n) \in Int
    BY <1>2, <1>5, <1>9, ShareIs, ScoreIsNat
  <2>2. Unit \in Int
    BY DEF Unit
  <2> HIDE DEF Unit
  <2>3. <<Unit - Share(texts, n), Share(density, n), Share(retries, n), Unit - cohesion, Unit - scope>> \in Seq(Int)
    BY <1>7, <1>8, <2>1, <2>2
  <2> QED BY <2>3, RetryIs
<1>12. CandidateScore(c) = SelectionScore(FastStaticScore(EntryOf[rep].meta),
                             FastQualityScore(quality, Recurrences(members)),
                             FastNoisePenalty(EntryOf[rep].meta, noise), Recurrences(members))
  BY DEF CandidateScore, rep, members, n, days, entities, texts, scope, cohesion, outcomes, retries,
         sessions, density
<1> HIDE DEF quality, noise
<1>13. Recurrences(members) \in Nat /\ EntryOf[rep].meta \in Meta
  BY <1>1, RecurrencesIs, LoggedIs
<1>14. /\ FastStaticScore(EntryOf[rep].meta) \in Score
       /\ FastQualityScore(quality, Recurrences(members)) \in Score
       /\ FastNoisePenalty(EntryOf[rep].meta, noise) \in Score
  BY <1>10, <1>11, <1>13, StaticIs, QualityIs, NoiseIs
<1>15. CandidateScore(c) \in Score
  BY <1>12, <1>13, <1>14, SelectionIs
<1> QED BY <1>15, ScoreIsNat

\* The ranking is a partition of its pool into candidates.
LEMMA RankingIs ==
    ASSUME NEW pool \in Seq(Entries), IsInjective(pool)
    PROVE  /\ Ranking(pool) \in Seq(Candidate)
           /\ \A c \in ToSet(Ranking(pool)) : OwnKeys(c)
           /\ Partition(Ranking(pool), pool)
<1> DEFINE clusters == Clusters(pool)
           n == Len(clusters)
           Worth(c) == <<CandidateScore(c), Recurrences(c.members), Len(c.members),
                         Cardinality(Sessions(c.members))>>
           worth == [i \in DOMAIN clusters |-> Worth(clusters[i])]
           best == SortedBy(worth, clusters)
           K == {Key[x] : x \in ToSet(pool)}
           cs == [i \in DOMAIN best |-> [id |-> best[i].keys, members |-> best[i].members]]
<1>1. Divide(pool, clusters, K)
  BY ClustersIs
<1>2. Ranking(pool) = cs
  BY DEF Ranking, Named, BestFirst
<1> HIDE DEF clusters, K
<1>3. /\ clusters \in Seq(ClusterType) /\ n \in Nat /\ DOMAIN clusters = 1..n
      /\ \A i \in 1..n : Whole(pool, clusters[i])
  <2>1. DOMAIN clusters = 1..n /\ n \in Nat
    BY <1>1 DEF Divide
  <2> HIDE DEF n
  <2> QED BY <1>1, <2>1 DEF Divide
<1>4. ASSUME NEW c, Whole(pool, c)
      PROVE  Worth(c) \in [1..4 -> Int]
  <2>1. c \in ClusterType /\ c.members \in Seq(Entries) /\ c.members # <<>>
    BY <1>4 DEF Whole, Loose, ClusterType
  <2>2. /\ CandidateScore(c) \in Int /\ Recurrences(c.members) \in Int
        /\ Len(c.members) \in Int /\ Cardinality(Sessions(c.members)) \in Int
    BY <2>1, CandidateScoreIs, RecurrencesIs, SessionsIs
  <2> QED BY <2>2, Tuples
<1>5. worth \in [1..n -> [1..4 -> Int]]
  <2> HIDE DEF Worth, n
  <2> QED BY <1>3, <1>4
<1>6. Divide(pool, best, K)
  <2>1. Permutes(best, clusters, worth)
    <3> HIDE DEF worth
    <3> QED BY <1>3, <1>5, SortedIs
  <2> HIDE DEF best, worth
  <2> QED BY <1>1, <2>1, SortedDivide
<1> HIDE DEF best
<1>7. /\ best \in Seq(ClusterType)
      /\ \A i \in DOMAIN best : Whole(pool, best[i])
      /\ \A i, j \in DOMAIN best : i # j => ToSet(best[i].keys) \cap ToSet(best[j].keys) = {}
      /\ \A x \in K : \E i \in DOMAIN best : x \in ToSet(best[i].keys)
  BY <1>6 DEF Divide
<1>8. \A i \in DOMAIN best :
         /\ best[i].keys \in Seq(Keys) /\ best[i].members \in Seq(Entries) /\ best[i].members # <<>>
         /\ ToSet(best[i].members) \subseteq ToSet(pool)
         /\ IsInjective(best[i].members)
         /\ {Key[x] : x \in ToSet(best[i].members)} = ToSet(best[i].keys)
         /\ \A x \in ToSet(pool) : Key[x] \in ToSet(best[i].keys) => x \in ToSet(best[i].members)
  <2> SUFFICES ASSUME NEW i \in DOMAIN best
               PROVE  /\ best[i].keys \in Seq(Keys) /\ best[i].members \in Seq(Entries)
                      /\ best[i].members # <<>>
                      /\ ToSet(best[i].members) \subseteq ToSet(pool)
                      /\ IsInjective(best[i].members)
                      /\ {Key[x] : x \in ToSet(best[i].members)} = ToSet(best[i].keys)
                      /\ \A x \in ToSet(pool) : Key[x] \in ToSet(best[i].keys)
                                                  => x \in ToSet(best[i].members)
    OBVIOUS
  <2> DEFINE c == best[i]
  <2>1. Whole(pool, c)
    BY <1>7
  <2> HIDE DEF c
  <2>2. c.keys \in Seq(Keys) /\ c.members \in Seq(Entries)
    BY <2>1 DEF Whole, Loose, ClusterType
  <2> QED BY <2>1, <2>2 DEF Whole, Loose, c
<1>9. DOMAIN best = 1..Len(best) /\ Len(best) \in Nat
  BY <1>7
<1>10. DOMAIN cs = DOMAIN best /\ \A i \in DOMAIN best : cs[i].id = best[i].keys /\ cs[i].members = best[i].members
  OBVIOUS
<1>11. cs \in Seq(Candidate)
  <2>1. \A i \in DOMAIN best : cs[i] \in Candidate
    BY <1>8 DEF Candidate, Keys
  <2>2. cs \in [1..Len(best) -> Candidate]
    BY <1>9, <2>1
  <2> HIDE DEF cs
  <2> QED BY <1>9, <2>2
<1> HIDE DEF cs
<1>12. \A c \in ToSet(cs) : \E i \in DOMAIN best : c = cs[i] /\ c.id = best[i].keys /\ c.members = best[i].members
  BY <1>10 DEF ToSet
<1>13. ASSUME NEW c \in ToSet(cs)
       PROVE  OwnKeys(c)
  <2>1. PICK i \in DOMAIN best : c.id = best[i].keys /\ c.members = best[i].members
    BY <1>12
  <2> QED BY <1>8, <2>1 DEF OwnKeys
<1>14. UNION {ToSet(c.members) : c \in ToSet(cs)} = ToSet(pool)
  <2>1. \A c \in ToSet(cs) : ToSet(c.members) \subseteq ToSet(pool)
    BY <1>8, <1>12
  <2>2. ASSUME NEW x \in ToSet(pool)
        PROVE  \E c \in ToSet(cs) : x \in ToSet(c.members)
    <3>1. PICK i \in DOMAIN best : Key[x] \in ToSet(best[i].keys)
      BY <1>7 DEF K
    <3>2. x \in ToSet(cs[i].members)
      BY <1>8, <1>10, <3>1
    <3>3. cs[i] \in ToSet(cs)
      BY <1>10 DEF ToSet
    <3> QED BY <3>2, <3>3
  <2> QED BY <2>1, <2>2
<1>15. ASSUME NEW i \in DOMAIN cs, NEW j \in DOMAIN cs,
              NEW k \in DOMAIN cs[i].members, NEW l \in DOMAIN cs[j].members,
              cs[i].members[k] = cs[j].members[l]
       PROVE  i = j /\ k = l
  <2> DEFINE x == cs[i].members[k]
  <2>1. x \in ToSet(best[i].members) /\ x \in ToSet(best[j].members)
    BY <1>10, <1>15 DEF ToSet
  <2>2. Key[x] \in ToSet(best[i].keys) /\ Key[x] \in ToSet(best[j].keys)
    BY <1>8, <1>10, <2>1
  <2>3. i = j
    BY <1>7, <1>10, <2>2
  <2>4. IsInjective(cs[i].members)
    BY <1>8, <1>10
  <2> QED BY <1>15, <2>3, <2>4 DEF IsInjective
<1>16. ASSUME NEW c \in ToSet(cs), NEW x \in ToSet(pool)
       PROVE  x \in ToSet(c.members) <=> Key[x] \in ToSet(c.id)
  <2>1. PICK i \in DOMAIN best : c.id = best[i].keys /\ c.members = best[i].members
    BY <1>12
  <2> QED BY <1>8, <2>1
<1>17. Partition(cs, pool)
  BY <1>14, <1>15, <1>16 DEF Partition
<1> QED BY <1>2, <1>11, <1>13, <1>17

LEMMA PoolIs ==
    ASSUME table \in Seq(Entries), IsInjective(table), NEW limit \in Nat
    PROVE  Pool(limit) \in Seq(Entries) /\ IsInjective(Pool(limit))
<1> DEFINE I == {i \in DOMAIN table : table[i] \notin settled}
           pending == Selected(table, I)
           n == Greater(PoolMin, Smaller(limit * PoolFactor, PoolMax))
<1>1. I \in SUBSET (1..Len(table)) /\ \A i, j \in I : table[i] = table[j] => i = j
  BY DEF IsInjective
<1>2. pending \in Seq(Entries) /\ IsInjective(pending)
  <2> HIDE DEF I
  <2> QED BY <1>1, SelectedHas
<1>3. n \in Nat
  <2>1. PoolMin \in Nat /\ PoolFactor \in Nat /\ PoolMax \in Nat
    BY CandidatesAssumption
  <2>2. limit * PoolFactor \in Nat
    BY <2>1
  <2> QED BY <2>1, <2>2 DEF Greater, Smaller
<1>4. Pool(limit) = First(pending, n)
  BY DEF Pool
<1> HIDE DEF pending, n
<1>5. /\ First(pending, n) \in Seq(Entries) /\ Len(First(pending, n)) <= Len(pending)
      /\ \A k \in 1..Len(First(pending, n)) : First(pending, n)[k] = pending[k]
  BY <1>2, <1>3, FirstIs
<1> DEFINE t == First(pending, n)
<1> HIDE DEF t
<1>6. /\ t \in Seq(Entries) /\ Len(t) <= Len(pending) /\ \A k \in 1..Len(t) : t[k] = pending[k]
  BY <1>5 DEF t
<1>7. ASSUME NEW k \in DOMAIN t, NEW l \in DOMAIN t, t[k] = t[l]
      PROVE  k = l
  <2>1. k \in DOMAIN pending /\ l \in DOMAIN pending /\ pending[k] = pending[l]
    BY <1>2, <1>6, <1>7
  <2> QED BY <1>2, <2>1 DEF IsInjective
<1> QED BY <1>4, <1>6, <1>7 DEF IsInjective, t

----------------------------------------------------------------------------
(* The steps *)

RankedOp == [pc : {"ranked"}, request : Request, pool : Seq(Entries), candidates : Seq(Candidate)]

InsertOp == [pc : {"insert"}, run : Run]

LEMMA OpByPc ==
    ASSUME TypeOK
    PROVE  /\ op.pc = "ranked" => op \in RankedOp
           /\ op.pc = "insert" => op \in InsertOp
BY DEF TypeOK, Idle, RankedOp, InsertOp

LEMMA InitIInv == Init => IInv
<1> SUFFICES ASSUME Init PROVE IInv
  OBVIOUS
<1>1. table = <<>> /\ settled = {} /\ picked = None /\ op = Idle /\ runs = <<>> /\ audited = {}
  BY DEF Init
<1>2. op.pc = "idle"
  BY <1>1 DEF Idle
<1>3. TypeOK
  BY <1>1, CandidatesAssumption DEF TypeOK
<1>4. IsInjective(table)
  BY <1>1 DEF IsInjective
<1>5. PreparedAsChosen
  BY <1>1 DEF PreparedAsChosen, ToSet
<1> QED BY <1>1, <1>2, <1>3, <1>4, <1>5 DEF IInv, IdsAreKeys, RunsCounted, EachEntryOnce

\* A step that leaves the candidates and the runs alone.
LEMMA Untouched ==
    ASSUME IInv, TypeOK', IsInjective(table)', UNCHANGED <<picked, op, runs>>
    PROVE  IInv'
BY DEF IInv, IdsAreKeys, RunsCounted, EachEntryOnce, PreparedAsChosen

LEMMA LogFastStep == IInv /\ LogFast => IInv'
<1> SUFFICES ASSUME IInv, LogFast PROVE IInv'
  OBVIOUS
<1>1. PICK e \in Entries \ ToSet(table) : table' = <<e>> \o table
  BY DEF LogFast
<1>2. table \in Seq(Entries) /\ IsInjective(table)
  BY DEF IInv, TypeOK
<1>3. <<e>> \in Seq(Entries) /\ ToSet(<<e>>) = {e} /\ IsInjective(<<e>>)
  BY DEF ToSet, IsInjective
<1> DEFINE s == <<e>>
<1>4. s \in Seq(Entries) /\ IsInjective(s) /\ ToSet(s) \cap ToSet(table) = {}
  BY <1>3
<1> HIDE DEF s
<1>5. /\ s \o table \in Seq(Entries) /\ IsInjective(s \o table)
      /\ ToSet(s \o table) = ToSet(s) \cup ToSet(table)
  <2>1. \A u, v \in Seq(Entries) :
           /\ u \o v \in Seq(Entries)
           /\ ToSet(u \o v) = ToSet(u) \cup ToSet(v)
           /\ IsInjective(u) /\ IsInjective(v) /\ ToSet(u) \cap ToSet(v) = {} => IsInjective(u \o v)
    BY ConcatIs
  <2> QED BY <1>2, <1>4, <2>1
<1>6. table' \in Seq(Entries) /\ IsInjective(table') /\ ToSet(table) \subseteq ToSet(table')
  BY <1>1, <1>5 DEF s
<1>7. TypeOK'
  BY <1>6 DEF LogFast, IInv, TypeOK
<1> QED BY <1>6, <1>7, Untouched DEF LogFast

LEMMA SettleStep == IInv /\ Settle => IInv'
<1> SUFFICES ASSUME IInv, Settle PROVE IInv'
  OBVIOUS
<1>1. settled' \subseteq ToSet(table)
  BY DEF Settle, IInv, TypeOK
<1>2. TypeOK'
  BY <1>1 DEF Settle, IInv, TypeOK
<1> QED BY <1>2, Untouched DEF Settle, IInv

\* What a client may ask for.
LEMMA AskedIs ==
    ASSUME IInv, Ask
    PROVE  \E request : /\ Rank(request)
                        /\ request \in Request
                        /\ request.for = "cluster" => OwnKeys(request.cluster)
<1>1. \A top \in Tops : top \in Nat /\ Window(top) \in Nat
  <2> SUFFICES ASSUME NEW top \in Tops PROVE top \in Nat /\ Window(top) \in Nat
    OBVIOUS
  <2>1. top \in Nat /\ MaxTop \in Nat /\ Widen \in Nat /\ MinWindow \in Nat
    BY CandidatesAssumption
  <2>2. Take(top) \in Nat
    BY <2>1 DEF Take, Greater, Smaller
  <2>3. Take(top) * Widen \in Nat
    BY <2>1, <2>2
  <2> QED BY <2>1, <2>3 DEF Window, Greater
<1>2. Limits \subseteq Nat
  BY CandidatesAssumption
<1>3. picked # None => picked \in Candidate /\ OwnKeys(picked)
  BY DEF IInv, TypeOK, IdsAreKeys
<1>4. PICK request :
         /\ Rank(request)
         /\ \/ \E limit \in Limits : request = [for |-> "show", limit |-> limit]
            \/ \E top \in Tops : request = [for |-> "best", limit |-> Window(top), top |-> top]
            \/ picked # None /\ \E top \in Tops :
                  request = [for |-> "cluster", limit |-> Window(top), top |-> top, cluster |-> picked]
            \/ picked # None /\ \E top \in Tops, e \in ToSet(picked.members) :
                  request = [for |-> "entry", limit |-> Window(top), top |-> top, entry |-> e]
  BY DEF Ask
<1>5. CASE \E limit \in Limits : request = [for |-> "show", limit |-> limit]
  <2>1. request \in Request /\ request.for = "show"
    BY <1>2, <1>5 DEF Request
  <2> QED BY <1>4, <2>1
<1>6. CASE \E top \in Tops : request = [for |-> "best", limit |-> Window(top), top |-> top]
  <2>1. request \in Request /\ request.for = "best"
    BY <1>1, <1>6 DEF Request
  <2> QED BY <1>4, <2>1
<1>7. CASE picked # None /\ \E top \in Tops :
              request = [for |-> "cluster", limit |-> Window(top), top |-> top, cluster |-> picked]
  <2>1. request \in Request /\ request.cluster = picked
    BY <1>1, <1>3, <1>7 DEF Request
  <2> QED BY <1>3, <1>4, <1>7, <2>1
<1>8. CASE picked # None /\ \E top \in Tops, e \in ToSet(picked.members) :
              request = [for |-> "entry", limit |-> Window(top), top |-> top, entry |-> e]
  <2>1. ToSet(picked.members) \subseteq Entries
    BY <1>3, <1>8 DEF Candidate, ToSet
  <2>2. request \in Request /\ request.for = "entry"
    BY <1>1, <1>8, <2>1 DEF Request
  <2> QED BY <1>4, <2>2
<1> QED BY <1>4, <1>5, <1>6, <1>7, <1>8

LEMMA AskStep == IInv /\ Ask => IInv'
<1> SUFFICES ASSUME IInv, Ask PROVE IInv'
  OBVIOUS
<1>1. PICK request : /\ Rank(request)
                     /\ request \in Request
                     /\ request.for = "cluster" => OwnKeys(request.cluster)
  BY AskedIs
<1> DEFINE limit == Greater(1, Smaller(request.limit, MaxLimit))
           pool == Pool(limit)
           asked == [request EXCEPT !.limit = limit]
<1>2. limit \in Nat
  <2>1. request.limit \in Nat /\ MaxLimit \in Nat
    BY <1>1, CandidatesAssumption DEF Request
  <2> QED BY <2>1 DEF Greater, Smaller
<1>3. /\ op' = [pc |-> "ranked", request |-> asked, pool |-> pool, candidates |-> Ranking(pool)]
      /\ picked' = (IF request.for = "show" THEN picked ELSE None)
      /\ Len(runs) < MaxRuns /\ UNCHANGED <<table, settled, runs, audited>>
  BY <1>1 DEF Rank
<1> HIDE DEF limit
<1>4. asked \in Request /\ asked.for = request.for /\ (request.for = "cluster" => asked.cluster = request.cluster)
  BY <1>1, <1>2 DEF Request
<1>5. pool \in Seq(Entries) /\ IsInjective(pool)
  BY <1>2, PoolIs DEF IInv, TypeOK
<1> HIDE DEF pool, asked
<1>6. /\ Ranking(pool) \in Seq(Candidate)
      /\ \A c \in ToSet(Ranking(pool)) : OwnKeys(c)
      /\ Partition(Ranking(pool), pool)
  BY <1>5, RankingIs
<1>7. op'.pc = "ranked" /\ op'.request = asked /\ op'.pool = pool /\ op'.candidates = Ranking(pool)
  BY <1>3
<1>8. op' \in RankedOp
  BY <1>3, <1>4, <1>5, <1>6 DEF RankedOp
<1>9. TypeOK'
  BY <1>3, <1>8 DEF IInv, TypeOK, RankedOp
<1>10. IdsAreKeys'
  BY <1>1, <1>3, <1>4, <1>6, <1>7 DEF IInv, IdsAreKeys
<1>11. EachEntryOnce'
  BY <1>6, <1>7 DEF EachEntryOnce
<1>12. RunsCounted' /\ PreparedAsChosen'
  BY <1>3, <1>7 DEF IInv, RunsCounted, PreparedAsChosen
<1> QED BY <1>3, <1>7, <1>9, <1>10, <1>11, <1>12 DEF IInv

LEMMA ShowStep == IInv /\ Show => IInv'
<1> SUFFICES ASSUME IInv, Show PROVE IInv'
  OBVIOUS
<1>1. /\ op.pc = "ranked" /\ op.request.for = "show"
      /\ picked' \in {picked} \cup ToSet(First(op.candidates, op.request.limit))
      /\ op' = Idle /\ UNCHANGED <<table, settled, runs, audited>>
  BY DEF Show
<1>2. op \in RankedOp
  BY <1>1, OpByPc DEF IInv
<1>3. op.candidates \in Seq(Candidate) /\ op.request.limit \in Nat
  BY <1>2 DEF RankedOp, Request
<1> DEFINE seen == First(op.candidates, op.request.limit)
<1>4. /\ seen \in Seq(Candidate) /\ Len(seen) <= Len(op.candidates)
      /\ \A k \in 1..Len(seen) : seen[k] = op.candidates[k]
  BY <1>3, FirstIs
<1> HIDE DEF seen
<1>5. ToSet(seen) \subseteq ToSet(op.candidates) /\ ToSet(seen) \subseteq Candidate
  BY <1>3, <1>4 DEF ToSet
<1>6. picked' = picked \/ (picked' \in Candidate /\ OwnKeys(picked'))
  BY <1>1, <1>5 DEF seen, IInv, IdsAreKeys
<1>7. op'.pc = "idle"
  BY <1>1 DEF Idle
<1>8. TypeOK'
  BY <1>1, <1>6 DEF IInv, TypeOK
<1>9. IdsAreKeys'
  BY <1>6, <1>7 DEF IInv, IdsAreKeys
<1> QED BY <1>1, <1>7, <1>8, <1>9 DEF IInv, RunsCounted, EachEntryOnce, PreparedAsChosen

\* What is found is of the ranking and wanted; a cluster_id or an entry_id finds
\* one candidate at most.
LEMMA FoundIs ==
    ASSUME IInv, op.pc = "ranked"
    PROVE  /\ Found \in Seq(Candidate)
           /\ \A k \in DOMAIN Found : Found[k] \in ToSet(op.candidates) /\ Wanted(op.request, Found[k])
           /\ op.request.for \in {"cluster", "entry"} => Len(Found) <= 1
<1> DEFINE request == op.request
           cs == op.candidates
           seen == First(cs, request.limit)
           I == {i \in DOMAIN seen : Wanted(request, seen[i])}
           n == Cardinality(I)
<1>1. op \in RankedOp
  BY OpByPc DEF IInv
<1>2. cs \in Seq(Candidate) /\ request \in Request /\ request.limit \in Nat
  BY <1>1 DEF RankedOp, Request
<1>3. Partition(cs, op.pool) /\ \A c \in ToSet(cs) : OwnKeys(c)
  BY DEF IInv, EachEntryOnce, IdsAreKeys
<1>4. Found = Selected(seen, I)
  BY DEF Found
<1> HIDE DEF cs, request
<1>5. /\ seen \in Seq(Candidate) /\ Len(seen) <= Len(cs)
      /\ \A k \in 1..Len(seen) : seen[k] = cs[k]
  BY <1>2, FirstIs
<1> HIDE DEF seen
<1>6. /\ I \in SUBSET (1..Len(seen)) /\ DOMAIN seen = 1..Len(seen) /\ DOMAIN cs = 1..Len(cs)
      /\ Len(seen) \in Nat /\ Len(cs) \in Nat
  BY <1>2, <1>5
<1>7. \A i \in I : i \in DOMAIN cs /\ seen[i] = cs[i] /\ seen[i] \in ToSet(cs) /\ Wanted(request, cs[i])
  <2>1. \A i \in I : i \in DOMAIN cs /\ seen[i] = cs[i] /\ Wanted(request, seen[i])
    BY <1>5, <1>6
  <2> QED BY <2>1 DEF ToSet
<1> HIDE DEF I
<1>8. n \in Nat /\ Selects(Selected(seen, I), seen, I)
  BY <1>5, <1>6, SelectedIs
<1>9. PICK e : /\ Enumerates(e, I)
               /\ \A k, l \in 1..n : k < l => e[k] < e[l]
               /\ Found = [k \in 1..n |-> seen[e[k]]]
  BY <1>4, <1>8 DEF Selects
<1>10. \A k \in 1..n : e[k] \in I
  BY <1>9 DEF Enumerates
<1> HIDE DEF n
<1>11. DOMAIN Found = 1..n /\ \A k \in 1..n : Found[k] = seen[e[k]]
  BY <1>9
<1>12. \A k \in DOMAIN Found : Found[k] \in ToSet(cs) /\ Wanted(request, Found[k])
  BY <1>7, <1>10, <1>11
<1>13. \A k \in 1..n : seen[e[k]] \in Candidate
  <2>1. \A i \in DOMAIN seen : seen[i] \in Candidate
    BY <1>5
  <2>2. \A i \in I : i \in DOMAIN seen
    BY <1>6
  <2> QED BY <1>10, <2>1, <2>2
<1>14. Found \in Seq(Candidate) /\ Len(Found) = n
  <2>1. Found \in [1..n -> Candidate]
    BY <1>9, <1>13
  <2> QED BY <1>8, <2>1
<1>15. ASSUME request.for \in {"cluster", "entry"}, NEW i \in I, NEW j \in I
       PROVE  i = j
  <2>1. /\ i \in DOMAIN cs /\ j \in DOMAIN cs /\ cs[i] \in ToSet(cs) /\ cs[j] \in ToSet(cs)
        /\ Wanted(request, cs[i]) /\ Wanted(request, cs[j])
    BY <1>7
  <2>2. \A k \in DOMAIN cs[i].members, l \in DOMAIN cs[j].members :
           cs[i].members[k] = cs[j].members[l] => i = j
    BY <1>3, <2>1 DEF Partition
  <2>3. CASE request.for = "cluster"
    <3>1. cs[i].id = cs[j].id
      BY <2>1, <2>3 DEF Wanted
    <3>2. OwnKeys(cs[i]) /\ cs[i] \in Candidate
      BY <1>2, <1>3, <2>1
    <3> DEFINE x == cs[i].members[1]
    <3>3. 1 \in DOMAIN cs[i].members
      BY <3>2 DEF OwnKeys, Candidate
    <3>4. x \in ToSet(cs[i].members)
      BY <3>3 DEF ToSet
    <3>5. Key[x] \in ToSet(cs[j].id)
      BY <3>1, <3>2, <3>4 DEF OwnKeys
    <3>6. x \in ToSet(op.pool)
      BY <1>3, <2>1, <3>4 DEF Partition
    <3>7. x \in ToSet(cs[j].members)
      BY <1>3, <2>1, <3>5, <3>6 DEF Partition
    <3> QED BY <2>2, <3>3, <3>7 DEF ToSet
  <2>4. CASE request.for = "entry"
    <3>1. request.entry \in ToSet(cs[i].members) /\ request.entry \in ToSet(cs[j].members)
      BY <2>1, <2>4 DEF Wanted
    <3> QED BY <2>2, <3>1 DEF ToSet
  <2> QED BY <1>15, <2>3, <2>4
<1>16. ASSUME request.for \in {"cluster", "entry"}
       PROVE  n <= 1
  <2> SUFFICES ASSUME n >= 2 PROVE FALSE
    BY <1>8 DEF n
  <2>1. 1 \in 1..n /\ 2 \in 1..n
    BY <1>8 DEF n
  <2>2. e[1] < e[2] /\ e[1] \in I /\ e[2] \in I
    BY <1>9, <1>10, <2>1
  <2>3. e[1] = e[2]
    BY <1>15, <1>16, <2>2
  <2>4. e[1] \in Int
    <3>1. \A i \in I : i \in Int
      BY <1>6
    <3> QED BY <2>2, <3>1
  <2> QED BY <2>2, <2>3, <2>4
<1> QED BY <1>12, <1>14, <1>16 DEF cs, request

\* The run a prepare takes is of the type and for what was chosen.
LEMMA PreparedIs ==
    ASSUME IInv, op.pc = "ranked", op.request.for # "show", Found # <<>>,
           NEW run, run = [request |-> op.request, candidates |-> First(Found, Take(op.request.top))]
    PROVE  run \in Run /\ AsChosen(run)
<1> DEFINE request == op.request
           taken == Take(request.top)
           chosen == First(Found, taken)
<1>1. op \in RankedOp
  BY OpByPc DEF IInv
<1>2. request \in Request /\ request.top \in Nat
  BY <1>1 DEF RankedOp, Request
<1>3. taken \in Nat /\ taken >= 1
  <2>1. MaxTop \in Nat
    BY CandidatesAssumption
  <2> HIDE DEF request
  <2> QED BY <1>2, <2>1 DEF Take, Greater, Smaller
<1>4. /\ Found \in Seq(Candidate)
      /\ \A k \in DOMAIN Found : Found[k] \in ToSet(op.candidates) /\ Wanted(request, Found[k])
      /\ request.for \in {"cluster", "entry"} => Len(Found) <= 1
  BY FoundIs
<1>5. run.request = request /\ run.candidates = chosen
  OBVIOUS
<1> HIDE DEF taken
<1>6. /\ chosen \in Seq(Candidate)
      /\ Len(chosen) = Smaller(taken, Len(Found)) /\ Len(chosen) <= Len(Found)
      /\ \A k \in 1..Len(chosen) : chosen[k] = Found[k]
  BY <1>3, <1>4, FirstIs
<1> HIDE DEF chosen
<1>7. Len(Found) \in Nat /\ Len(Found) >= 1 /\ 1 \in DOMAIN Found
  BY <1>4
<1>8. Len(chosen) \in Nat /\ Len(chosen) >= 1
  BY <1>3, <1>6, <1>7 DEF Smaller
<1> DEFINE c == chosen[1]
<1>9. c = Found[1] /\ c \in ToSet(op.candidates) /\ Wanted(request, c)
  BY <1>4, <1>6, <1>7, <1>8
<1>10. chosen # <<>>
  BY <1>8
<1>11. run \in Run
  <2>1. chosen \in Seq(Candidate) \ {<<>>}
    BY <1>6, <1>10
  <2>2. run = [request |-> request, candidates |-> chosen]
    BY DEF chosen, taken
  <2> HIDE DEF request
  <2> QED BY <1>2, <2>1, <2>2 DEF Run
<1>12. OwnKeys(c) /\ (request.for = "cluster" => OwnKeys(request.cluster))
  BY <1>9 DEF IInv, IdsAreKeys
<1> HIDE DEF request, c
<1>13. ASSUME request.for = "cluster"
       PROVE  /\ Len(chosen) = 1
              /\ {Key[e] : e \in ToSet(c.members)} = {Key[e] : e \in ToSet(request.cluster.members)}
  <2>1. Len(chosen) = 1
    BY <1>4, <1>6, <1>7, <1>8, <1>13
  <2>2. c.id = request.cluster.id
    BY <1>9, <1>13 DEF Wanted
  <2> QED BY <1>12, <1>13, <2>1, <2>2 DEF OwnKeys
<1>14. ASSUME request.for = "entry"
       PROVE  Len(chosen) = 1 /\ request.entry \in ToSet(c.members)
  <2>1. Len(chosen) = 1
    BY <1>4, <1>6, <1>7, <1>8, <1>14
  <2> QED BY <1>9, <1>14, <2>1 DEF Wanted
<1>15. AsChosen(run)
  BY <1>5, <1>13, <1>14 DEF AsChosen, c
<1> QED BY <1>11, <1>15

LEMMA PrepareStep == IInv /\ Prepare => IInv'
<1> SUFFICES ASSUME IInv, Prepare PROVE IInv'
  OBVIOUS
<1> DEFINE run == [request |-> op.request, candidates |-> First(Found, Take(op.request.top))]
<1>1. /\ op.pc = "ranked" /\ op.request.for # "show" /\ Found # <<>>
      /\ op' = [pc |-> "insert", run |-> run]
      /\ UNCHANGED <<table, settled, picked, runs, audited>>
  BY DEF Prepare
<1>2. run \in Run /\ AsChosen(run)
  BY <1>1, PreparedIs
<1> HIDE DEF run
<1>3. op'.pc = "insert" /\ op'.run = run
  BY <1>1
<1>4. op' \in InsertOp
  BY <1>1, <1>2 DEF InsertOp
<1>5. TypeOK'
  BY <1>1, <1>4 DEF IInv, TypeOK, InsertOp
<1>6. RunsCounted' /\ IdsAreKeys' /\ EachEntryOnce' /\ PreparedAsChosen'
  BY <1>1, <1>3 DEF IInv, RunsCounted, IdsAreKeys, EachEntryOnce, PreparedAsChosen
<1> QED BY <1>1, <1>2, <1>3, <1>5, <1>6 DEF IInv

LEMMA PrepareNoneStep == IInv /\ PrepareNone => IInv'
<1> SUFFICES ASSUME IInv, PrepareNone PROVE IInv'
  OBVIOUS
<1>1. op' = Idle /\ op'.pc = "idle" /\ UNCHANGED <<table, settled, picked, runs, audited>>
  BY DEF PrepareNone, Idle
<1>2. TypeOK'
  BY <1>1 DEF IInv, TypeOK
<1> QED BY <1>1, <1>2 DEF IInv, IdsAreKeys, RunsCounted, EachEntryOnce, PreparedAsChosen

LEMMA InsertRunStep == IInv /\ InsertRun => IInv'
<1> SUFFICES ASSUME IInv, InsertRun PROVE IInv'
  OBVIOUS
<1>1. /\ op.pc = "insert" /\ runs' = Append(runs, op.run) /\ op' = [pc |-> "audit"]
      /\ UNCHANGED <<table, settled, picked, audited>>
  BY DEF InsertRun
<1>2. /\ op.run \in Run /\ AsChosen(op.run)
      /\ runs \in Seq(Run) /\ Len(runs) < MaxRuns /\ audited \subseteq DOMAIN runs
  BY <1>1, OpByPc DEF IInv, TypeOK, InsertOp, RunsCounted
<1>3. MaxRuns \in Nat
  BY CandidatesAssumption
<1>4. /\ runs' \in Seq(Run) /\ Len(runs') = Len(runs) + 1 /\ Len(runs') <= MaxRuns
      /\ DOMAIN runs \subseteq DOMAIN runs' /\ runs' # <<>>
  BY <1>1, <1>2, <1>3
<1>5. \A k \in DOMAIN runs' : runs'[k] = op.run \/ \E l \in DOMAIN runs : runs'[k] = runs[l]
  BY <1>1, <1>2
<1>6. TypeOK'
  BY <1>1, <1>2, <1>4 DEF IInv, TypeOK
<1>7. PreparedAsChosen'
  <2>1. \A r \in ToSet(runs') : AsChosen(r)
    BY <1>2, <1>5 DEF IInv, PreparedAsChosen, ToSet
  <2> QED BY <2>1 DEF PreparedAsChosen
<1>8. op'.pc = "audit"
  BY <1>1
<1> QED BY <1>1, <1>4, <1>6, <1>7, <1>8 DEF IInv, IdsAreKeys, RunsCounted, EachEntryOnce

LEMMA AuditPrepareStep == IInv /\ AuditPrepare => IInv'
<1> SUFFICES ASSUME IInv, AuditPrepare PROVE IInv'
  OBVIOUS
<1>1. /\ op.pc = "audit" /\ audited' = audited \cup {Len(runs)} /\ op' = Idle /\ op'.pc = "idle"
      /\ UNCHANGED <<table, settled, picked, runs>>
  BY DEF AuditPrepare, Idle
<1>2. runs \in Seq(Run) /\ runs # <<>>
  BY <1>1 DEF IInv, TypeOK, RunsCounted
<1>3. Len(runs) \in DOMAIN runs
  BY <1>2
<1>4. TypeOK'
  BY <1>1, <1>3 DEF IInv, TypeOK
<1> QED BY <1>1, <1>4 DEF IInv, IdsAreKeys, RunsCounted, EachEntryOnce, PreparedAsChosen

LEMMA NextIInv == IInv /\ [Next]_vars => IInv'
<1> SUFFICES ASSUME IInv, [Next]_vars PROVE IInv'
  OBVIOUS
<1>1. CASE UNCHANGED vars
  BY <1>1 DEF vars, IInv, TypeOK, IdsAreKeys, RunsCounted, EachEntryOnce, PreparedAsChosen
<1>2. CASE Next
  BY <1>2, LogFastStep, SettleStep, AskStep, ShowStep, PrepareStep, PrepareNoneStep, InsertRunStep,
     AuditPrepareStep DEF Next
<1> QED BY <1>1, <1>2

----------------------------------------------------------------------------
(* The theorems *)

\* What is ranked goes by its own keys and divides its pool, what is prepared
\* is as chosen, and the entries of the table are different, in every state.
THEOREM InductiveInvariant == Spec => []IInv
BY InitIInv, NextIInv, PTL DEF Spec

\* The table, the rankings and the runs have their types, for every log of
\* entries and every order of requests: a run is never of nothing, and no row of
\* audit_log is without its run (prepare_fast_distillation).
THEOREM TypeCorrect == Spec => []TypeOK
<1>1. IInv => TypeOK
  BY DEF IInv
<1> QED BY <1>1, InductiveInvariant, PTL

\* Whatever their texts, keys and scores are, every entry of the pool is in one
\* candidate of the ranking, once, and with it all that have a key it goes by
\* (_build_fast_candidate_clusters, admin_rank_fast_candidates).
THEOREM RankingsDivideTheirPools == Spec => []EachEntryOnce
<1>1. IInv => EachEntryOnce
  BY DEF IInv
<1> QED BY <1>1, InductiveInvariant, PTL

\* A run that is prepared by a cluster_id or an entry_id is for one candidate:
\* with the keys the client was shown, or with the entry it named, although
\* the ranking is computed anew (prepare_fast_distillation).
THEOREM RunsAreAsChosen == Spec => []PreparedAsChosen
<1>1. IInv => PreparedAsChosen
  BY DEF IInv
<1> QED BY <1>1, InductiveInvariant, PTL
=============================================================================
