----------------------------- MODULE Candidates -----------------------------
(***************************************************************************)
(* The candidates for distillation: the pending entries of fast memory are *)
(* clustered by key, the clusters merged by similarity and ranked, and a   *)
(* client that has seen a ranking prepares a run for a cluster, an entry   *)
(* or the best clusters of a ranking that is computed anew.                *)
(*                                                                         *)
(* Granularity.  A store call is one transaction and one step.  Between    *)
(* them other processes log entries and distil them.  A row of fast memory *)
(* is never deleted and never changes its scope, so the re-reads of a      *)
(* prepare all find their row and are part of the insert of the run.       *)
(*                                                                         *)
(* The entries are of one project.  Their texts are given by what the      *)
(* clustering sees of them.  A cluster_id is the hash of the joined keys:  *)
(* here it is the keys.  FastMemory has the distillation and the runs.     *)
(***************************************************************************)
EXTENDS ImportanceScoring, Ordering, FiniteSetsExt, SequencesExt

CONSTANTS
    Entries,      \* ids of fast_memory_entries
    EntryOf,      \* what was logged under an id
    Limits,       \* the limits of rankings
    Tops,         \* the top_k of prepares
    MaxLimit,     \* 200: no ranking is longer
    PoolFactor,   \* 20: entries read per candidate asked for
    PoolMin,      \* 100: but at least as many
    PoolMax,      \* 1000: and at most as many
    MaxTop,       \* 10: no prepare takes more candidates
    Widen,        \* 5: a prepare ranks as many for each it takes
    MinWindow,    \* 10: but at least as many
    KeyTokens,    \* 6: tokens in a key
    SetTokens,    \* 18: tokens compared
    MaxRuns       \* bound on the runs

Logged == [kind      : STRING \cup {None},    \* structured_context
           area      : STRING \cup {None},
           component : STRING \cup {None},
           feature   : STRING \cup {None},
           entities  : SUBSET STRING,         \* entity_refs
           types     : SUBSET STRING,         \* their prefixes
           outcome   : BOOLEAN,
           event     : STRING,                \* event_type
           tokens    : Seq(STRING),           \* the words of its texts, each once
           text      : STRING,                \* the content
           session   : STRING \cup {None},
           day       : Nat,
           recurrence : Nat,
           selection : Score \cup {None},     \* selection_score
           meta      : Meta]

ASSUME CandidatesAssumption ==
    /\ EntryOf \in [Entries -> Logged]
    /\ \A e \in Entries : IsFiniteSet(EntryOf[e].entities) /\ IsFiniteSet(EntryOf[e].types)
    /\ None \notin Score \cup STRING
    /\ Limits \subseteq Nat /\ Tops \subseteq Nat
    /\ {MaxLimit, PoolFactor, PoolMin, PoolMax, MaxTop, Widen, MinWindow,
        KeyTokens, SetTokens} \subseteq Nat \ {0}
    /\ MaxRuns \in Nat

VARIABLES
    table,    \* table fast_memory_entries, the newest first
    settled,  \* the entries that are distilled or resolved
    picked,   \* the candidate the client has picked from a ranking, if any
    op,       \* the prepare under way
    runs,     \* table fast_memory_distillation_runs
    audited   \* the runs with their row in audit_log

vars == <<table, settled, picked, op, runs, audited>>

----------------------------------------------------------------------------
(* Similarity of entries *)

First(s, n) == SubSeq(s, 1, Smaller(n, Len(s)))

\* _fast_candidate_token_set
Tokens == [e \in Entries |-> ToSet(First(EntryOf[e].tokens, SetTokens))]

\* _set_similarity
SetSimilarity(A, B) == IF A = {} \/ B = {} THEN 0
                       ELSE Share(Cardinality(A \cap B), Cardinality(A \cup B))

Similarity == [p \in Entries \X Entries |-> SetSimilarity(Tokens[p[1]], Tokens[p[2]])]

ScopeWeight == [kind |-> 1200, area |-> 2200, component |-> 3200, feature |-> 1400]

\* _fast_candidate_scope_alignment_score
ScopeAlignment ==
    [p \in Entries \X Entries |->
        LET l == EntryOf[p[1]]
            m == EntryOf[p[2]]
            alike == {field \in DOMAIN ScopeWeight : l[field] = m[field] /\ l[field] # None} IN
        SumFunctionOnSet(ScopeWeight, alike) + IF l.event = m.event THEN 1200 ELSE 0]

\* _fast_candidate_cluster_key
Key == [e \in Entries |->
          LET l == EntryOf[e] IN
          <<IF l.kind # None THEN l.kind ELSE l.event, l.area, l.component, l.feature>>
             \o First(l.tokens, KeyTokens)]

\* log_fast: the client's score, or that of the entry by itself.
EntryScore ==
    [e \in Entries |->
        LET l == EntryOf[e] IN
        IF l.selection # None THEN l.selection
        ELSE SelectionScore(FastStaticScore(l.meta), FastQualityScore(<<>>, l.recurrence),
                            FastNoisePenalty(l.meta, Retry(l.event)), l.recurrence)]

----------------------------------------------------------------------------
(* Clusters *)

\* _candidate_representative; of two alike the one written later.
Representative(pool, members) ==
    SortedBy([k \in DOMAIN members |->
                 <<EntryScore[members[k]], EntryOf[members[k]].recurrence,
                   -(CHOOSE i \in DOMAIN pool : pool[i] = members[k])>>], members)[1]

\* _make_fast_candidate_cluster
Cluster(pool, members, keys) ==
    [members |-> members, keys |-> keys, rep |-> Representative(pool, members)]

\* _fast_candidate_merge_score
MergeScore(c, d) ==
    LET scope  == ScopeAlignment[<<c.rep, d.rep>>]
        tokens == Similarity[<<c.rep, d.rep>>]
        types  == SetSimilarity(EntryOf[c.rep].types, EntryOf[d.rep].types) IN
    IF tokens < 1200 /\ types = 0 /\ scope < 7500 THEN 0
    ELSE (scope * 55 + tokens * 30 + types * 15) \div 100

\* The entries of one key each.
Keyed(pool, key) ==
    Cluster(pool, Selected(pool, {i \in DOMAIN pool : Key[pool[i]] = key}), <<key>>)

\* One cluster for each key of the pool, the largest first.
BaseClusters(pool) ==
    LET keys  == [i \in DOMAIN pool |-> Key[pool[i]]]
        found == Selected(keys, {i \in DOMAIN pool : \A j \in 1..(i - 1) : keys[j] # keys[i]})
        base  == [i \in DOMAIN found |-> Keyed(pool, found[i])] IN
    SortedBy([i \in DOMAIN base |-> <<Len(base[i].members), EntryScore[base[i].rep],
                                      EntryOf[base[i].rep].recurrence>>], base)

\* Deviation: a merged cluster goes by the keys it had.
JoinedUnderOldKeys(pool, c, d) == Cluster(pool, c.members \o d.members, c.keys)

Joined(pool, c, d) == Cluster(pool, c.members \o d.members, c.keys \o d.keys)

\* Deviation: a cluster that was merged is appended all the same.
MergedAndKept(pool, merged, c) ==
    LET near == {i \in DOMAIN merged : MergeScore(merged[i], c) >= 5200} IN
    Append([i \in DOMAIN merged |-> IF i \in near THEN Joined(pool, merged[i], c) ELSE merged[i]], c)

\* The cluster joins the one it resembles most, if it resembles any enough.
Merged(pool, merged, c) ==
    LET near == {i \in DOMAIN merged : MergeScore(merged[i], c) >= 5200}
        best == CHOOSE i \in near : \A j \in near \ {i} :
                   LexGreater(<<MergeScore(merged[i], c), -i>>, <<MergeScore(merged[j], c), -j>>) IN
    IF near = {} THEN Append(merged, c)
    ELSE [merged EXCEPT ![best] = Joined(pool, @, c)]

\* _build_fast_candidate_clusters
Clusters(pool) == FoldLeft(LAMBDA merged, c : Merged(pool, merged, c), <<>>, BaseClusters(pool))

----------------------------------------------------------------------------
(* Ranking *)

\* How many of the members are in a set.
Count(members, S) == Cardinality({k \in DOMAIN members : members[k] \in S})

Recurrences(members) ==
    SumFunction([k \in DOMAIN members |-> Greater(1, EntryOf[members[k]].recurrence)])

Sessions(members) == {EntryOf[e].session : e \in ToSet(members)} \ {None}

\* The size of the largest session, of which the missing one is one.
Densest(members) ==
    Max({Count(members, {e \in Entries : EntryOf[e].session = EntryOf[m].session}) :
            m \in ToSet(members)})

\* What admin_rank_fast_candidates makes of a cluster.
CandidateScore(c) ==
    LET rep == c.rep
        members == c.members
        n == Len(members)
        days == Cardinality({EntryOf[e].day : e \in ToSet(members)})
        entities == Cardinality(UNION {EntryOf[e].entities : e \in ToSet(members)})
        texts == Cardinality({EntryOf[e].text : e \in ToSet(members)})
        scope == Mean([k \in 1..n |-> ScopeAlignment[<<rep, members[k]>>]])
        cohesion == Mean([k \in 1..n |-> (60 * ScopeAlignment[<<rep, members[k]>>]
                                 + 40 * Similarity[<<rep, members[k]>>]) \div 100])
        quality == <<Share(Cardinality(Sessions(members)), 4), Share(days, 3),
                     Share(Count(members, {e \in Entries : EntryOf[e].outcome}), 3), Share(entities, 5),
                     Share(days, 3), Share(entities, 4), cohesion, scope>>
        noise == Retry(EntryOf[rep].event)
                   \o <<Unit - Share(texts, n), Share(Densest(members), n),
                        Share(Count(members, {e \in Entries : EntryOf[e].event = "retry"}), n),
                        Unit - cohesion, Unit - scope>> IN
    SelectionScore(FastStaticScore(EntryOf[rep].meta),
                   FastQualityScore(quality, Recurrences(members)),
                   FastNoisePenalty(EntryOf[rep].meta, noise), Recurrences(members))

\* list_fast_entries: the newest pending entries, a number of them.
Pool(limit) ==
    First(Selected(table, {i \in DOMAIN table : table[i] \notin settled}),
          Greater(PoolMin, Smaller(limit * PoolFactor, PoolMax)))

\* The clusters by worth, the best first.
BestFirst(clusters) ==
    SortedBy([i \in DOMAIN clusters |->
                 <<CandidateScore(clusters[i]), Recurrences(clusters[i].members),
                   Len(clusters[i].members), Cardinality(Sessions(clusters[i].members))>>],
             clusters)

\* The candidate of each cluster, named by the cluster's keys.
Named(clusters) ==
    [i \in DOMAIN clusters |-> [id |-> clusters[i].keys, members |-> clusters[i].members]]

\* The candidates of a pool, the best first.
Ranking(pool) == Named(BestFirst(Clusters(pool)))

----------------------------------------------------------------------------
(* Types *)

Candidate == [id : Seq(Seq(STRING \cup {None})), members : Seq(Entries)]

\* What a client asks for: to be shown a number of candidates, or a run for a
\* candidate by its cluster_id, for the candidate of an entry_id, or for the best.
Request == [for : {"show"}, limit : Nat]
             \cup [for : {"cluster"}, limit : Nat, top : Nat, cluster : Candidate]
             \cup [for : {"entry"}, limit : Nat, top : Nat, entry : Entries]
             \cup [for : {"best"}, limit : Nat, top : Nat]

Run == [request : Request, candidates : Seq(Candidate) \ {<<>>}]

Idle == [pc |-> "idle"]

TypeOK ==
    /\ table \in Seq(Entries)
    /\ settled \subseteq ToSet(table)
    /\ picked \in Candidate \cup {None}
    /\ op = Idle \/ op \in [pc : {"ranked"}, request : Request, pool : Seq(Entries),
                          candidates : Seq(Candidate)]
                    \cup [pc : {"insert"}, run : Run] \cup [pc : {"audit"}]
    /\ runs \in Seq(Run) /\ Len(runs) <= MaxRuns
    /\ audited \subseteq DOMAIN runs

Init ==
    /\ table = <<>>
    /\ settled = {}
    /\ picked = None
    /\ op = Idle
    /\ runs = <<>>
    /\ audited = {}

----------------------------------------------------------------------------
(* Other requests and processes *)

LogFast ==
    /\ \E e \in Entries \ ToSet(table) : table' = <<e>> \o table
    /\ UNCHANGED <<settled, picked, op, runs, audited>>

\* summarize_fast, discard_fast or promote_fast of some entry.
Settle ==
    /\ \E e \in ToSet(table) \ settled : settled' = settled \cup {e}
    /\ UNCHANGED <<table, picked, op, runs, audited>>

----------------------------------------------------------------------------
(* The client *)

\* admin_rank_fast_candidates: the pool is read, clustered and ranked.
Rank(request) ==
    LET limit == Greater(1, Smaller(request.limit, MaxLimit))
        pool == Pool(limit) IN
    /\ op = Idle /\ Len(runs) < MaxRuns
    /\ op' = [pc |-> "ranked", request |-> [request EXCEPT !.limit = limit],
              pool |-> pool, candidates |-> Ranking(pool)]
    /\ picked' = IF request.for = "show" THEN picked ELSE None
    /\ UNCHANGED <<table, settled, runs, audited>>

Take(top) == Greater(1, Smaller(top, MaxTop))

Window(top) == Greater(Take(top) * Widen, MinWindow)

\* rank_fast_candidates_for_actor, GET /admin/fast-memory/candidates, and the
\* first call of prepare_fast_distillation.  A client that asks for a run names
\* a candidate or an entry of the ranking it has seen, or none.
Ask ==
    LET shows == {[for |-> "show", limit |-> limit] : limit \in Limits}
        bests == {[for |-> "best", limit |-> Window(top), top |-> top] : top \in Tops}
        ofPicked == IF picked = None THEN {}
                    ELSE {[for |-> "cluster", limit |-> Window(top), top |-> top,
                           cluster |-> picked] : top \in Tops}
                      \cup {[for |-> "entry", limit |-> Window(top), top |-> top, entry |-> e] :
                              top \in Tops, e \in ToSet(picked.members)} IN
    \E request \in shows \cup bests \cup ofPicked : Rank(request)

\* The candidates within the limit, of which the client picks one if it likes.
Show ==
    /\ op.pc = "ranked" /\ op.request.for = "show"
    /\ picked' \in {picked} \cup ToSet(First(op.candidates, op.request.limit))
    /\ op' = Idle
    /\ UNCHANGED <<table, settled, runs, audited>>

Wanted(request, c) ==
    /\ request.for = "cluster" => c.id = request.cluster.id
    /\ request.for = "entry" => request.entry \in ToSet(c.members)

Found == LET seen == First(op.candidates, op.request.limit) IN
         Selected(seen, {i \in DOMAIN seen : Wanted(op.request, seen[i])})

\* Deviation: a prepare that finds nothing leaves a run of nothing.
PrepareEvenNone ==
    /\ op.pc = "ranked" /\ op.request.for # "show"
    /\ op' = [pc |-> "insert", run |-> [request |-> op.request,
                                        candidates |-> First(Found, Take(op.request.top))]]
    /\ UNCHANGED <<table, settled, picked, runs, audited>>

\* prepare_fast_distillation takes the best that are wanted.
Prepare ==
    /\ op.pc = "ranked" /\ op.request.for # "show"
    /\ Found # <<>>
    /\ op' = [pc |-> "insert", run |-> [request |-> op.request,
                                        candidates |-> First(Found, Take(op.request.top))]]
    /\ UNCHANGED <<table, settled, picked, runs, audited>>

\* None is wanted: it returns without a run.
PrepareNone ==
    /\ op.pc = "ranked" /\ op.request.for # "show"
    /\ Found = <<>>
    /\ op' = Idle
    /\ UNCHANGED <<table, settled, picked, runs, audited>>

\* The members are read again, and add_fast_distillation_run follows.
InsertRun ==
    /\ op.pc = "insert"
    /\ runs' = Append(runs, op.run)
    /\ op' = [pc |-> "audit"]
    /\ UNCHANGED <<table, settled, picked, audited>>

AuditPrepare ==
    /\ op.pc = "audit"
    /\ audited' = audited \cup {Len(runs)}
    /\ op' = Idle
    /\ UNCHANGED <<table, settled, picked, runs>>

Next == \/ LogFast \/ Settle \/ Ask \/ Show
        \/ Prepare \/ PrepareNone \/ InsertRun \/ AuditPrepare

Spec == Init /\ [][Next]_vars

----------------------------------------------------------------------------
(* Properties *)

\* The candidates have every entry of the pool, once, and with its key all
\* entries of the pool that have the key.
Partition(cs, pool) ==
    /\ UNION {ToSet(c.members) : c \in ToSet(cs)} = ToSet(pool)
    /\ \A i, j \in DOMAIN cs : \A k \in DOMAIN cs[i].members, l \in DOMAIN cs[j].members :
          cs[i].members[k] = cs[j].members[l] => i = j /\ k = l
    /\ \A c \in ToSet(cs) : \A e \in ToSet(pool) : e \in ToSet(c.members) <=> Key[e] \in ToSet(c.id)

\* Clustering loses and repeats nothing: whatever has been logged in whatever
\* order, every entry of the pool is in one candidate, once, and every entry of
\* the pool with a key it goes by is there with it (_build_fast_candidate_clusters).
EachEntryOnce == op.pc = "ranked" => Partition(op.candidates, op.pool)

\* A run is for the one candidate its client chose.
AsChosen(run) ==
    LET request == run.request
        sources == ToSet(run.candidates[1].members) IN
    /\ request.for = "cluster" =>
          /\ Len(run.candidates) = 1
          /\ {Key[e] : e \in sources} = {Key[e] : e \in ToSet(request.cluster.members)}
    /\ request.for = "entry" => Len(run.candidates) = 1 /\ request.entry \in sources

\* A run holds what its client chose, whatever was logged and distilled since
\* it saw the ranking: a cluster_id stands for entries with the keys it was shown
\* and no others, an entry_id for the candidate with that entry
\* (prepare_fast_distillation).
PreparedAsChosen == \A run \in ToSet(runs) : AsChosen(run)

----------------------------------------------------------------------------
(* The inductive invariant *)

\* The keys of a candidate are those of its entries.
OwnKeys(c) == c.members # <<>> /\ {Key[e] : e \in ToSet(c.members)} = ToSet(c.id)

\* The candidates that are ranked, picked and asked for go by their own keys.
IdsAreKeys ==
    /\ picked # None => OwnKeys(picked)
    /\ op.pc = "ranked" => /\ \A c \in ToSet(op.candidates) : OwnKeys(c)
                           /\ op.request.for = "cluster" => OwnKeys(op.request.cluster)

\* A ranking has been begun with room for a run, an audit with a run.
RunsCounted ==
    /\ op.pc \in {"ranked", "insert"} => Len(runs) < MaxRuns
    /\ op.pc = "audit" => runs # <<>>

IInv ==
    /\ TypeOK
    /\ IsInjective(table)
    /\ IdsAreKeys
    /\ RunsCounted
    /\ EachEntryOnce
    /\ op.pc = "insert" => AsChosen(op.run)
    /\ PreparedAsChosen
=============================================================================
