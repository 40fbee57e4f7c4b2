# llm-memory: specifications and proofs

TLA+ modules of the memory server in this repository, the TLC configurations
that check them on small instances, and TLAPS proofs of their main invariants.
Paths below are relative to the root of the repository; the service is
`src/service/memory_service.py` (MS below) and the store
`src/storage/sqlite_store.py` (ST below).

## 1. The system

One process is an MCP server (stdio or HTTP) or the fast memory CLI. It builds a
`MemoryService` on a SQLite file, a vector store in the same file and an
embedding provider. Every tool call is one coroutine on the asyncio event loop
of its process. Store calls are synchronous, each opens a connection and commits
one transaction (`ST:_conn`), and the embedding provider is the only thing a
request awaits. Several processes may share one file: every agent client starts
its own stdio server, the HTTP server may run beside them, and the CLI prepares
and applies distillation runs from outside.

| Component | State | Operations | What makes it correct |
|---|---|---|---|
| Embedding versions, reembed | `embedding_versions`, `embeddings`, `entries.embedding_version_id`, the provider of each process | choose a version, store a vector, `memory.reembed`, refuse search | one active version; a vector is filed under the version that produced it; a search compares vectors of one version; a reembed ends the mismatch and leaves out only what cannot be embedded |
| Strong memory writes | `entries`, `links`, `audit_log` | `memory.add`, `memory.import` | overlapping writes of near texts store one fact; an import never brings an invalidated entry back |
| Governance | the same | `memory.invalidate`, `memory.promote` | an invalidated entry stays so and is traced; a merge covers what was promoted |
| Search, list, get | reads | `memory.search`, `memory.list`, `memory.get` | nothing unreadable is returned; readable matches are not crowded out |
| Scope and visibility | actor, scopes, owner | `_can_read`, `_can_write`, `_search_scopes` | project, workspace and global buckets; private entries belong to one agent |
| Persistence policy | none | `classify_persistence`, `classify_internal_write` | the first rule that matches decides, and nothing matches a denial |
| Fast memory | `fast_memory_entries`, `audit_log` | `log_fast`, `summarize_fast`, `discard_fast`, `promote_fast` | the trail and the audit log agree; a promotion and its source name each other |
| Distillation runs | `fast_memory_distillation_runs` | prepare, dry run, apply | a dry run changes nothing; applied means applied as a whole |
| Candidates | none | clustering and ranking of fast entries, the choice of a prepare | every entry is in one cluster; a run holds what its client chose |
| Importance scoring | none | the importance of a write, the selection score of fast entries | bounds and monotonicity |
| Privacy, encryption | the salt file | redact or encrypt on write, decrypt on reembed and import | what was encrypted can be decrypted |
| Export, markdown | the target file | `memory.export`, `memory.import` | only readable entries; a target is replaced as a whole |
| Audit log | `audit_log` | add, list with `after_id` | a consumer that pages forward misses nothing |
| Projects | `projects` | `create_project`, the default project | creation is idempotent |
| HTTP server, auth gate, transports, tools, CLI, configuration, network guard, scripts | the configuration, read at start | routing, validation, adapters | a protected path needs the token |

How they interact: tools and the HTTP admin routes call `MemoryService`; the
service calls the store and the vector store (both one SQLite file) and the
provider. `promote_fast` writes into the strong memory through
`_persist_internal_entry`, as `invalidate` and `promote` do for their markers
and summaries. `reembed` replaces the provider object the other requests of its
process use.

What is hard: requests of one process interleave at the embedding await, with
locals read before it (the version, the duplicate check, whole rows); two
processes interleave at every transaction, and most mutations read a row,
change it and write the whole row back; a handler is several transactions, so
a crash or an exception stops it half way; a reembed is a long loop that other
requests see in the middle. Processes start at the same time on the same salt
file, files are exported in several reads and writes, and a client that has seen
a ranking acts on a table that has moved on. `PROJECT.json` lists these hazards at their lines
with the properties aimed at them.

## 2. The modules

| Module | What it models |
|---|---|
| `EmbeddingVersions` | component 1 with search, and the handlers that rewrite rows |
| `GovernedMemory` | the promise of the strong memory: what may happen to its entries, each call in single steps |
| `StrongMemory` | the write path, import and governance inside one scope; implements `GovernedMemory` |
| `FastMemory` | fast entries, their distillation and the runs |
| `ScopedRecall` | scopes, owners and visibilities: who finds which entries |
| `PersistencePolicy` | the ordered rules of the write policy, as operators |
| `InstallationKey` | the promise of the salt file: one key for good, and every running process holds it |
| `Deployment` | the processes of an installation: salt file, keys, bind check and token, imports, exports, the polled audit log; implements `InstallationKey` |
| `ImportanceScoring` | the scores of strong and fast entries, as operators |
| `Ordering` | sorting, filtering and summing sequences, stated without recursion so that they can be proved about |
| `Candidates` | clustering and ranking of fast entries, and the run a client prepares from what it has seen |
| `MC...` | the instances TLC checks: sets, request slots, payloads, files |
| `..._proofs` | the theorems and their TLAPS proofs |

`EmbeddingVersions`, `StrongMemory`, `FastMemory` and `Deployment` share one way to model concurrency. A *request slot* is a client call
in flight; `op[r]` holds its program counter and local variables. `Home[r]` is
its process. One store call is one step. `CanRun(r)` is the event loop: while a
request of a process is between two awaits (`pc \in SyncPoints`), no other
request of that process moves; requests of other processes do. `Restart(p)`
kills a process between two transactions: its requests are gone, the tables
stay. Store calls are taken to succeed: a locked or full database, and the
write path that goes on when the semantic search raises, are not modelled.
`Deployment` extends `PersistencePolicy`, and `Candidates` extends `ImportanceScoring` and `Ordering`.
A definition whose comment begins with "Deviation" is a plausible bug of
the definition below it and belongs to no behaviour of the specification; the
mutation runs use it.

### EmbeddingVersions

`versions` is the table `embedding_versions` (absent, inactive, active);
`entries[e].vec[v]` the vector of an entry for a version, represented by the
model that computed it; `entries[e].tag` the column `embedding_version_id`;
`provider[p]` the provider object of a process. A provider determines its
version id, so models name versions.

| Actions | Code |
|---|---|
| `BeginWrite`, `ReadActive`, `Register`, `StoreWrite`, `Return` | `add` up to its insert; `_current_embedding_version` is two transactions, its read and its upsert |
| `BeginSearch`, `RecheckSearch`, `Register`, `Return` | `search`, which refuses a mismatch first and then chooses its version as a write does |
| `BeginReembed`, `RegisterReembed`, `NextBatch`, `ReturnVectors`, `UpsertVector`, `FinishReembed`, `AbortReembed` | `reembed`: prepare, activate, the batches with their growing limit, the switch of the provider |
| `ReadRow`, `WriteRow`, `InsertUnembedded`, `SkipInsert` | `invalidate` and `promote` as far as they touch rows, versions and vectors |

### StrongMemory

`entries` joins the tables `entries`, `links` and `embeddings` of one scope;
`audited[e]` are the actions in `audit_log` about an accepted or governed entry
(rows about rejected and duplicate writes are left out: nothing reads them). A
write is a list of rows: one without an id for `memory.add`, a file for
`memory.import`. The embedding version is the other module's subject; here an
entry has a vector or none.

| Actions | Code |
|---|---|
| `BeginWrite`, `CheckRow`, `RejectRow` | `add` up to the await: scope policy, persistence policy, hash duplicates |
| `CheckDuplicates`, `RejectEmbedding`, `StoreRow`, `StoreRowFails`, `AuditWrite` | `add` after the await, and the loop of `import_data` |
| `BeginGovernance`, `ReadTarget`, `WriteTarget`, `InsertMarker`, `AuditInternal`, `AuditTarget` | the loops of `invalidate` and `promote` |
| `InsertSummary`, `AuditMerge` | the merge at the end of `promote` |

`GovernedMemory` is the abstract specification. Its variable `memory` is
`entries` (`Promise == INSTANCE GovernedMemory WITH memory <- entries`); slots,
copies, the audit log and restarts are hidden. `StoreRow` is a `Store`, which
needs a content with no near fact at the moment it takes effect; `WriteTarget`
is an `Invalidate` or a `Promote`, which change one column of the row as it is
now, although the code writes a whole copy back; `InsertMarker` is a `Mark`, and
`InsertSummary` a `Summarise`; every other step is a stutter. A crash between
two of them leaves a memory the promise allows: an invalidation without its
marker, never a marker without its invalidation. The promise holds for one
process only: in `strong_revived` an old copy undoes an `Invalidate`.

### FastMemory

`fast` is `fast_memory_entries` with the trail kept in its metadata, `origin`
the `fast_memory_origin` of the strong entries, `runs` the table of runs,
`audited` the audit events about fast entries. A direct call is a plan of one
decision with one source; an apply executes the plan its client sent.

| Actions | Code |
|---|---|
| `LogFast`, `AuditLog` | `log_fast` |
| `BeginCall`, `ReadRow`, `WriteRow`, `Audit` | `summarize_fast`, `discard_fast` |
| `ReadRow`, `PersistStrong`, `MarkPromoted`, `Audit`, `AbortPromotion` | `promote_fast`, with its early return and its await |
| `Prepare`, `BeginApply`, `Resolve`, `Finish` | `prepare_fast_distillation`, `apply_fast_distillation` |

### ScopedRecall

`entries` holds of a row its scope (level, workspace, project), its owner
(`scope.agent_id`), its visibility, whether it is active, a marker, embedded, and
what it links to; `projects` is the table of projects. An `Actor` is the
`ActorContext` that `tools.py` builds for a call. Project ids are strings, and
`Canonical` is the normalization that writes apply to them and reads do not. One
process is modelled, so the event loop needs no program counters beyond the
await of a vector: a write and a search are two steps, every other handler is one.

| Definitions | Code |
|---|---|
| `Normalized`, `SearchScopes`, `CanRead`, `CanWrite` | `_normalize_scope`, `_search_scopes`, `_can_read`, `_can_write` |
| `Readable`, `Listed`, `Exported`, `Embedded` | `get`, `list_entries`, `export_data`, `list_embeddings` |
| `CreateProject`, `Init` | `create_project`, `_ensure_default_project_record` |
| `BeginAdd`, `BeginPromoteFast`, `Store`, `Drop` | `add` (with import and `capture_inference_memory`), `promote_fast` |
| `Invalidate`, `Marker`, `PromoteMerge`, `Summary`, `Reembed` | the rows that governance derives from others, and their vectors |
| `BeginSearch`, `AnswerSearch` | `search`: the window is cut before the permission filter, the limit after it |

### PersistencePolicy and Deployment

`PersistencePolicy` is the list of rules of `classify_persistence`, of which the
first that matches decides; its word lists are abstracted to the signals they
detect, and any set of signals may show in a text (`DeniedStaysOut` is about the texts that
show a reason to be kept and a reason not to). What governance writes shows
none and is accepted by another path, `classify_internal_write`; its copy in a
file is rejected on import.

`Deployment` has one step per transaction of the database and per operation on a file.
`proc[p]` is where the start of a process is (`pc`) and the salt it has loaded;
the salt stands for the key that is derived from it. `entries[e].key` is the key
an entry is encrypted with, `vecs` the versions it has a vector of. `jsonl[r]`
and `backup[r]` are the two files a client exports to, `log` is the audit log and
`cursor` the `after_id` of a client that polls it.

| Actions | Code |
|---|---|
| `StartProcess`, `FindSalt`, `CreateSalt`, `WriteSalt`, `ReadSalt`, `Stop` | `validate_bind`, `load_or_create_salt`, a crash |
| `BeginAdd`, `BeginImport`, `CheckRow`, `ReturnVector`, `AuditDegraded`, `InsertRow`, `AuditRow`, `FinishImport` | `add` and `import_data`: decryption, policy, insert with its possible `IntegrityError`, the events and counts |
| `BeginExport`, `ReadEntries`, `TruncateFile`, `WriteLine`, `ReadVersions`, `ReadVectors`, `Fill`, `ReplaceTarget`, `AuditExport` | `export_data` as jsonl and as a database (`export_subset_to`) |
| `RegisterVersion`, `FileVector` | what a reembed that does not activate changes meanwhile |
| `PollAudit` | `GET /admin/audit` with `after_id` |
| `MayBind`, `Admitted` | the bind check and the bearer gate |

`InstallationKey` is the abstract specification of the starts. Its `chosen` is the
salt once the file holds one (`KeyChosen`), its `key` what each process has loaded
(`KeyHeld`). `WriteSalt` is a `Choose`, a `ReadSalt` that finds a salt a `Hold`, a `Stop` a
`Forget`; looking for the file and creating it are stutters. There is no second
`Choose`: a crash after the creation leaves an installation in which nothing starts,
never one with two keys.

### ImportanceScoring and Candidates

Scores are integers in units of a ten-thousandth, rounded down where the code
rounds to six digits. `table` is `fast_memory_entries`, the newest first;
`settled` holds the entries that are no longer pending; `EntryOf[e]` is what the
clustering sees of the texts. A ranking is computed when a request has read
its pool, and kept in `op` until it is answered.

| Actions and operators | Code |
|---|---|
| `LogFast`, `Settle` | `log_fast` and the three ways to distil, as other requests do them |
| `Keyed`, `Key`, `BaseClusters`, `MergeScore`, `Merged`, `Clusters`, `Representative` | `_build_fast_candidate_clusters` and its helpers |
| `CandidateScore`, `Pool`, `BestFirst`, `Named`, `Ranking`, `Ask`, `Show` | `admin_rank_fast_candidates` and its callers |
| `Prepare`, `PrepareNone`, `InsertRun`, `AuditPrepare` | `prepare_fast_distillation` by cluster, by entry or for the best |

A `cluster_id` is the hash of the joined keys of a cluster: here it is the keys.
So a cluster that an entry has joined, or whose keys were merged in another
order, has another id, and a prepare for the old one returns without a run
(`PrepareNone`). Greedy merging depends on the order of the base clusters, and the
pool on the limit: rankings with different limits need not agree.

## 3. What TLC checks

Passing runs:

| Run | Instance | Shows |
|---|---|---|
| `emb_process` | 1 process, 2 requests, 2 models, 2 entries, batch size 1, 1 restart | vectors keep their version, and the version an entry names has its vector; searches and writes keep to the active version; a reembed resolves the mismatch, has less to do after each of its steps (`ReembedAdvances`) and leaves only failures |
| `emb_live` | the same without restart, fair | a reembed ends |
| `strong_process` | 1 process, 2 requests of 2 agents, 3 ids and a filed one, 3 contents, files of 2 rows, lists of 2 targets, 1 restart | near contents are stored once, an invalidated entry stays so and has its marker and audit row; the steps implement `GovernedMemory`, where a summary covers promoted, active entries |
| `fast_alone` | 1 request at a time, 2 fast and 2 strong entries, plans of 2 decisions, 1 restart | trail and audit log agree, a promotion is recorded by its source and names a strong entry of its own, dry runs change nothing, applied means distilled |
| `fast_process` | 1 process, 2 requests, 1 run, a plan of 2 decisions | applies keep applied_at; synchronous writes are fresh |
| `recall_process` | 2 workspaces, a project in 2 spellings, 4 actors, 3 entries, 1 request awaiting, limit 1, window 2 | what is readable is what a search looks at, list and export give its project part; a marker has the audience of its target; writers and promoters find what they wrote; a search answers for the moment its rows are read |
| `deploy_process` | 3 servers (on a loopback host, with a token, with neither), 2 client slots of which 1 has the token, 2 requests in all, 5 entries, 2 salts, 2 versions, page limit 2, 1 stop | one key in all processes; exported databases are whole; polling misses nothing; an import accounts for its rows; nothing denied is stored; strangers stay local; the starts implement `InstallationKey` |
| `candidates` | 4 entries, limits 0 and 3, top_k 1 and 2, pools of 2 to 4, 1 run | clustering loses and repeats nothing; a run holds what its client chose |

Runs that TLC must find violated, each a disagreement of the code with what the
repository says (quoted in `PROJECT.json`, "findings"):

| Run | Counterexample |
|---|---|
| `emb_added` | an add that straddles a reembed files its entry under the old version |
| `emb_refusal` | `reembed(activate=False)` of the active version ends the refusal |
| `strong_revived` | a stale write-back of another process revives an invalidated entry |
| `recall_spelling` | an entry added under "Alpha" is stored under "alpha", where the same scope does not look |

Two more disagreements have no run of their own. Two overlapping promotions of one fast entry
insert two strong entries, and the source names the later one only: nothing in
`promote_fast` looks at the source again after its await, so `PromotionMarksSource`
does not hold for two requests (`fast_alone` has one at a time). `memory.invalidate` takes a
blank reason: its first target is invalidated and the insert of the marker then
raises, so there is neither marker nor audit row and `InvalidationTraced` fails.
`StrongMemory` allows blank texts (`Blank`), and `strong_process` has none.

Where the passing runs stop. `InvalidationTraced`, `WritesAudited` and
`PromotionMarksSource` have "no process has died" as their premise: a handler is
several transactions, and a crash between two of them leaves the first one.
`TrailKeepsAudited` is checked for one request at a
time: a promotion that awaits its vector writes an old trail back over the
trail of a discard that came in between. `WritesKeepActiveVersion`,
`ReembedResolvesMismatch`, `FactsDiffer` and `InvalidatedStaysInvalidated` are
checked for one process: two processes that see no active version activate
theirs one after the other, and copies of rows go stale as in `strong_revived`.
`ReembedResolvesMismatch` excludes overlapping reembeds, which may activate and
switch in different orders. A dry run on an applied run sets its status back to
`reviewed`; `applied_at` stays (`AppliedTimeKept`). `WriterFindsEntry` is about
actors that spell their project as it is stored, and about entries they do not
store as another agent's private ones; `recall_spelling` shows the rest. The summary of a merge has no
vector until a reembed.

What `deploy_process` allows, and no document denies. A database export that
reads a vector of a version registered after it has read the versions fails on a
foreign key and leaves its target as it was. A crash between the creation and the
writing of the salt file leaves an empty file, and every later start is refused
until somebody removes it. A jsonl export is not atomic: a crash or another
reader meets half a file, of which an import takes what is there. An encrypted
row of another installation is rejected, row by row. An import that loses the
race for an id ends without its own event, so `ImportAccounted` speaks of the
events that are written.

Bounds, and why they are enough. Two requests are what every hazard listed here
needs (a request and the one that overtakes it). Two entries and batch size 1
make a reembed loop several times and have a failed entry in front of another
one; two models are a switch. `strong_process` has two near contents and a third
apart, an entry that a file also has, and as many ids as two requests can
insert: `HasRoom` in `StrongMemory` delays a request for which there are no ids
left, so that no behaviour is cut in the middle of a handler. `MaxRestarts`
bounds crashes. In `recall_process` three entries are an entry with its marker
beside another one, or two merged entries with their summary, and are more than the window
of 2 and the limit of 1; the actors are two agents of one project, one of another
workspace and one that spells its project differently, and what is
stored belongs to the first agent (other owners, and none, are left to the proofs).
In `deploy_process` two servers start against each other, the third may not start;
one of the entries is a debug note that also states a fact; two requests overlap as two imports, an import and an export, or two exports; a stop hits any
step of a start or a request; a file has two rows, one of which cannot be
decrypted; one version is registered and filed beside the current one, and three watched kinds of
events with pages of two make a client page. `MaxRequests` and `MaxStops` end it.
In `candidates` the entries are two with one key, one near both and one
near only that: they make base clusters of two, merges of three keys, and merges
that depend on the order of logging. Limits, factors and windows are scaled down
so that pools and windows cut something off; `MaxRuns` bounds the runs, and a
client stops ranking when it is reached. Symmetry is used where no definition names an element: entries in
`emb_process` and the recall runs, strong entries and request slots in the fast runs; salts in `deploy_process`;
never with the liveness property. Deadlock checking is off only in `candidates`, where
everything is distilled in the end and the last run is written.

Fairness. `emb_live` assumes strong fairness of each request's steps: asyncio's
ready queue is first in, first out, so a coroutine that is ready again and again
runs, and a provider call returns or raises. Nothing is assumed of new requests,
aborts or restarts.

## 4. What is proved

| Theorem | Statement |
|---|---|
| `EmbeddingVersions_proofs` | `TypeOK`, `AtMostOneActive`, `TaggedByProducer`, `TagHasVector` are invariants of `Spec`; with finitely many entries `ReembedLeavesOnlyFailures` and `ReembedAdvances`, and that a batch to take always exists (`ReembedsFindBatches`); with one process `SearchUsesActiveVersion`, `WritesKeepActiveVersion` and, with one client that calls reembed, `ReembedResolvesMismatch` |
| `FastMemory_proofs` | `TypeOK`, `TargetIsOwn`, `DryRunChangesNothing`, `AppliedMeansDistilled`, `WritesAudited`; with one process `SyncWritesAreFresh` and `AppliedTimeKept`; with one request at a time `TrailKeepsAudited` and `PromotionMarksSource` |
| `StrongMemory_proofs` | `TypeOK`; `InvalidationTraced` if every call gives a reason; with one process `InvalidatedStaysInvalidated`, `SummaryCoversPromoted` and, with semantic deduplication on, `FactsDiffer` and the implementation of `GovernedMemory` (`ImplementsPromise`) |
| `ScopedRecall_proofs` | every property of `recall_process`: `TypeOK`, `ReadableIsSearchable`, `ProjectViewsAgree`, `MarkerAudience`, `WriterFindsEntry`, `SearchAnswersCurrent` |
| `Deployment_proofs` | every property of `deploy_process`: `TypeOK`, `KeysAgree`, `ExportWhole`, `NoGaps`, `StrangersStayLocal`, `DeniedStaysOut`, `ImportAccounted` and the implementation of `InstallationKey` (`ImplementsInstallationKey`) |
| `Ordering_proofs` | lemmas: sorting permutes, selecting keeps the order and what fits, how sums change |
| `Candidates_proofs` | every property of `candidates`: `TypeOK`, `EachEntryOnce`, `PreparedAsChosen` |
| `ImportanceScoring_proofs` | `RecurrenceOnlyAdds`, `NoiseNeverRaises`, `WorthNeverLowers`, `FailedNoveltyNeverRaises` |

They hold for every finite or infinite set of models, entries, requests and
processes, from the assumptions named in the modules (`ConstantsAssumption`,
`FastAssumption`, `StrongAssumption`, `DeploymentAssumption`, `RecallAssumption`, `CandidatesAssumption`; `RecallAssumption` takes the
entries to be finite, for the counting in `SearchAnswersCurrent`). "With one process" is the assumption
`OneHome`, the condition under which the code's reads and write-backs are
atomic; the run `strong_revived` shows what two processes do. "One request at a
time" is `OneAtATime`, "one client that calls reembed" `OneReembedder`, and
"every call gives a reason" `WellFormedCalls`
(which also asks the invalidated rows of a file for their ids); the runs of these properties have
instances of the same kind.

The arguments. `TaggedByProducer` needs that between the choice of a version and
the call of `embed` the provider does not change (`VersionOfProvider`), which
rests on the event loop (`LoopExclusive`). `TagHasVector` needs that a stale
copy of a row still names a version with a vector (`CopiedTagHasVector`): vectors
are never removed. `TargetIsOwn` needs the same of the copies of fast rows
(`CopiesOwnTarget`). The theorems of one process need that a copy about to be
written is the row (`FreshCopies`), and `FactsDiffer` that a row about to be
inserted has no near fact (`InsertsNew`). The implementation of `GovernedMemory`
needs both, and that what a governance call has done to its targets still holds
when its marker or summary goes in (`TargetsHold`). The theorems of `ScopedRecall` rest on the
soundness of every row (`Rows`: it is in the bucket of its level, and a marker has
scope, owner and visibility of its target) and of the rows that await their vector
(`Pending`); no step changes those columns of a row that is there. `KeysAgree` needs that
a single process can be between creating and writing the salt (`Salted`: O_EXCL
lets one through, and the file never shrinks), and that no key but the salt in
the file has been used (`OwnKeys`); the implementation of `InstallationKey` that a process
has no key before it is up (`Keyless`). `DeniedStaysOut` needs that a row which awaits its vector or
its insert has passed the policy (`Judged`), and that the rules that deny come before
those that admit (`AdmittedShows`). Two results are proved and not properties of a run of their
own: `AtMostOneActive`, without which `ReembedResolvesMismatch` fails in `emb_process`, and
`SummaryCoversPromoted`, which `ImplementsPromise` contains. `ExportWhole` needs that versions and vectors are
only ever added (`Exporting`), so what a later read of the export sees includes
what an earlier one saw. `ImportAccounted` needs that the counts of an import are,
at every step, those of the log since it began (`Accounted`).

The theorems about what is recorded need a word on copies. `WritesAudited`: no
row and no copy of a row has an event in its trail that was not logged or is
about to be, so a write leaves its record whatever it overwrites; `AppliedMeansDistilled`: a
row never goes back to pending, so what a run has done to a source stays done
(both `AuditInv`). With one request at a time a copy is the row, and a strong entry
is either recorded by its source or the one being promoted (`TrailInv`).
`InvalidationTraced` holds in any number of processes although rows are revived
there: the type and the links of a row never change, so a stale copy keeps the
links of its row, a marker stays a marker, and every target up to the one at hand
has one (`TraceInv`). The switch of versions, with one process, needs that what a
request has read of the active version is true as long as it has the loop, and that an
activated version stays until its reembed ends (`SwitchInv`); an empty batch
means nothing is missing because the limit exceeds the number of failed entries.
`ReembedAdvances` gives the loop a measure (`Work`): four times the entries a reembed has neither
filed nor failed (`Ahead`, rows to come included), plus its place in the loop (`Stage`). No step of
another request adds to it, since vectors are never removed and failures not
forgotten; every step of its own lowers it, since a batch is not empty (`BatchesHold`, checked
by TLC on the instance of the run) and holds no failed entry.

`Candidates` clusters by folds over sequences, which are induction over data, and
the prover's induction theorems cannot be instantiated. `Candidates_proofs` gets
the induction from a theorem about sets: strict inclusion of the subsets of `0..k` is
well-founded, so a set of numbers for which a claim fails is empty or has a least
member. `Ordering` states what a sorted or a selected sequence is
by a choice over permutations and index sets; `Ordering_proofs` shows that the choice exists.
`EachEntryOnce` then needs that every round of the merge leaves clusters that divide the pool and its
keys among them, each with all entries of its keys (`Divide`, `Whole`). `PreparedAsChosen` needs that
the table names no entry twice and that an id on its way from a ranking into a run is the
keys of its members (`IdsAreKeys`): two candidates with one id, or with an entry in
common, are one candidate, so what a prepare finds by id or by entry is what its client
saw. `RunsCounted` keeps the number of runs within its bound.

The theorems about scores are about every integer in
range, with every quotient rounded down: monotonicity is not lost to rounding. These parts with `TypeOK` are the
inductive invariants `IInv` of the modules; TLC has checked them as invariants
of the same instances.

Only model-checked: the liveness of reembed, and every violation. That the loop
of a reembed is bounded and never stuck is proved; that it therefore ends
(`ReembedTerminates`) needs fairness and ENABLED, which are out of the prover's reach.

## 5. What is not modelled

Abstracted everywhere: texts, metadata, tiers beyond "has the target tier",
similarities of vectors, timestamps, logging.

| Part | Left out |
|---|---|
| Write path | self evaluation of a payload before its policy (off by default); when it is enforced, an import rejects rows without an audit row |
| Search | the scores and the tier filter |
| Scopes | user ids, the scope of fast entries (`_can_read_fast`), a second process in `ScopedRecall` |
| Candidates | filters other than pending and unresolved; `created_at`, `distinct_task_count` and `burst_retry_count` given by a client; the refusal when fast memory is disabled. Entries whose texts have no latin words and no structure all share one key: the fallback to the content in `_fast_candidate_cluster_key` is never reached |
| Scoring | the writer model, context hash and fingerprint of the metadata |
| Privacy | redaction: a redacted text is its placeholder, so all redacted entries have one hash and one vector, and their copy in a file is rejected by the policy; derivation of keys |
| Export | `memory.md`, the checks of the target path, the removal of leftover `-wal` and `-shm` files |
| HTTP server, transports, tools, CLI | parsing, validation, routing and rendering, which keep no state; the artefact files of the CLI |
| Configuration, logging, network guard | set up once before a process serves |
| Markdown interchange | rendering and parsing of text; its rows enter as import files |
| Scripts | offline helpers, no part of the running server |

Next steps: a composition of `StrongMemory` and `EmbeddingVersions` for
the semantic check under a version switch (the hazard at MS:2474), `promote_fast`
as a writer of `StrongMemory`, and a second process in `ScopedRecall`. The MCP SDK,
SQLite itself, the cipher and the embedding model are external.
