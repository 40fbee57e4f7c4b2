------------------------- MODULE EmbeddingVersions -------------------------
(***************************************************************************)
(* The embedding life cycle of the strong memory: which embedding version  *)
(* is active, which vectors every entry has, and the requests that move    *)
(* them: memory.add and the other embedding writers, memory.search,        *)
(* memory.reembed, and the two synchronous handlers that rewrite a row     *)
(* (memory.invalidate and memory.promote).                                 *)
(*                                                                         *)
(* Granularity.  Several server processes may share one SQLite file; each  *)
(* store call is one transaction and one step here.  Inside one process a  *)
(* request keeps the event loop from one await to the next (CanRun): two   *)
(* requests of a process interleave at awaits only, two processes at every *)
(* transaction.  A provider (model, dimension) determines its version id,  *)
(* so versions are named by the member of Models that produces them.       *)
(* What a vector contains is abstracted to the model that computed it.     *)
(***************************************************************************)
EXTENDS Naturals, FiniteSets

CONSTANTS
    Models,       \* embedding models a provider can be configured with
    Entries,      \* ids of the entries table
    Procs,        \* server processes on the same database
    Requests,     \* request slots, each served by one process
    Home,         \* the process that serves a request slot
    Reembedders,  \* the slots whose client calls memory.reembed
    BatchSize,    \* batch_size of memory.reembed
    MaxRestarts,  \* bound on the restarts of the processes
    None

ASSUME ConstantsAssumption ==
    /\ None \notin Models
    /\ Home \in [Requests -> Procs]
    /\ Reembedders \subseteq Requests
    /\ BatchSize \in Nat \ {0}
    /\ MaxRestarts \in Nat

VARIABLES
    versions,  \* table embedding_versions: its rows and their active flag
    provider,  \* the embedding_provider of each running process
    entries,   \* tables entries and embeddings
    op,        \* what each request slot is doing, with its local variables
    restarts

vars == <<versions, provider, entries, op, restarts>>

----------------------------------------------------------------------------
(* Types *)

RowStates == {"absent", "inactive", "active"}
Kinds == {"knowledge", "marker", "summary"}

Entry == [status : {"absent", "active", "invalidated"},
          kind   : Kinds,
          tag    : Models \cup {None},               \* embedding_version_id
          vec    : [Models -> Models \cup {None}]]   \* version -> producer

\* The points at which a request holds the event loop of its process, and
\* those at which it waits for its embedding provider.
SyncPoints  == {"recheck", "register", "list", "upsert", "write", "internal"}
AwaitPoints == {"prepare", "embed"}

Op == [pc       : {"idle"} \cup SyncPoints \cup AwaitPoints,
       kind     : {"none", "add", "search", "reembed", "invalidate", "promote"},
       version  : Models \cup {None},
       model    : Models \cup {None},   \* the provider object that embeds
       activate : BOOLEAN,
       todo     : SUBSET Entries,       \* the batch, or the row being rewritten
       failed   : SUBSET Entries,       \* failed_entry_ids
       tag      : Models \cup {None}]   \* embedding_version_id of the row read

Idle == [pc |-> "idle", kind |-> "none", version |-> None, model |-> None,
         activate |-> FALSE, todo |-> {}, failed |-> {}, tag |-> None]

\* A request that embeds or files a vector knows its version.
Versioned(o) == o.pc \in {"register", "list", "upsert"} \cup AwaitPoints
                    => o.version \in Models

TypeOK ==
    /\ versions \in [Models -> RowStates]
    /\ provider \in [Procs -> Models]
    /\ entries \in [Entries -> Entry]
    /\ op \in [Requests -> Op]
    /\ \A r \in Requests : Versioned(op[r])
    /\ restarts \in 0..MaxRestarts

NoEntry == [status |-> "absent", kind |-> "knowledge", tag |-> None,
            vec |-> [v \in Models |-> None]]

Init ==
    /\ versions = [v \in Models |-> "absent"]
    /\ provider \in [Procs -> Models]
    /\ entries = [e \in Entries |-> NoEntry]
    /\ op = [r \in Requests |-> Idle]
    /\ restarts = 0

----------------------------------------------------------------------------
(* The store *)

\* get_active_embedding_version; AtMostOneActive makes the row it picks unique.
Active == {v \in Models : versions[v] = "active"}

\* upsert_embedding_version: one transaction, the row's flag is overwritten.
Upserted(v, activate) ==
    [m \in Models |->
        IF m = v THEN (IF activate THEN "active" ELSE "inactive")
        ELSE IF activate /\ versions[m] = "active" THEN "inactive"
        ELSE versions[m]]

\* Ids that are in neither table.
Fresh == {e \in Entries : entries[e] = NoEntry}

\* list_entries_missing_embedding
Missing(v) == {e \in Entries : /\ entries[e].status = "active"
                               /\ entries[e].vec[v] = None}

\* list_embeddings without invalidated entries: what a search can return.
Searchable(v) == {e \in Entries : /\ entries[e].status = "active"
                                  /\ entries[e].kind # "marker"
                                  /\ entries[e].vec[v] # None}

\* embedding_version_drift: an active version that the provider does not have.
NoDrift(p) == Active \subseteq {provider[p]}

\* Inside a process only the request that holds the event loop moves.
CanRun(r) == \A q \in Requests : (Home[q] = Home[r] /\ q # r)
                                     => op[q].pc \notin SyncPoints

----------------------------------------------------------------------------
(* Embedding writers (add, promote_fast, import) and search *)

\* Deviation: a write always activates the provider's version.
ReadActiveSwitching(r, kind) ==
    op' = [op EXCEPT ![r] = [Idle EXCEPT !.pc = "register", !.kind = kind,
                                         !.version = provider[Home[r]],
                                         !.activate = TRUE]]

\* Deviation: the version is left out of the request.
ReadActiveUnversioned(r, kind) ==
    op' = [op EXCEPT ![r] = [Idle EXCEPT !.pc = "register", !.kind = kind,
                                         !.activate = NoDrift(Home[r])]]

\* _current_embedding_version, its read of the active row.
ReadActive(r, kind) ==
    LET p == Home[r] IN
    op' = [op EXCEPT ![r] = [Idle EXCEPT !.pc = "register", !.kind = kind,
                                         !.version = provider[p],
                                         !.activate = NoDrift(p)]]

\* add up to the read of the active version.  Its earlier returns (invalid
\* payload, policy, duplicate hash) change nothing here.
BeginWrite(r) ==
    /\ CanRun(r)
    /\ op[r].pc = "idle"
    /\ ReadActive(r, "add")
    /\ UNCHANGED <<versions, provider, entries, restarts>>

\* Deviation: search does not look for a mismatch.
BeginSearchUnchecked(r) ==
    /\ CanRun(r)
    /\ op[r].pc = "idle"
    /\ op' = [op EXCEPT ![r] = [Idle EXCEPT !.pc = "recheck", !.kind = "search"]]
    /\ UNCHANGED <<versions, provider, entries, restarts>>

\* search refuses to run when the active version is not the provider's.
BeginSearch(r) ==
    /\ CanRun(r)
    /\ op[r].pc = "idle"
    /\ NoDrift(Home[r])
    /\ op' = [op EXCEPT ![r] = [Idle EXCEPT !.pc = "recheck", !.kind = "search"]]
    /\ UNCHANGED <<versions, provider, entries, restarts>>

RecheckSearch(r) ==
    /\ op[r].pc = "recheck"
    /\ ReadActive(r, "search")
    /\ UNCHANGED <<versions, provider, entries, restarts>>

\* _current_embedding_version, its upsert, and the call of embed: the vector
\* will come from the provider the process has at this moment.
Register(r) ==
    /\ op[r].pc = "register"
    /\ versions' = Upserted(op[r].version, op[r].activate)
    /\ op' = [op EXCEPT ![r].pc = "embed", ![r].model = provider[Home[r]]]
    /\ UNCHANGED <<provider, entries, restarts>>

\* A row as add_entry_with_embedding inserts it, and as upsert_embedding
\* leaves it.
WithVector(row, v, m) == [row EXCEPT !.tag = v, !.vec[v] = m]

\* Deviation: the version is the one the process has when the vector arrives.
StoreWriteLateVersion(r) ==
    /\ CanRun(r)
    /\ op[r].pc = "embed" /\ op[r].kind = "add"
    /\ \E e \in Fresh :
         entries' = [entries EXCEPT ![e] =
                        WithVector([NoEntry EXCEPT !.status = "active"],
                                   provider[Home[r]], op[r].model)]
    /\ op' = [op EXCEPT ![r] = Idle]
    /\ UNCHANGED <<versions, provider, restarts>>

\* Deviation: the entry is committed and the transaction of its vector fails.
StoreWriteSplit(r) ==
    /\ CanRun(r)
    /\ op[r].pc = "embed" /\ op[r].kind = "add"
    /\ \E e \in Fresh :
         entries' = [entries EXCEPT ![e] =
                        [NoEntry EXCEPT !.status = "active", !.tag = op[r].version]]
    /\ op' = [op EXCEPT ![r] = Idle]
    /\ UNCHANGED <<versions, provider, restarts>>

\* The vector is there: the entry and the vector go in with one transaction.
StoreWrite(r) ==
    /\ CanRun(r)
    /\ op[r].pc = "embed" /\ op[r].kind = "add"
    /\ \E e \in Fresh :
         entries' = [entries EXCEPT ![e] =
                        WithVector([NoEntry EXCEPT !.status = "active"],
                                   op[r].version, op[r].model)]
    /\ op' = [op EXCEPT ![r] = Idle]
    /\ UNCHANGED <<versions, provider, restarts>>

\* The embedding failed or is empty, the write is a semantic duplicate, or
\* the search has read the rows of its version and answers.
Return(r) ==
    /\ CanRun(r)
    /\ op[r].pc = "embed" /\ op[r].kind \in {"add", "search"}
    /\ op' = [op EXCEPT ![r] = Idle]
    /\ UNCHANGED <<versions, provider, entries, restarts>>

----------------------------------------------------------------------------
(* reembed *)

BeginReembed(r) ==
    /\ CanRun(r)
    /\ op[r].pc = "idle" /\ r \in Reembedders
    /\ \E m \in Models, activate \in BOOLEAN :
         op' = [op EXCEPT ![r] = [Idle EXCEPT !.pc = "prepare", !.kind = "reembed",
                                              !.version = m, !.model = m,
                                              !.activate = activate]]
    /\ UNCHANGED <<versions, provider, entries, restarts>>

\* prepare() returned: the version row is written before any entry has a
\* vector for it.
RegisterReembed(r) ==
    /\ CanRun(r)
    /\ op[r].pc = "prepare"
    /\ versions' = Upserted(op[r].version, op[r].activate)
    /\ op' = [op EXCEPT ![r].pc = "list"]
    /\ UNCHANGED <<provider, entries, restarts>>

\* The batches the next query can produce: the first batch_size + |failed|
\* missing entries in the table's order, without the failed ones.
Smaller(m, n) == IF m < n THEN m ELSE n

\* Deviation: failed entries use up the limit of the query.
FetchLimitFixed(failed) == BatchSize

FetchLimit(failed) == BatchSize + Cardinality(failed)

\* Deviation: the failed entries are not left out of a batch.
BatchesWithFailed(v, failed) ==
    {b \in SUBSET Missing(v) : Cardinality(b) = Smaller(BatchSize, Cardinality(Missing(v)))}

Batches(v, failed) ==
    LET missing == Missing(v)
        Fetched == {c \in SUBSET missing :
                      Cardinality(c) = Smaller(FetchLimit(failed),
                                               Cardinality(missing))}
    IN  UNION {{b \in SUBSET (c \ failed) :
                  Cardinality(b) = Smaller(BatchSize, Cardinality(c \ failed))}
               : c \in Fetched}

NextBatch(r) ==
    /\ op[r].pc = "list"
    /\ \E b \in Batches(op[r].version, op[r].failed) :
         /\ b # {}
         /\ op' = [op EXCEPT ![r].pc = "embed", ![r].todo = b]
    /\ UNCHANGED <<versions, provider, entries, restarts>>

\* Deviation: the process keeps the provider it had.
FinishReembedUnswitched(r) ==
    /\ op[r].pc = "list"
    /\ {} \in Batches(op[r].version, op[r].failed)
    /\ op' = [op EXCEPT ![r] = Idle]
    /\ UNCHANGED <<versions, provider, entries, restarts>>

\* No pending entry: the process switches its provider, and only now.
FinishReembed(r) ==
    /\ op[r].pc = "list"
    /\ {} \in Batches(op[r].version, op[r].failed)
    /\ provider' = IF op[r].activate
                   THEN [provider EXCEPT ![Home[r]] = op[r].model]
                   ELSE provider
    /\ op' = [op EXCEPT ![r] = Idle]
    /\ UNCHANGED <<versions, entries, restarts>>

\* Deviation: an entry without a usable vector is not remembered as failed.
ReturnVectorsForgetful(r) ==
    /\ CanRun(r)
    /\ op[r].pc = "embed" /\ op[r].kind = "reembed"
    /\ \E usable \in SUBSET op[r].todo :
         op' = [op EXCEPT ![r].pc = IF usable = {} THEN "list" ELSE "upsert",
                          ![r].todo = usable]
    /\ UNCHANGED <<versions, provider, entries, restarts>>

\* Entries whose text cannot be decrypted or has no usable vector fail.
ReturnVectors(r) ==
    /\ CanRun(r)
    /\ op[r].pc = "embed" /\ op[r].kind = "reembed"
    /\ \E usable \in SUBSET op[r].todo :
         op' = [op EXCEPT ![r].pc = IF usable = {} THEN "list" ELSE "upsert",
                          ![r].todo = usable,
                          ![r].failed = @ \cup (op[r].todo \ usable)]
    /\ UNCHANGED <<versions, provider, entries, restarts>>

UpsertVector(r) ==
    /\ op[r].pc = "upsert"
    /\ \E e \in op[r].todo :
         /\ entries' = [entries EXCEPT ![e] =
                            WithVector(@, op[r].version, op[r].model)]
         /\ op' = [op EXCEPT ![r].pc = IF op[r].todo = {e} THEN "list" ELSE "upsert",
                             ![r].todo = @ \ {e}]
    /\ UNCHANGED <<versions, provider, restarts>>

\* prepare() or embed() raises: what was written stays.
AbortReembed(r) ==
    /\ CanRun(r)
    /\ op[r].pc \in AwaitPoints /\ op[r].kind = "reembed"
    /\ op' = [op EXCEPT ![r] = Idle]
    /\ UNCHANGED <<versions, provider, entries, restarts>>

----------------------------------------------------------------------------
(* invalidate and promote: read a row, write the whole row back, insert an *)
(* internal entry without a vector                                         *)

ReadRow(r) ==
    /\ CanRun(r)
    /\ op[r].pc = "idle"
    /\ \E e \in Entries \ Fresh, kind \in {"invalidate", "promote"} :
         /\ kind = "promote" => entries[e].status # "invalidated"
         /\ op' = [op EXCEPT ![r] = [Idle EXCEPT !.pc = "write", !.kind = kind,
                                                 !.todo = {e},
                                                 !.tag = entries[e].tag]]
    /\ UNCHANGED <<versions, provider, entries, restarts>>

\* update_entry: every column, the embedding version and the status included,
\* takes the value of the copy.
WriteRow(r) ==
    /\ op[r].pc = "write"
    /\ LET status == IF op[r].kind = "invalidate" THEN "invalidated" ELSE "active"
       IN  entries' = [e \in Entries |->
                          IF e \in op[r].todo
                          THEN [entries[e] EXCEPT !.status = status, !.tag = op[r].tag]
                          ELSE entries[e]]
    /\ op' = [op EXCEPT ![r].pc = "internal", ![r].todo = {}]
    /\ UNCHANGED <<versions, provider, restarts>>

\* _persist_internal_entry without an embedding: the invalidation marker, or
\* the merged summary of promote(merge=True).
InsertUnembedded(r) ==
    /\ op[r].pc = "internal"
    /\ \E e \in Fresh :
         entries' = [entries EXCEPT ![e] =
                       [NoEntry EXCEPT !.status = "active",
                                       !.kind = IF op[r].kind = "invalidate"
                                                THEN "marker" ELSE "summary"]]
    /\ op' = [op EXCEPT ![r] = Idle]
    /\ UNCHANGED <<versions, provider, restarts>>

\* promote without merge, or an internal entry the policy rejects.
SkipInsert(r) ==
    /\ op[r].pc = "internal"
    /\ op' = [op EXCEPT ![r] = Idle]
    /\ UNCHANGED <<versions, provider, entries, restarts>>

----------------------------------------------------------------------------
(* A process dies between two transactions and comes back with the model   *)
(* its configuration names by then.                                        *)

Restart(p) ==
    /\ restarts < MaxRestarts
    /\ restarts' = restarts + 1
    /\ \E m \in Models : provider' = [provider EXCEPT ![p] = m]
    /\ op' = [r \in Requests |-> IF Home[r] = p THEN Idle ELSE op[r]]
    /\ UNCHANGED <<versions, entries>>

ReembedStep(r) ==
    \/ RegisterReembed(r)
    \/ NextBatch(r)
    \/ FinishReembed(r)
    \/ ReturnVectors(r)
    \/ UpsertVector(r)

RequestStep(r) ==
    \/ RecheckSearch(r)
    \/ Register(r)
    \/ StoreWrite(r)
    \/ Return(r)
    \/ ReembedStep(r)
    \/ WriteRow(r)
    \/ InsertUnembedded(r)
    \/ SkipInsert(r)

Begin(r) == BeginWrite(r) \/ BeginSearch(r) \/ BeginReembed(r) \/ ReadRow(r)

Next ==
    \/ \E r \in Requests : Begin(r) \/ RequestStep(r) \/ AbortReembed(r)
    \/ \E p \in Procs : Restart(p)

Spec == Init /\ [][Next]_vars

\* The event loop runs a ready continuation, and a provider call returns, in
\* the end: asyncio's ready queue is first in, first out.
FairSpec == Spec /\ \A r \in Requests : SF_vars(RequestStep(r))
----------------------------------------------------------------------------
(* Properties *)

\* The store never holds two active versions, however the transactions of
\* several processes interleave: get_active_embedding_version has one answer.
AtMostOneActive == \A v, w \in Active : v = w

\* Each stored vector is tagged with the version that produced it: a provider
\* switch, a restart or another process between the choice of the version and
\* the arrival of the vector never files a vector under a foreign version.
TaggedByProducer ==
    \A e \in Entries, v \in Models : entries[e].vec[v] \in {None, v}

\* The version an entry names always has a vector of the entry, although
\* invalidate and promote write back a copy of the row that may be stale.
TagHasVector ==
    \A e \in Entries : entries[e].tag # None => entries[e].vec[entries[e].tag] # None

\* A search that was not refused embeds its query for the one active version.
SearchUsesActiveVersion ==
    [][\A r \in Requests :
          (op[r].kind = "search" /\ Register(r)) => Active' = {op[r].version}]_vars

\* A write leaves the active version alone once there is one.
WritesKeepActiveVersion ==
    [][\A r \in Requests :
          (op[r].kind = "add" /\ Register(r) /\ Active # {}) => Active' = Active]_vars

\* A reembed that activates a version and is the last one to finish ends the
\* mismatch of its process.
ReembedResolvesMismatch ==
    [][\A r \in Requests :
          (/\ FinishReembed(r) /\ op[r].activate
           /\ \A q \in Requests \ {r} : op[q].kind # "reembed")
              => Active' = {provider'[Home[r]]}]_vars

\* When a reembed finishes, the entries still without a vector are the ones
\* it tried and could not embed.
ReembedLeavesOnlyFailures ==
    [][\A r \in Requests :
          FinishReembed(r) => Missing(op[r].version) \subseteq op[r].failed]_vars

\* What a reembed may still try: its batch, and what has no vector of its
\* version and has not failed yet, rows to come included.
Ahead(r) == op[r].todo \cup {e \in Entries : /\ entries[e].vec[op[r].version] = None
                                            /\ e \notin op[r].failed}

Stage == [prepare |-> 3, list |-> 2, embed |-> 1, upsert |-> 0]

Work(r) == 4 * Cardinality(Ahead(r)) + Stage[op[r].pc]

\* Every step of a reembed leaves it less to do, and no step of other requests
\* or processes leaves it more: the loop of memory.reembed is bounded, although
\* it asks again for entries that failed and other entries come in meanwhile.
ReembedAdvances ==
    [][\A r \in Requests :
          (op[r].kind = "reembed" /\ op'[r].kind = "reembed") =>
             /\ Work(r)' <= Work(r)
             /\ op'[r] # op[r] => Work(r)' < Work(r)]_vars

\* A reembed ends, although entries it cannot embed stay in its query.
ReembedTerminates ==
    \A r \in Requests : op[r].kind = "reembed" ~> op[r].kind # "reembed"

\* No reembed is running and no process has a mismatch.
Settled == /\ \A r \in Requests : op[r].kind # "reembed"
           /\ \A p \in Procs : Active = {provider[p]}

Live == {e \in Entries : entries[e].status = "active" /\ entries[e].kind # "marker"}

\* README: a write without a vector is rejected; so the entry that an accepted
\* memory.add inserts is found by the next search, if that is not refused.
AddedEntrySearchable ==
    [][\A r \in Requests :
          (StoreWrite(r) /\ Settled') =>
             \A v \in Active' : Live' \ Live \subseteq Searchable(v)']_vars

\* README: a mismatch refuses search until memory.reembed activates a version;
\* nothing else but a restart with another model ends it.
RefusalLastsUntilReembed ==
    [][\A p \in Procs :
          (~NoDrift(p) /\ NoDrift(p)') =>
             \/ restarts' # restarts
             \/ \E r \in Requests : op[r].kind = "reembed" /\ op[r].activate]_vars
----------------------------------------------------------------------------
(* The inductive strengthening of AtMostOneActive, TaggedByProducer and     *)
(* TagHasVector.                                                            *)

\* One request at a time holds the event loop of a process.
LoopExclusive ==
    \A q, r \in Requests :
        (Home[q] = Home[r] /\ op[q].pc \in SyncPoints /\ op[r].pc \in SyncPoints) => q = r

\* From the choice of its version to the call of embed a request sees the same
\* provider; after the call, the model that embeds is the version's.
VersionOfProvider ==
    \A r \in Requests :
        /\ op[r].pc = "register" => op[r].version = provider[Home[r]]
        /\ op[r].pc \in AwaitPoints \cup {"list", "upsert"} => op[r].model = op[r].version

\* The copy of a row that is about to be written back may be stale, but the
\* version it names still has its vector.
CopiedTagHasVector ==
    \A r \in Requests, e \in Entries :
        (op[r].pc = "write" /\ e \in op[r].todo /\ op[r].tag # None)
            => entries[e].vec[op[r].tag] # None

IInv == /\ TypeOK /\ AtMostOneActive /\ TaggedByProducer /\ TagHasVector
        /\ LoopExclusive /\ VersionOfProvider /\ CopiedTagHasVector
----------------------------------------------------------------------------
(* The inductive strengthening of the properties of search, add and reembed, *)
(* for one process.                                                         *)

OneHome == \A q, r \in Requests : Home[q] = Home[r]

OneReembedder == \A q, r \in Reembedders : q = r

\* What a request has read of the active version still holds while it has the
\* event loop, for the provider of its process and the active versions.
ReadHolds(o, own, active) ==
    /\ o.pc = "recheck" => o.kind = "search" /\ active \subseteq {own}
    /\ o.pc = "register" => /\ o.kind \in {"add", "search"}
                            /\ o.activate <=> (active \subseteq {own})
                            /\ o.kind = "search" => o.activate
    /\ o.pc \in {"prepare", "list", "upsert"} => o.kind = "reembed"

ReadsHold == \A r \in Requests : ReadHolds(op[r], provider[Home[r]], Active)

\* What a reembed activates stays active until it is over, if no other one overlaps.
ActivationHolds(r, o, active) ==
    o.kind = "reembed" =>
       /\ r \in Reembedders
       /\ (OneReembedder /\ o.activate /\ o.pc \in {"list", "embed", "upsert"})
             => active = {o.version}

ActivationsHold == \A r \in Requests : ActivationHolds(r, op[r], Active)

SwitchInv == ReadsHold /\ ActivationsHold
----------------------------------------------------------------------------
(* The inductive strengthening of ReembedAdvances. *)

\* A reembed embeds and files a batch that is not empty.
BatchHolds(o) ==
    /\ o.pc \in {"prepare", "list", "upsert"} => o.kind = "reembed"
    /\ o.kind = "reembed" => o.pc \in DOMAIN Stage
    /\ o.kind = "reembed" /\ o.pc \in {"embed", "upsert"} => o.todo # {}

BatchesHold == \A r \in Requests : BatchHolds(op[r])
=============================================================================
