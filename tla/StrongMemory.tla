---------------------------- MODULE StrongMemory ----------------------------
(***************************************************************************)
(* The entries of the strong memory inside one scope: the write path of    *)
(* memory.add and memory.import with its two duplicate checks, and the     *)
(* governance calls memory.invalidate and memory.promote with the internal *)
(* entries they insert.                                                    *)
(*                                                                         *)
(* Granularity.  A store call is one transaction and one step.  A request  *)
(* keeps the event loop of its process from await to await (CanRun); the   *)
(* only await is the embedding call of a write, which lies between the     *)
(* hash check and the semantic check.                                      *)
(*                                                                         *)
(* A write is a list of rows: the one row of memory.add has no id, the     *)
(* rows of an import carry the ids, status and type of their file.  The    *)
(* embedding version is EmbeddingVersions' subject: here there is one, and *)
(* an entry has a vector of it or none.  A content stands for the raw text, *)
(* which is what is hashed and embedded; Near are the pairs whose vectors  *)
(* reach the similarity threshold.  Audit rows about rejected and duplicate *)
(* writes are left out: they name no entry.                                *)
(***************************************************************************)
EXTENDS Naturals, Sequences, FiniteSets, FiniteSetsExt

CONSTANTS
    Entries,        \* ids of the entries table
    Contents,       \* raw texts
    Near,           \* pairs of contents within dedup_semantic_threshold
    Agents,
    Procs,          \* server processes on the same database
    Requests,       \* request slots, each served by one process
    Home,           \* the process that serves a request slot
    Agent,          \* the agent a request slot acts for
    Files,          \* the row lists clients import
    TargetLists,    \* target_ids and entry_ids clients pass
    Texts,          \* reasons and summaries; Blank: only white space, None: left out
    HashDedup,      \* dedup_hash_enabled
    SemanticDedup,  \* dedup_semantic_enabled
    MaxRestarts,    \* bound on the restarts of the processes
    Blank,
    None

\* A row of an import file or of memory.add, which leaves the id to the server.
InputRow == [id       : Entries \cup {None},
             type     : {"fact", "invalidated"},
             status   : {"active", "invalidated"},
             content  : Contents,
             owner    : Agents \cup {None},   \* None: not private
             promoted : BOOLEAN]

ASSUME StrongAssumption ==
    /\ None \notin Entries /\ None \notin Contents /\ None \notin Agents
    /\ Blank \notin Contents /\ Blank # None
    /\ Near \subseteq Contents \X Contents
    /\ \A c \in Contents : <<c, c>> \in Near
    /\ \A c, d \in Contents : <<c, d>> \in Near => <<d, c>> \in Near
    /\ Home \in [Requests -> Procs] /\ Agent \in [Requests -> Agents]
    /\ Files \subseteq Seq(InputRow) \ {<<>>}
    /\ TargetLists \subseteq Seq(Entries) \ {<<>>}
    /\ Texts \subseteq Contents \cup {Blank, None}
    /\ HashDedup \in BOOLEAN /\ SemanticDedup \in BOOLEAN
    /\ MaxRestarts \in Nat

VARIABLES
    entries,  \* tables entries, links and embeddings
    audited,  \* table audit_log: the actions recorded about an entry
    op,       \* what each request slot is doing, with its local variables
    restarts

vars == <<entries, audited, op, restarts>>

----------------------------------------------------------------------------
(* Types *)

Row == [status   : {"absent", "active", "invalidated"},
        type     : {"fact", "invalidated"},        \* EntryType.INVALIDATED: a marker
        content  : Contents \cup {None},
        owner    : Agents \cup {None},
        promoted : BOOLEAN,                        \* it has the target tier
        vec      : BOOLEAN,                        \* it has an embedding
        links    : SUBSET Entries]

NoRow == [status |-> "absent", type |-> "fact", content |-> None, owner |-> None,
          promoted |-> FALSE, vec |-> FALSE, links |-> {}]

AuditActions == {"accepted", "accepted_internal", "invalidate", "promote", "promote_merge"}

AtRow      == {"row", "embed", "insert", "auditWrite"}
AtTarget   == {"read", "write", "marker", "auditMarker", "auditTarget"}
AtMerge    == {"merge", "auditSummary", "auditMerge"}
SyncPoints == (AtRow \ {"embed"}) \cup AtTarget \cup AtMerge

Op == [pc      : {"idle"} \cup AtRow \cup AtTarget \cup AtMerge,
       kind    : {"none", "write", "invalidate", "promote"},
       rows    : Seq(InputRow),               \* the rows still to be written
       targets : Seq(Entries),
       n       : Nat,                         \* the target under way
       text    : Contents \cup {Blank, None}, \* the reason, or the summary
       copy    : Row,                         \* the target as it was read
       done    : SUBSET Entries,              \* the targets that were changed
       entry   : Entries \cup {None}]         \* the entry that was inserted

Idle == [pc |-> "idle", kind |-> "none", rows |-> <<>>, targets |-> <<>>, n |-> 1,
         text |-> None, copy |-> NoRow, done |-> {}, entry |-> None]

\* The points at which a row, a target or an inserted entry is at hand.
WellPlaced(o) ==
    /\ o.pc \in AtRow => o.kind = "write" /\ o.rows # <<>>
    /\ o.pc \in AtTarget => /\ o.kind \in {"invalidate", "promote"}
                            /\ o.n \in DOMAIN o.targets
    /\ o.pc \in {"write", "marker"} => o.copy.status # "absent"
    /\ o.pc \in {"marker", "auditMarker"} => o.kind = "invalidate"
    /\ o.pc \in AtMerge => o.kind = "promote" /\ o.done # {} /\ o.text # None
    /\ o.pc \in {"auditWrite", "auditMarker", "auditSummary", "auditMerge"}
          => o.entry # None

TypeOK ==
    /\ entries \in [Entries -> Row]
    /\ audited \in [Entries -> SUBSET AuditActions]
    /\ op \in [Requests -> Op]
    /\ \A r \in Requests : WellPlaced(op[r])
    /\ restarts \in 0..MaxRestarts

Init ==
    /\ entries = [e \in Entries |-> NoRow]
    /\ audited = [e \in Entries |-> {}]
    /\ op = [r \in Requests |-> Idle]
    /\ restarts = 0

----------------------------------------------------------------------------
(* The store *)

\* Inside a process only the request that holds the event loop moves.
CanRun(r) == \A q \in Requests : (Home[q] = Home[r] /\ q # r)
                                     => op[q].pc \notin SyncPoints

Exists(e) == entries[e].status # "absent"

\* Ids of imported rows, and those a server can still make up.
FileRows == UNION {{rows[i] : i \in DOMAIN rows} : rows \in Files}
Filed    == {row.id : row \in FileRows} \ {None}
Fresh    == {e \in Entries \ Filed : ~Exists(e)}

\* Bound: a request begins when there are ids for all that it may insert.
Needs(o) ==
    CASE o.kind = "write"      -> Cardinality({i \in DOMAIN o.rows : o.rows[i].id = None})
      [] o.kind = "invalidate" -> Len(o.targets) + 1 - o.n
      [] o.kind = "promote"    -> IF o.text = None THEN 0 ELSE 1
      [] o.kind = "none"       -> 0

HasRoom(o) ==
    Needs(o) + MapThenSumSet(LAMBDA r : Needs(op[r]), Requests) <= Cardinality(Fresh)

Readable(r, row) == row.owner \in {None, Agent[r]}

\* find_by_hash: whoever owns the entry, and markers and summaries included.
HashDuplicates(c) == {e \in Entries : entries[e].status = "active"
                                      /\ entries[e].content = c}

\* similarity_search: entries with a vector, without the markers.
SemanticDuplicates(c) ==
    {e \in Entries : /\ entries[e].status = "active"
                     /\ entries[e].type = "fact"
                     /\ entries[e].vec
                     /\ <<entries[e].content, c>> \in Near}

Insert(e, row) == entries' = [entries EXCEPT ![e] = row]

----------------------------------------------------------------------------
(* add and import *)

NewRows == {<<[id |-> None, type |-> "fact", status |-> "active", content |-> c,
               owner |-> o, promoted |-> FALSE]>>
            : c \in Contents, o \in Agents \cup {None}}

\* A client passes a new entry or a file.
BeginWrite(r) ==
    /\ CanRun(r)
    /\ op[r].pc = "idle"
    /\ \E rows \in Files \cup NewRows :
         LET o == [Idle EXCEPT !.pc = "row", !.kind = "write", !.rows = rows] IN
         HasRoom(o) /\ op' = [op EXCEPT ![r] = o]
    /\ UNCHANGED <<entries, audited, restarts>>

AfterRow(o) ==
    IF Len(o.rows) = 1 THEN Idle
    ELSE [o EXCEPT !.pc = "row", !.rows = Tail(@), !.entry = None]

\* add up to its await.  A private row of another agent raises PermissionError,
\* which ends an import; a duplicate hash is answered at once.
CheckRow(r) ==
    /\ op[r].pc = "row"
    /\ LET row == Head(op[r].rows) IN
       op' = [op EXCEPT ![r] =
                IF ~Readable(r, row) THEN Idle
                ELSE IF HashDedup /\ HashDuplicates(row.content) # {} THEN AfterRow(@)
                ELSE [@ EXCEPT !.pc = "embed"]]
    /\ UNCHANGED <<entries, audited, restarts>>

\* The policy or the validation rejects the row, or it cannot be decrypted.
RejectRow(r) ==
    /\ op[r].pc = "row"
    /\ op' = [op EXCEPT ![r] = AfterRow(@)]
    /\ UNCHANGED <<entries, audited, restarts>>

\* Deviation: the semantic check is left to the search before the await.
CheckDuplicatesSkipped(r) ==
    /\ CanRun(r)
    /\ op[r].pc = "embed"
    /\ op' = [op EXCEPT ![r].pc = "insert"]
    /\ UNCHANGED <<entries, audited, restarts>>

\* The vector is there: a semantic duplicate is not stored.
CheckDuplicates(r) ==
    /\ CanRun(r)
    /\ op[r].pc = "embed"
    /\ LET c == Head(op[r].rows).content IN
       op' = [op EXCEPT ![r] =
                IF SemanticDedup /\ SemanticDuplicates(c) # {} THEN AfterRow(@)
                ELSE [@ EXCEPT !.pc = "insert"]]
    /\ UNCHANGED <<entries, audited, restarts>>

\* The embedding fails or is empty, or the self-evaluation is incomplete.
RejectEmbedding(r) ==
    /\ CanRun(r)
    /\ op[r].pc = "embed"
    /\ op' = [op EXCEPT ![r] = AfterRow(@)]
    /\ UNCHANGED <<entries, audited, restarts>>

Stored(row) == [status |-> row.status, type |-> row.type, content |-> row.content,
                owner |-> row.owner, promoted |-> row.promoted, vec |-> TRUE,
                links |-> {}]

\* Deviation: the row of an import replaces the entry that has its id.
StoreRowReplacing(r) ==
    /\ op[r].pc = "insert"
    /\ LET row == Head(op[r].rows) IN
       \E e \in IF row.id = None THEN Fresh ELSE {row.id} :
         /\ Insert(e, Stored(row))
         /\ op' = [op EXCEPT ![r].pc = "auditWrite", ![r].entry = e]
    /\ UNCHANGED <<audited, restarts>>

\* add_entry_with_embedding
StoreRow(r) ==
    /\ op[r].pc = "insert"
    /\ LET row == Head(op[r].rows) IN
       \E e \in IF row.id = None THEN Fresh ELSE {row.id} :
         /\ ~Exists(e)
         /\ Insert(e, Stored(row))
         /\ op' = [op EXCEPT ![r].pc = "auditWrite", ![r].entry = e]
    /\ UNCHANGED <<audited, restarts>>

\* The id of an imported row is taken: IntegrityError ends the import.
StoreRowFails(r) ==
    /\ op[r].pc = "insert"
    /\ LET id == Head(op[r].rows).id IN id # None /\ Exists(id)
    /\ op' = [op EXCEPT ![r] = Idle]
    /\ UNCHANGED <<entries, audited, restarts>>

AuditWrite(r) ==
    /\ op[r].pc = "auditWrite"
    /\ audited' = [audited EXCEPT ![op[r].entry] = @ \cup {"accepted"}]
    /\ op' = [op EXCEPT ![r] = AfterRow(@)]
    /\ UNCHANGED <<entries, restarts>>

----------------------------------------------------------------------------
(* invalidate and promote *)

Target(o) == o.targets[o.n]

\* A promotion may come without a summary, an invalidation has a reason.
BeginGovernance(r) ==
    /\ CanRun(r)
    /\ op[r].pc = "idle"
    /\ \E kind \in {"invalidate", "promote"}, targets \in TargetLists, text \in Texts :
         LET o == [Idle EXCEPT !.pc = "read", !.kind = kind,
                               !.targets = targets, !.text = text] IN
         /\ kind = "invalidate" => text # None
         /\ HasRoom(o) /\ op' = [op EXCEPT ![r] = o]
    /\ UNCHANGED <<entries, audited, restarts>>

\* Deviation: a summary is merged although nothing was promoted.
AfterTargetMerging(o) ==
    LET clean == [o EXCEPT !.copy = NoRow, !.entry = None]
    IN  IF o.n < Len(o.targets) THEN [clean EXCEPT !.pc = "read", !.n = @ + 1]
        ELSE IF o.kind = "promote" /\ o.text # None THEN [clean EXCEPT !.pc = "merge"]
        ELSE Idle

\* The loop goes on; promote merges what it has promoted when it has a summary.
AfterTarget(o) ==
    LET clean == [o EXCEPT !.copy = NoRow, !.entry = None]
    IN  IF o.n < Len(o.targets) THEN [clean EXCEPT !.pc = "read", !.n = @ + 1]
        ELSE IF o.kind = "promote" /\ o.done # {} /\ o.text # None
             THEN [clean EXCEPT !.pc = "merge"]
        ELSE Idle

Skipped(r, row) == \/ row.status = "absent"
                   \/ ~Readable(r, row)
                   \/ op[r].kind = "promote" /\ row.status = "invalidated"

ReadTarget(r) ==
    /\ op[r].pc = "read"
    /\ LET row == entries[Target(op[r])] IN
       op' = [op EXCEPT ![r] =
                IF Skipped(r, row) THEN AfterTarget(@)
                ELSE [@ EXCEPT !.pc = "write", !.copy = row]]
    /\ UNCHANGED <<entries, audited, restarts>>

\* update_entry writes the whole changed copy back.
WriteTarget(r) ==
    /\ op[r].pc = "write"
    /\ LET copy == op[r].copy IN
       Insert(Target(op[r]),
              IF op[r].kind = "invalidate" THEN [copy EXCEPT !.status = "invalidated"]
              ELSE [copy EXCEPT !.promoted = TRUE])
    /\ op' = [op EXCEPT ![r].pc = IF op[r].kind = "invalidate"
                                  THEN "marker" ELSE "auditTarget",
                        ![r].done = @ \cup {Target(op[r])}]
    /\ UNCHANGED <<audited, restarts>>

\* classify_internal_write wants a reason and a content that are not blank; both
\* come from the text of the call.
AcceptsInternal(text) == text # Blank

\* _persist_internal_entry inserts an entry without a vector, or raises and the
\* request ends where it is.
InsertInternal(r, row, pc) ==
    \/ /\ AcceptsInternal(op[r].text)
       /\ \E e \in Fresh :
            /\ Insert(e, row)
            /\ op' = [op EXCEPT ![r].pc = pc, ![r].entry = e]
    \/ /\ ~AcceptsInternal(op[r].text)
       /\ op' = [op EXCEPT ![r] = Idle]
       /\ UNCHANGED entries

\* Deviation: the marker is left out for the targets after the first one.
InsertMarkerOnce(r) ==
    /\ op[r].pc = "marker"
    /\ IF op[r].n = 1
       THEN InsertInternal(r, [NoRow EXCEPT !.status = "active", !.type = "invalidated",
                                            !.content = op[r].text,
                                            !.owner = op[r].copy.owner,
                                            !.promoted = TRUE,
                                            !.links = {Target(op[r])}], "auditMarker")
       ELSE op' = [op EXCEPT ![r].pc = "auditTarget"] /\ UNCHANGED entries
    /\ UNCHANGED <<audited, restarts>>

\* Deviation: the marker is shared, whoever owns the invalidated entry.
InsertMarkerShared(r) ==
    /\ op[r].pc = "marker"
    /\ InsertInternal(r, [NoRow EXCEPT !.status = "active", !.type = "invalidated",
                                       !.content = op[r].text,
                                       !.promoted = TRUE,
                                       !.links = {Target(op[r])}], "auditMarker")
    /\ UNCHANGED <<audited, restarts>>

\* The marker has the owner of the invalidated entry and the highest tier.
InsertMarker(r) ==
    /\ op[r].pc = "marker"
    /\ InsertInternal(r, [NoRow EXCEPT !.status = "active", !.type = "invalidated",
                                       !.content = op[r].text,
                                       !.owner = op[r].copy.owner,
                                       !.promoted = TRUE,
                                       !.links = {Target(op[r])}], "auditMarker")
    /\ UNCHANGED <<audited, restarts>>

\* The write_attempt row of the internal entry.
AuditInternal(r) ==
    /\ op[r].pc \in {"auditMarker", "auditSummary"}
    /\ audited' = [audited EXCEPT ![op[r].entry] = @ \cup {"accepted_internal"}]
    /\ op' = [op EXCEPT ![r].pc = IF @ = "auditMarker" THEN "auditTarget"
                                  ELSE "auditMerge"]
    /\ UNCHANGED <<entries, restarts>>

AuditTarget(r) ==
    /\ op[r].pc = "auditTarget"
    /\ audited' = [audited EXCEPT ![Target(op[r])] = @ \cup {op[r].kind}]
    /\ op' = [op EXCEPT ![r] = AfterTarget(@)]
    /\ UNCHANGED <<entries, restarts>>

\* The summary is shared, whoever owns what it consolidates.
InsertSummary(r) ==
    /\ op[r].pc = "merge"
    /\ InsertInternal(r, [NoRow EXCEPT !.status = "active", !.content = op[r].text,
                                       !.promoted = TRUE, !.links = op[r].done],
                      "auditSummary")
    /\ UNCHANGED <<audited, restarts>>

AuditMerge(r) ==
    /\ op[r].pc = "auditMerge"
    /\ audited' = [audited EXCEPT ![op[r].entry] = @ \cup {"promote_merge"}]
    /\ op' = [op EXCEPT ![r] = Idle]
    /\ UNCHANGED <<entries, restarts>>

----------------------------------------------------------------------------
\* A process dies between two transactions.
Restart(p) ==
    /\ restarts < MaxRestarts
    /\ restarts' = restarts + 1
    /\ op' = [r \in Requests |-> IF Home[r] = p THEN Idle ELSE op[r]]
    /\ UNCHANGED <<entries, audited>>

WriteStep(r) ==
    \/ CheckRow(r)
    \/ RejectRow(r)
    \/ CheckDuplicates(r)
    \/ RejectEmbedding(r)
    \/ StoreRow(r)
    \/ StoreRowFails(r)
    \/ AuditWrite(r)

GovernanceStep(r) ==
    \/ ReadTarget(r)
    \/ WriteTarget(r)
    \/ InsertMarker(r)
    \/ AuditInternal(r)
    \/ AuditTarget(r)
    \/ InsertSummary(r)
    \/ AuditMerge(r)

Next ==
    \/ \E r \in Requests :
         BeginWrite(r) \/ BeginGovernance(r) \/ WriteStep(r) \/ GovernanceStep(r)
    \/ \E p \in Procs : Restart(p)

Spec == Init /\ [][Next]_vars
----------------------------------------------------------------------------
(* Properties *)

Stores == {e \in Entries : /\ entries[e].status = "active"
                           /\ entries[e].type = "fact"
                           /\ entries[e].vec}

\* The facts that adds and imports of one process have stored differ from each
\* other, although writes of near contents overlap at their embedding calls:
\* the semantic check is made after the await, on the event loop's time.
FactsDiffer ==
    \A d, e \in Stores : <<entries[d].content, entries[e].content>> \in Near => d = e

\* An invalidated entry is never active again: not through a promotion of it,
\* nor through an import of a file that still has it as active.
InvalidatedStaysInvalidated ==
    [][\A e \in Entries : entries[e].status = "invalidated"
                             => entries'[e].status = "invalidated"]_vars

\* What a merge consolidates has been promoted and is still active when the
\* summary goes in, also when one request names an entry twice.
SummaryCoversPromoted ==
    [][\A r \in Requests :
          InsertSummary(r) =>
             \A e \in op[r].done : entries[e].promoted /\ entries[e].status = "active"]_vars

\* The read, write, marker and summary steps of one process add up to the
\* promise of GovernedMemory: governance calls that write back whole rows never
\* alter what another call wrote, nothing near a stored fact gets in over an
\* await, and markers and summaries go in for entries that are as they claim.
Promise == INSTANCE GovernedMemory WITH memory <- entries

ImplementsPromise == Promise!Spec

\* What another database has invalidated.
BroughtIn == {row.id : row \in {row \in FileRows : row.status = "invalidated"}}

Marked(e) == \E m \in Entries : Exists(m) /\ entries[m].type = "invalidated"
                                          /\ e \in entries[m].links

Traced(e) == "invalidate" \in audited[e] /\ Marked(e)

\* While no process has died, an entry that memory.invalidate took out has,
\* once the request is over, a marker that gives the reason and a row in the
\* audit log, also when requests on the same entry overlap.  An import may bring
\* in entries that another database has invalidated.
InvalidationTraced ==
    restarts = 0 =>
    \A e \in Entries \ BroughtIn :
       (entries[e].status = "invalidated" /\ \A r \in Requests : e \notin op[r].done) => Traced(e)

----------------------------------------------------------------------------
(* The inductive strengthening of the properties of one process.            *)

\* One process serves every request.
OneHome == \A q, r \in Requests : Home[q] = Home[r]

\* One request at a time holds the event loop of a process.
LoopExclusive ==
    \A q, r \in Requests :
        (Home[q] = Home[r] /\ op[q].pc \in SyncPoints /\ op[r].pc \in SyncPoints) => q = r

\* The copy of a target about to be written back is the row, and promote has
\* not taken up an invalidated one.
FreshCopies ==
    \A r \in Requests :
        op[r].pc = "write" => /\ op[r].copy = entries[Target(op[r])]
                              /\ op[r].kind = "promote" => op[r].copy.status = "active"

\* A row about to be inserted has no near fact.
InsertsNew ==
    \A r \in Requests :
        op[r].pc = "insert" => SemanticDuplicates(Head(op[r].rows).content) = {}

\* A request that is about to insert a marker has taken its target out, and the
\* targets a promotion has done are promoted and active while it runs.
TargetsHold ==
    \A r \in Requests :
        /\ op[r].kind = "invalidate" => op[r].text # None
        /\ op[r].pc = "marker" =>
              /\ entries[Target(op[r])].status = "invalidated"
              /\ entries[Target(op[r])].owner = op[r].copy.owner
        /\ op[r].kind = "promote" /\ op[r].pc # "idle" =>
              \A e \in op[r].done : entries[e].promoted /\ entries[e].status = "active"

LoopInv == TypeOK /\ LoopExclusive /\ FreshCopies /\ TargetsHold
IInv    == LoopInv /\ InsertsNew /\ FactsDiffer

----------------------------------------------------------------------------
(* The inductive strengthening of InvalidationTraced, for any processes.    *)

\* Every invalidation gives a reason, and every invalidated row of a file its id.
WellFormedCalls == Blank \notin Texts /\ None \notin BroughtIn

\* Type and links of an entry never change, so an old copy has them too.
CopiesKeepLinks ==
    \A r \in Requests :
        op[r].pc = "write" =>
            LET row == entries[Target(op[r])] IN
            /\ row.status # "absent"
            /\ op[r].copy.type = row.type /\ op[r].copy.links = row.links
            /\ op[r].kind = "promote" => op[r].copy.status = "active"

RowsAsFiled ==
    \A r \in Requests : \A i \in DOMAIN op[r].rows :
        op[r].rows[i].status = "invalidated" => op[r].rows[i].id \in BroughtIn

\* The targets of an invalidation are traced, up to the one it is at.
TracedSoFar ==
    \A r \in Requests : op[r].kind = "invalidate" =>
        /\ op[r].text # Blank
        /\ \A e \in op[r].done :
              \/ Traced(e)
              \/ e = Target(op[r]) /\ op[r].pc = "marker"
              \/ e = Target(op[r]) /\ op[r].pc \in {"auditMarker", "auditTarget"} /\ Marked(e)

\* What is neither traced nor brought in is in the hands of an invalidation.
InvalidatedByCall ==
    restarts = 0 =>
    \A e \in Entries \ BroughtIn : entries[e].status = "invalidated" =>
        Traced(e) \/ \E r \in Requests : op[r].kind = "invalidate" /\ e \in op[r].done

TraceInv == CopiesKeepLinks /\ RowsAsFiled /\ TracedSoFar /\ InvalidatedByCall
=============================================================================
