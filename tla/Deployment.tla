----------------------------- MODULE Deployment -----------------------------
(***************************************************************************)
(* The server processes of one installation and what they share: the       *)
(* database, the salt file beside it, the files of the exchange directory  *)
(* and the audit log, which a client polls.  Processes start and stop, add *)
(* and import entries, some of them encrypted, and export them.            *)
(*                                                                         *)
(* Granularity.  A store call is one transaction and one step, a file      *)
(* operation is one step.  A request keeps the event loop of its process   *)
(* from await to await (CanRun); the only await is the embedding call of a *)
(* write.  The start of a process interleaves with everything.             *)
(*                                                                         *)
(* StrongMemory has the rows of an import one by one, with their duplicate *)
(* checks in full: here an entry has a content of its own, so a row is a   *)
(* duplicate when its entry is stored.  EmbeddingVersions has the versions *)
(* in full: here RegisterVersion and FileVector stand for a reembed that   *)
(* does not activate, and no entry is invalidated.                         *)
(***************************************************************************)
EXTENDS Naturals, Sequences, FiniteSets, PersistencePolicy

CONSTANTS
    Procs,            \* server processes of the installation
    Loopback,         \* those bound to a loopback host
    WithToken,        \* those with an API token
    Requests,         \* client slots
    Bearers,          \* the slots whose client sends the token
    Entries,          \* entries, each with a content of its own
    Inherited,        \* entries stored before the salt file was introduced
    Sensitive,        \* entries with a sensitive tag
    SignalsOf,        \* what the persistence policy sees in a content
    Salts,            \* what os.urandom draws
    Legacy,           \* the key of the static salt
    Foreign,          \* the key of another installation
    ForeignRows,      \* rows of an export of another installation
    Versions,         \* embedding versions
    Current,          \* the version of the provider of the processes
    Watched,          \* the kinds of events the audit client filters for
    PageLimit,        \* its limit
    MaxRequests,      \* bound on the requests that begin
    MaxStops,         \* bound on the stops of processes
    Plain,
    None

Keys == Salts \cup {Legacy, Foreign}

\* An exported row: its entry and the key its content is encrypted with.
ExportRow == [entry : Entries, key : Keys \cup {Plain}]

EventKinds == {"accepted", "rejected", "duplicate", "degraded", "export", "import"}

ASSUME DeploymentAssumption ==
    /\ Loopback \subseteq Procs /\ WithToken \subseteq Procs
    /\ Bearers \subseteq Requests
    /\ Inherited \subseteq Entries /\ Sensitive \subseteq Entries
    /\ SignalsOf \in [Entries -> SUBSET Signals]
    /\ Legacy \notin Salts /\ Foreign \notin Salts \cup {Legacy}
    /\ Plain \notin Keys
    /\ None \notin Keys \cup {Plain} /\ None \notin Procs
    /\ {"absent", "empty"} \cap Keys = {}
    /\ ForeignRows \subseteq [entry : Entries \ Inherited, key : {Foreign, Legacy, Plain}]
    /\ Current \in Versions
    /\ Watched \subseteq EventKinds
    /\ PageLimit \in Nat \ {0}
    /\ MaxRequests \in Nat /\ MaxStops \in Nat

VARIABLES
    salt,      \* the salt file
    proc,      \* where each process is, and the key it encrypts with
    versions,  \* table embedding_versions
    entries,   \* tables entries and embeddings
    jsonl,     \* the .jsonl file each client exports to
    backup,    \* the SQLite file each client exports to
    log,       \* table audit_log; an id is a position
    cursor,    \* the after_id of the audit client
    seen,      \* ids the audit client has received
    op,        \* what each client slot is doing, with its local variables
    begun,
    stops

vars == <<salt, proc, versions, entries, jsonl, backup, log, cursor, seen, op, begun, stops>>

----------------------------------------------------------------------------
(* Types *)

ProcState == [pc  : {"down", "find", "create", "write", "read", "up"},
              key : Salts \cup {None}]

Row   == [key : Keys \cup {Plain, None}, vecs : SUBSET Versions]
NoRow == [key |-> None, vecs |-> {}]

Counts == [imported : Nat, duplicates : Nat, rejected : Nat]
Zero   == [imported |-> 0, duplicates |-> 0, rejected |-> 0]
Event  == [by : Requests, kind : EventKinds, counts : Counts]

\* A database that an export has built: entries, vectors and versions.
Database == [rows : SUBSET ExportRow, vecs : SUBSET (Entries \X Versions),
             versions : SUBSET Versions]
NoDatabase == [rows |-> {}, vecs |-> {}, versions |-> {}]

SyncPoints == {"row", "insert", "degraded", "audit", "finish",
               "read", "truncate", "write", "versions", "vectors", "fill", "replace",
               "auditExport"}

Op == [pc       : {"idle", "embed"} \cup SyncPoints,
       proc     : Procs \cup {None},
       kind     : {"none", "add", "import", "jsonl", "sqlite"},
       todo     : SUBSET ExportRow,        \* rows still to be imported or written
       row      : ExportRow \cup {None},   \* the row at hand
       outcome  : EventKinds \cup {None},
       counts   : Counts,
       base     : Nat,                     \* Len(log) when the request began
       tmp      : Database]                \* what an export has read

Idle == [pc |-> "idle", proc |-> None, kind |-> "none", todo |-> {}, row |-> None,
         outcome |-> None, counts |-> Zero, base |-> 0, tmp |-> NoDatabase]

Up == {p \in Procs : proc[p].pc = "up"}

\* A request at work has a process, and at most steps a row.
WellPlaced(o) ==
    /\ o.pc # "idle" => o.proc \in Up
    /\ o.pc \in {"embed", "insert", "degraded", "audit"} => o.row \in ExportRow
    /\ o.pc = "audit" => o.outcome \in {"accepted", "rejected", "duplicate"}

TypeOK ==
    /\ salt \in {"absent", "empty"} \cup Salts
    /\ proc \in [Procs -> ProcState]
    /\ \A p \in Up : proc[p].key \in Salts
    /\ versions \subseteq Versions
    /\ entries \in [Entries -> Row]
    /\ jsonl \in [Requests -> SUBSET ExportRow]
    /\ backup \in [Requests -> Database \cup {None}]
    /\ log \in Seq(Event)
    /\ cursor \in 0..Len(log)
    /\ seen \subseteq 1..Len(log)
    /\ op \in [Requests -> Op]
    /\ \A r \in Requests : WellPlaced(op[r])
    /\ begun \in 0..MaxRequests
    /\ stops \in 0..MaxStops

Init ==
    /\ salt = "absent"
    /\ proc = [p \in Procs |-> [pc |-> "down", key |-> None]]
    /\ versions = IF Inherited = {} THEN {} ELSE {Current}
    /\ entries = [e \in Entries |-> IF e \in Inherited
                                    THEN [key |-> Legacy, vecs |-> {Current}] ELSE NoRow]
    /\ jsonl = [r \in Requests |-> {}]
    /\ backup = [r \in Requests |-> None]
    /\ log = <<>>
    /\ cursor = 0
    /\ seen = {}
    /\ op = [r \in Requests |-> Idle]
    /\ begun = 0
    /\ stops = 0

----------------------------------------------------------------------------
(* Helpers *)

Stored == {e \in Entries : entries[e].key # None}

\* PayloadCipher.decrypt: the key of this installation, or the one of old.
CanDecrypt(p, key) == key \in {Plain, Legacy, proc[p].key}

\* PrivacyPolicy.apply with encrypt_sensitive, and PayloadCipher.encrypt.
KeyFor(p, e) == IF e \in Sensitive THEN proc[p].key ELSE Plain

\* Deviation: any process with a host binds.
MayBindAnywhere(p) == p \in Procs

\* validate_bind
MayBind(p) == p \in Loopback \cup WithToken

\* BearerAuthMiddleware: a token is asked for only where one is configured,
\* except that the admin pages need one.
Admitted(p, r) == p \in WithToken => r \in Bearers

\* Inside a process only the request that holds the event loop moves.
LoopFree(p) == \A q \in Requests : op[q].proc = p => op[q].pc \notin SyncPoints
CanRun(r)   == \A q \in Requests \ {r} :
                    op[q].proc = op[r].proc => op[q].pc \notin SyncPoints

Moves(r, o) == op' = [op EXCEPT ![r] = o]

\* add_audit: AUTOINCREMENT gives the ids in the order of the commits.
Appended(r, kind, counts) == log' = Append(log, [by |-> r, kind |-> kind, counts |-> counts])

----------------------------------------------------------------------------
(* Starting and stopping *)

KeepsData  == UNCHANGED <<versions, entries, jsonl, backup, log, cursor, seen>>
KeepsFiles == UNCHANGED <<salt, proc, jsonl, backup, cursor, seen, stops>>

At(p, pc) == proc' = [proc EXCEPT ![p] = [pc |-> pc, key |-> None]]

\* init_components: refuses to bind, or goes on to build the runtime.
StartProcess(p) ==
    /\ proc[p].pc = "down"
    /\ MayBind(p)
    /\ At(p, "find")
    /\ KeepsData /\ UNCHANGED <<salt, op, begun, stops>>

\* load_or_create_salt: path.exists()
FindSalt(p) ==
    /\ proc[p].pc = "find"
    /\ At(p, IF salt = "absent" THEN "create" ELSE "read")
    /\ KeepsData /\ UNCHANGED <<salt, op, begun, stops>>

\* Deviation: the file is opened without O_EXCL.
CreateSaltAnyway(p) ==
    /\ proc[p].pc = "create"
    /\ salt' = "empty"
    /\ At(p, "write")
    /\ KeepsData /\ UNCHANGED <<op, begun, stops>>

\* os.open(O_CREAT | O_EXCL), or FileExistsError.
CreateSalt(p) ==
    /\ proc[p].pc = "create"
    /\ IF salt = "absent" THEN salt' = "empty" /\ At(p, "write")
                          ELSE At(p, "read") /\ UNCHANGED salt
    /\ KeepsData /\ UNCHANGED <<op, begun, stops>>

WriteSalt(p) ==
    /\ proc[p].pc = "write"
    /\ salt' \in Salts
    /\ At(p, "read")
    /\ KeepsData /\ UNCHANGED <<op, begun, stops>>

\* Deviation: the length of the salt is not checked.
ReadSaltUnchecked(p) ==
    /\ proc[p].pc = "read"
    /\ proc' = [proc EXCEPT ![p] = [pc |-> "up", key |-> salt]]
    /\ KeepsData /\ UNCHANGED <<salt, op, begun, stops>>

\* The file is read: an empty one is too short, and the start fails.
ReadSalt(p) ==
    /\ proc[p].pc = "read"
    /\ proc' = [proc EXCEPT ![p] = IF salt \in Salts THEN [pc |-> "up", key |-> salt]
                                                     ELSE [pc |-> "down", key |-> None]]
    /\ KeepsData /\ UNCHANGED <<salt, op, begun, stops>>

\* The process dies, its requests and their temporary databases with it.
Stop(p) ==
    /\ proc[p].pc # "down"
    /\ stops < MaxStops
    /\ stops' = stops + 1
    /\ proc' = [proc EXCEPT ![p] = [pc |-> "down", key |-> None]]
    /\ op' = [r \in Requests |-> IF op[r].proc = p THEN Idle ELSE op[r]]
    /\ KeepsData /\ UNCHANGED <<salt, begun>>

----------------------------------------------------------------------------
(* add and import *)

Begins(r, p) ==
    /\ op[r].pc = "idle" /\ p \in Up /\ LoopFree(p) /\ Admitted(p, r)
    /\ begun < MaxRequests /\ begun' = begun + 1

New(p, pc, kind, todo) ==
    [pc |-> pc, proc |-> p, kind |-> kind, todo |-> todo, row |-> None, outcome |-> None,
     counts |-> Zero, base |-> Len(log), tmp |-> NoDatabase]

\* A server makes up ids that nothing else uses.
Fresh == Entries \ (Stored \cup {row.entry : row \in ForeignRows}
                           \cup {op[q].row.entry : q \in {q \in Requests : op[q].row # None}}
                           \cup {row.entry : row \in UNION {op[q].todo : q \in Requests}})

BeginAdd(r, p) ==
    /\ Begins(r, p)
    /\ \E e \in Fresh :
         Moves(r, New(p, "row", "add", {[entry |-> e, key |-> Plain]}))
    /\ KeepsFiles /\ UNCHANGED <<versions, entries, log>>

\* import_data reads a whole file first: an export of a client, or a foreign one.
BeginImport(r, p) ==
    /\ Begins(r, p)
    /\ \E rows \in {jsonl[q] : q \in Requests} \cup {ForeignRows} :
         Moves(r, New(p, IF rows = {} THEN "finish" ELSE "row", "import", rows))
    /\ KeepsFiles /\ UNCHANGED <<versions, entries, log>>

\* A row that cannot be decrypted, or that the policy rejects.
Refused(p, row) == \/ ~CanDecrypt(p, row.key)
                   \/ ~Classify(SignalsOf[row.entry]).accepted

\* Up to the await of add: the row is refused, or its content is stored, or
\* the version of the process is registered.
CheckRow(r) ==
    /\ op[r].pc = "row"
    /\ \E row \in op[r].todo :
         LET o == [op[r] EXCEPT !.row = row, !.todo = @ \ {row}]
             refused == Refused(op[r].proc, row) IN
         IF refused \/ row.entry \in Stored
         THEN /\ Moves(r, [o EXCEPT !.pc = "audit",
                                    !.outcome = IF refused THEN "rejected" ELSE "duplicate"])
              /\ UNCHANGED versions
         ELSE /\ Moves(r, [o EXCEPT !.pc = "embed"])
              /\ versions' = versions \cup {Current}
    /\ KeepsFiles /\ UNCHANGED <<entries, log, begun>>

\* The provider answers, or fails.
ReturnVector(r) ==
    /\ op[r].pc = "embed"
    /\ CanRun(r)
    /\ \E pc \in {"insert", "degraded"} : Moves(r, [op[r] EXCEPT !.pc = pc])
    /\ KeepsFiles /\ UNCHANGED <<versions, entries, log, begun>>

\* _audit_novelty_failure; _reject_unembeddable_write follows.
AuditDegraded(r) ==
    /\ op[r].pc = "degraded"
    /\ Appended(r, "degraded", Zero)
    /\ Moves(r, [op[r] EXCEPT !.pc = "audit", !.outcome = "rejected"])
    /\ KeepsFiles /\ UNCHANGED <<versions, entries, begun>>

\* add_entry_with_embedding.  Another request may have stored the id since:
\* IntegrityError ends the request, an import without its own event.
InsertRow(r) ==
    /\ op[r].pc = "insert"
    /\ LET e == op[r].row.entry IN
       IF e \in Stored
       THEN Moves(r, Idle) /\ UNCHANGED entries
       ELSE /\ entries' = [entries EXCEPT ![e] = [key  |-> KeyFor(op[r].proc, e),
                                                  vecs |-> {Current}]]
            /\ Moves(r, [op[r] EXCEPT !.pc = "audit", !.outcome = "accepted"])
    /\ KeepsFiles /\ UNCHANGED <<versions, log, begun>>

\* Deviation: whatever does not raise is counted as imported.
CountedSuccess(counts, outcome) ==
    IF outcome = "rejected" THEN [counts EXCEPT !.rejected = @ + 1]
    ELSE [counts EXCEPT !.imported = @ + 1]

Counted(counts, outcome) ==
    CASE outcome = "accepted"  -> [counts EXCEPT !.imported = @ + 1]
      [] outcome = "duplicate" -> [counts EXCEPT !.duplicates = @ + 1]
      [] outcome = "rejected"  -> [counts EXCEPT !.rejected = @ + 1]

\* _audit_write_attempt, and on to the next row.
AuditRow(r) ==
    /\ op[r].pc = "audit"
    /\ Appended(r, op[r].outcome, Zero)
    /\ Moves(r, IF op[r].kind = "add" THEN Idle
                ELSE [op[r] EXCEPT !.pc = IF op[r].todo = {} THEN "finish" ELSE "row",
                                   !.row = None, !.outcome = None,
                                   !.counts = Counted(@, op[r].outcome)])
    /\ KeepsFiles /\ UNCHANGED <<versions, entries, begun>>

FinishImport(r) ==
    /\ op[r].pc = "finish"
    /\ Appended(r, "import", op[r].counts)
    /\ Moves(r, Idle)
    /\ KeepsFiles /\ UNCHANGED <<versions, entries, begun>>

----------------------------------------------------------------------------
(* Exporting *)

BeginExport(r, p) ==
    /\ Begins(r, p)
    /\ \E kind \in {"jsonl", "sqlite"} : Moves(r, New(p, "read", kind, {}))
    /\ KeepsFiles /\ UNCHANGED <<versions, entries, log>>

\* export_entries
ReadEntries(r) ==
    /\ op[r].pc = "read"
    /\ LET rows == {[entry |-> e, key |-> entries[e].key] : e \in Stored} IN
       Moves(r, IF op[r].kind = "jsonl" THEN [op[r] EXCEPT !.pc = "truncate", !.todo = rows]
                ELSE [op[r] EXCEPT !.pc = "versions", !.tmp.rows = rows])
    /\ KeepsFiles /\ UNCHANGED <<versions, entries, log, begun>>

KeepsAllButJsonl == UNCHANGED <<salt, proc, versions, entries, backup, log, cursor, seen,
                                begun, stops>>

\* open("w") empties the target, the rows follow.
TruncateFile(r) ==
    /\ op[r].pc = "truncate"
    /\ jsonl' = [jsonl EXCEPT ![r] = {}]
    /\ Moves(r, [op[r] EXCEPT !.pc = IF op[r].todo = {} THEN "auditExport" ELSE "write"])
    /\ KeepsAllButJsonl

WriteLine(r) ==
    /\ op[r].pc = "write"
    /\ \E row \in op[r].todo :
         /\ jsonl' = [jsonl EXCEPT ![r] = @ \cup {row}]
         /\ Moves(r, [op[r] EXCEPT !.todo = @ \ {row},
                                   !.pc = IF op[r].todo = {row} THEN "auditExport" ELSE @])
    /\ KeepsAllButJsonl

\* export_subset_to: the versions, then the vectors, each as of its SELECT.
ReadVersions(r) ==
    /\ op[r].pc = "versions"
    /\ Moves(r, [op[r] EXCEPT !.pc = "vectors", !.tmp.versions = versions])
    /\ KeepsFiles /\ UNCHANGED <<versions, entries, log, begun>>

VectorsOf(rows) == UNION {{row.entry} \X entries[row.entry].vecs : row \in rows}

ReadVectors(r) ==
    /\ op[r].pc = "vectors"
    /\ Moves(r, [op[r] EXCEPT !.pc = "fill", !.tmp.vecs = VectorsOf(op[r].tmp.rows)])
    /\ KeepsFiles /\ UNCHANGED <<versions, entries, log, begun>>

Used(db) == {v[2] : v \in db.vecs}

\* Deviation: the subset database does not enforce its foreign keys.
FillUnchecked(r) ==
    /\ op[r].pc = "fill"
    /\ Moves(r, [op[r] EXCEPT !.pc = "replace", !.tmp.versions = @ \cap Used(op[r].tmp)])
    /\ KeepsFiles /\ UNCHANGED <<versions, entries, log, begun>>

\* The subset database is filled in one transaction, the used versions first.
\* A vector of a version that was not read yet breaks a foreign key: the
\* export fails and removes its temporary files.
Fill(r) ==
    /\ op[r].pc = "fill"
    /\ Moves(r, IF Used(op[r].tmp) \subseteq op[r].tmp.versions
                THEN [op[r] EXCEPT !.pc = "replace", !.tmp.versions = @ \cap Used(op[r].tmp)]
                ELSE Idle)
    /\ KeepsFiles /\ UNCHANGED <<versions, entries, log, begun>>

\* os.replace
ReplaceTarget(r) ==
    /\ op[r].pc = "replace"
    /\ backup' = [backup EXCEPT ![r] = op[r].tmp]
    /\ Moves(r, [op[r] EXCEPT !.pc = "auditExport", !.tmp = NoDatabase])
    /\ UNCHANGED <<salt, proc, versions, entries, jsonl, log, cursor, seen, begun, stops>>

AuditExport(r) ==
    /\ op[r].pc = "auditExport"
    /\ Appended(r, "export", Zero)
    /\ Moves(r, Idle)
    /\ KeepsFiles /\ UNCHANGED <<versions, entries, begun>>

----------------------------------------------------------------------------
(* A reembed of some process that does not activate, and the audit client *)

KeepsAllButData == UNCHANGED <<salt, proc, jsonl, backup, log, cursor, seen, op, begun, stops>>

RegisterVersion(p) ==
    /\ p \in Up /\ LoopFree(p)
    /\ \E v \in Versions \ versions : versions' = versions \cup {v}
    /\ UNCHANGED entries /\ KeepsAllButData

FileVector(p) ==
    /\ p \in Up /\ LoopFree(p)
    /\ \E v \in versions, e \in Stored :
         /\ v \notin entries[e].vecs
         /\ entries' = [entries EXCEPT ![e].vecs = @ \cup {v}]
    /\ UNCHANGED versions /\ KeepsAllButData

\* list_audit with after_id: the first rows after it that pass the filter.
Matching(after) == {i \in 1..Len(log) : i > after /\ log[i].kind \in Watched}

\* Deviation: the newest rows first, as without after_id.
PageNewest(after) == {i \in Matching(after) :
                          Cardinality({j \in Matching(after) : j > i}) < PageLimit}

Page(after) == {i \in Matching(after) :
                    Cardinality({j \in Matching(after) : j < i}) < PageLimit}

\* GET /admin/audit, and the client's next after_id is the last id it got.
PollAudit(p) ==
    /\ p \in Up /\ LoopFree(p) /\ p \in WithToken
    /\ LET page == Page(cursor) IN
       /\ cursor' \in page \cup {cursor}
       /\ \A i \in page : i <= cursor'
       /\ seen' = seen \cup page
    /\ UNCHANGED <<salt, proc, versions, entries, jsonl, backup, log, op, begun, stops>>

----------------------------------------------------------------------------

ProcessStep(p) == \/ StartProcess(p) \/ FindSalt(p) \/ CreateSalt(p) \/ WriteSalt(p)
                  \/ ReadSalt(p) \/ Stop(p)
                  \/ RegisterVersion(p) \/ FileVector(p) \/ PollAudit(p)

Begin(r) == \E p \in Procs : BeginAdd(r, p) \/ BeginImport(r, p) \/ BeginExport(r, p)

WriteStep(r)  == \/ CheckRow(r) \/ ReturnVector(r) \/ AuditDegraded(r) \/ InsertRow(r)
                 \/ AuditRow(r) \/ FinishImport(r)
ExportStep(r) == \/ ReadEntries(r) \/ TruncateFile(r) \/ WriteLine(r)
                 \/ ReadVersions(r) \/ ReadVectors(r) \/ Fill(r) \/ ReplaceTarget(r)
                 \/ AuditExport(r)

Next == \/ \E p \in Procs : ProcessStep(p)
        \/ \E r \in Requests : Begin(r) \/ WriteStep(r) \/ ExportStep(r)

Spec == Init /\ [][Next]_vars

----------------------------------------------------------------------------
(* Properties *)

\* However the starts of processes race for the salt file, every running
\* process encrypts with the salt in the file, and can decrypt all that is
\* stored and all that was ever exported (load_or_create_salt).
KeysAgree ==
    \A p \in Up :
        /\ proc[p].key = salt
        /\ \A e \in Stored : CanDecrypt(p, entries[e].key)
        /\ \A r \in Requests : \A row \in jsonl[r] : CanDecrypt(p, row.key)

\* "A failed export never leaves a partially written database behind": the
\* target of a sqlite export is a database whose vectors have their versions
\* and their entries, and in which every entry has a vector, although its
\* three reads are three transactions (export_subset_to).
ExportWhole ==
    \A r \in Requests : backup[r] # None =>
        /\ Used(backup[r]) = backup[r].versions
        /\ {v[1] : v \in backup[r].vecs} = {row.entry : row \in backup[r].rows}

\* A client that pages with after_id has received every event of its filter up
\* to its cursor, whatever the writers insert meanwhile (list_audit).
NoGaps == \A i \in 1..cursor : log[i].kind \in Watched => i \in seen

\* How many events of a kind the log has of a request, from an id on.
Said(r, base, kind) ==
    Cardinality({i \in (base + 1)..Len(log) : log[i].by = r /\ log[i].kind = kind})

\* The event of an import counts what the log says of its rows: one accepted,
\* duplicate or rejected event each, since it began (import_data).
ImportAccounted ==
    [][\A r \in Requests :
         (op[r].pc = "finish" /\ op'[r].pc = "idle" /\ Len(log') > Len(log)) =>
            LET c == log'[Len(log')].counts IN
            /\ c.imported = Said(r, op[r].base, "accepted")
            /\ c.duplicates = Said(r, op[r].base, "duplicate")
            /\ c.rejected = Said(r, op[r].base, "rejected")]_vars

\* A client without the token is served only by processes that nobody but the
\* machine itself can reach (validate_bind and BearerAuthMiddleware).
StrangersStayLocal ==
    \A r \in Requests \ Bearers : op[r].pc # "idle" => op[r].proc \in Loopback

\* What add, a file of this installation or one of another has brought in shows
\* a reason to be kept and none of the reasons not to, however many signals its
\* content shows at once (classify_persistence, which add and import_data call).
Denying == {"empty", "small_talk", "noise", "code", "progress", "transient", "debug", "working"}
DeniedStaysOut ==
    \A e \in Stored \ Inherited : SignalsOf[e] # {} /\ SignalsOf[e] \cap Denying = {}

----------------------------------------------------------------------------
(* What the starts of the processes promise *)

KeyChosen == IF salt \in Salts THEN salt ELSE None
KeyHeld   == [p \in Procs |-> proc[p].key]

Agreed == INSTANCE InstallationKey WITH Keys <- Salts, chosen <- KeyChosen, key <- KeyHeld

\* Whatever the starts, the stops and their order, the salt file settles on one
\* key for good, and a process takes that key when it comes up and no other: the
\* salt file is never written twice, not even after a crash between its
\* creation and its first write (load_or_create_salt).
ImplementsInstallationKey == Agreed!Spec

----------------------------------------------------------------------------
\* The inductive strengthening of ImportAccounted: what a request has counted is
\* what the log says of it since it began.
Accounted ==
    \A r \in Requests : op[r].pc # "idle" =>
        /\ op[r].base <= Len(log)
        /\ op[r].counts.imported = Said(r, op[r].base, "accepted")
        /\ op[r].counts.duplicates = Said(r, op[r].base, "duplicate")
        /\ op[r].counts.rejected = Said(r, op[r].base, "rejected")
=============================================================================
