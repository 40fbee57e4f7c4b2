---------------------------- MODULE ScopedRecall ----------------------------
(***************************************************************************)
(* Who is shown which entries of the strong memory: the buckets that       *)
(* memory.add, memory.import, capture_inference_memory and                 *)
(* memory.promote_fast write to, the rows that memory.invalidate and       *)
(* memory.promote(merge=True) derive from others, and what memory.search,  *)
(* memory.list, memory.get and memory.export return of them.               *)
(*                                                                         *)
(* Granularity.  One server process.  A request that awaits its embedding  *)
(* (a write or a search) is two steps; the handlers without an await are   *)
(* one.  What is asked of them for lists, crashes and other processes is   *)
(* StrongMemory's subject, and so are duplicates: here every write is new. *)
(*                                                                         *)
(* Project ids are compared as strings; Canonical is what                  *)
(* _validate_project_identifier makes of one (white space and case), for   *)
(* the ids it accepts.  The similarities and scores of a search are        *)
(* arbitrary.  A row of type invalidated is a marker here: one that a      *)
(* client adds itself is left out, as are user ids, which narrow a private *)
(* entry as its agent does, and the tier filter.                           *)
(***************************************************************************)
EXTENDS Naturals, FiniteSets

CONSTANTS
    Workspaces,
    ProjectNames,    \* the project ids clients spell out
    Canonical,       \* spelling -> normalized project id
    Agents,
    Owners,          \* the scope.agent_id of the entries clients write
    Actors,          \* the ActorContexts of the requests
    DefaultProject,  \* default_workspace_id and default_project_id
    Entries,
    Requests,        \* slots for requests under way
    Compositions,    \* the sets of levels clients search
    Limit,           \* limit of memory.search
    Window,          \* its candidates: max(limit * 4, 20)
    WorkspaceBucket, GlobalBucket, GlobalWorkspace,
    None

Levels == {"project", "workspace", "global"}
Visibilities == {"private", "shared", "global"}

Actor == [workspace : Workspaces, project : ProjectNames, agent : Agents]

ASSUME RecallAssumption ==
    /\ Canonical \in [ProjectNames -> ProjectNames]
    /\ \A p \in ProjectNames : Canonical[Canonical[p]] = Canonical[p]
    /\ Actors \subseteq Actor
    /\ DefaultProject \in Workspaces \X ProjectNames
    /\ WorkspaceBucket \notin ProjectNames /\ GlobalBucket \notin ProjectNames
    /\ WorkspaceBucket # GlobalBucket /\ GlobalWorkspace \notin Workspaces
    /\ None \notin Agents /\ Owners \subseteq Agents \cup {None}
    /\ Compositions \subseteq SUBSET Levels /\ IsFiniteSet(Entries)
    /\ Limit \in Nat \ {0} /\ Window \in Nat /\ Limit <= Window

VARIABLES
    entries,   \* tables entries, links and embeddings
    projects,  \* table projects
    op         \* what each request slot awaits, with its local variables

vars == <<entries, projects, op>>

----------------------------------------------------------------------------
(* Types *)

Scope == [level     : Levels,
          workspace : Workspaces \cup {GlobalWorkspace},
          project   : ProjectNames \cup {WorkspaceBucket, GlobalBucket}]

Row == [scope      : Scope,
        agent      : Agents \cup {None},   \* scope.agent_id
        visibility : Visibilities,
        status     : {"absent", "active", "invalidated"},
        type       : {"fact", "invalidated"},
        vec        : BOOLEAN,              \* it has an embedding
        links      : SUBSET Entries]

GlobalScope == [level |-> "global", workspace |-> GlobalWorkspace, project |-> GlobalBucket]

NoRow == [scope |-> GlobalScope, agent |-> None, visibility |-> "global",
          status |-> "absent", type |-> "fact", vec |-> FALSE, links |-> {}]

Op == [pc     : {"idle", "store", "search"},
       actor  : Actor \cup {None},
       row    : Row,              \* store: what will be inserted
       levels : SUBSET Levels,    \* search: the buckets it composes
       all    : BOOLEAN,          \* search: include_invalidated
       seen   : SUBSET Entries,   \* search: what its actor could find when it began
       answer : SUBSET Entries]   \* what the last search returned

Idle == [pc |-> "idle", actor |-> None, row |-> NoRow, levels |-> {}, all |-> FALSE,
         seen |-> {}, answer |-> {}]

\* A request under way has an actor.
TypeOK ==
    /\ entries \in [Entries -> Row]
    /\ projects \subseteq Workspaces \X ProjectNames
    /\ op \in [Requests -> Op]
    /\ \A r \in Requests : op[r].pc # "idle" => op[r].actor \in Actor

Init ==
    /\ entries = [e \in Entries |-> NoRow]
    /\ projects = {DefaultProject}
    /\ op = [r \in Requests |-> Idle]

----------------------------------------------------------------------------
(* The scope policy *)

Exists(e) == entries[e].status # "absent"
Fresh     == {e \in Entries : ~Exists(e)}

ProjectScope(w, p) == [level |-> "project", workspace |-> w, project |-> p]

\* Deviation: a workspace entry keeps the project it was written from.
NormalizedInProject(level, w, p) ==
    IF level = "global" THEN GlobalScope
    ELSE [level |-> level, workspace |-> w, project |-> Canonical[p]]

\* _normalize_scope: every level has its bucket.
Normalized(level, w, p) ==
    IF level = "global" THEN GlobalScope
    ELSE [level |-> level, workspace |-> w,
          project |-> IF level = "project" THEN Canonical[p] ELSE WorkspaceBucket]

\* Deviation: a workspace entry is looked for under the actor's project.
SearchScopesOfProject(a, levels) ==
    {s \in {ProjectScope(a.workspace, a.project),
            [level |-> "workspace", workspace |-> a.workspace, project |-> a.project],
            GlobalScope} : s.level \in levels}

\* _search_scopes: the buckets a search of these levels reads, with the project
\* id as the actor spells it.
SearchScopes(a, levels) ==
    {s \in {ProjectScope(a.workspace, a.project),
            [level |-> "workspace", workspace |-> a.workspace,
             project |-> WorkspaceBucket],
            GlobalScope} : s.level \in levels}

\* _can_read
CanRead(a, row) ==
    /\ row.scope.level = "project" =>
          row.scope.workspace = a.workspace /\ row.scope.project = a.project
    /\ row.scope.level = "workspace" => row.scope.workspace = a.workspace
    /\ row.visibility = "private" => row.agent = a.agent

\* _can_write: a global scope goes with a global visibility, a project is
\* registered, and a private entry is not another agent's.
CanWrite(a, row) ==
    /\ row.scope.level = "global" <=> row.visibility = "global"
    /\ row.scope.level # "global" => row.scope.workspace = a.workspace
    /\ row.scope.level = "project" =>
          <<row.scope.workspace, row.scope.project>> \in projects
    /\ (row.visibility = "private" /\ row.scope.level # "global")
          => row.agent \in {None, a.agent}

\* get
Readable(a) == {e \in Entries : Exists(e) /\ CanRead(a, entries[e])}

\* Deviation: the rows of the whole workspace are listed.
ListedInWorkspace(a, all) ==
    {e \in Readable(a) : /\ entries[e].scope.workspace = a.workspace
                         /\ all \/ entries[e].status = "active"}

\* list_entries with include_invalidated: the SQL compares workspace and project
\* and does not look at the level.
Listed(a, all) ==
    {e \in Readable(a) : /\ entries[e].scope.workspace = a.workspace
                         /\ entries[e].scope.project = a.project
                         /\ all \/ entries[e].status = "active"}

\* What export_data writes to the file: the same comparison, for every status.
Exported(a) ==
    {e \in Readable(a) : /\ entries[e].scope.workspace = a.workspace
                         /\ entries[e].scope.project = a.project}

Shown(row, all) == all \/ (row.status = "active" /\ row.type = "fact")

\* list_embeddings: what a search looks at.
Embedded(scopes, all) ==
    {e \in Entries : /\ Exists(e) /\ entries[e].vec
                     /\ entries[e].scope \in scopes
                     /\ Shown(entries[e], all)}

----------------------------------------------------------------------------
(* Projects *)

\* Deviation: the workspace's bucket is registered along with the project.
CreateProjectBucket(a, p) ==
    /\ projects' = projects \cup {<<a.workspace, Canonical[p]>>,
                                  <<a.workspace, WorkspaceBucket>>}
    /\ UNCHANGED <<entries, op>>

\* create_project: the argument is normalized, a known project is returned.
CreateProject(a, p) ==
    /\ projects' = projects \cup {<<a.workspace, Canonical[p]>>}
    /\ UNCHANGED <<entries, op>>

----------------------------------------------------------------------------
(* Writes *)

Written(scope, agent, visibility) ==
    [NoRow EXCEPT !.scope = scope, !.agent = agent, !.visibility = visibility,
                  !.status = "active", !.vec = TRUE]

Await(r, a, row) ==
    op' = [op EXCEPT ![r] = [Idle EXCEPT !.pc = "store", !.actor = a, !.row = row]]

\* capture_inference_memory writes into a project its arguments name, as an
\* actor of the default project; the other writers name the actor's own.
MayTarget(a, p) == p = a.project \/ <<a.workspace, a.project>> = DefaultProject

\* add, capture_inference_memory, or a row of an import, with any owner: up to
\* the await.  The request goes on as the actor that has that project.
BeginAdd(r, a) ==
    /\ op[r].pc = "idle"
    /\ \E level \in Levels, p \in ProjectNames, agent \in Owners,
          visibility \in Visibilities :
         LET row == Written(Normalized(level, a.workspace, p), agent, visibility) IN
         /\ MayTarget(a, p)
         /\ CanWrite(a, row)
         /\ Await(r, [a EXCEPT !.project = p], row)
    /\ UNCHANGED <<entries, projects>>

\* promote_fast: the fast entry is one of the actor's project and any agent's;
\* log_fast has written it under a normalized, registered project.
BeginPromoteFast(r, a) ==
    /\ op[r].pc = "idle"
    /\ Canonical[a.project] = a.project /\ <<a.workspace, a.project>> \in projects
    /\ \E agent \in Owners \cap Agents, visibility \in Visibilities :
         Await(r, a, Written(ProjectScope(a.workspace, a.project), agent, visibility))
    /\ UNCHANGED <<entries, projects>>

\* The vector is there: the row goes in.
Store(r) ==
    /\ op[r].pc = "store"
    /\ \E e \in Fresh : entries' = [entries EXCEPT ![e] = op[r].row]
    /\ op' = [op EXCEPT ![r] = Idle]
    /\ UNCHANGED projects

\* The embedding fails, or the text is rejected or a duplicate.
Drop(r) ==
    /\ op[r].pc = "store"
    /\ op' = [op EXCEPT ![r] = Idle]
    /\ UNCHANGED <<entries, projects>>

----------------------------------------------------------------------------
(* Governance *)

\* Deviation: the marker has the default visibility.
MarkerShared(e) ==
    [NoRow EXCEPT !.scope = entries[e].scope, !.agent = entries[e].agent,
                  !.visibility = "shared", !.status = "active",
                  !.type = "invalidated", !.links = {e}]

\* The invalidation entry: the scope, owner and visibility of its target.
Marker(e) ==
    [NoRow EXCEPT !.scope = entries[e].scope, !.agent = entries[e].agent,
                  !.visibility = entries[e].visibility, !.status = "active",
                  !.type = "invalidated", !.links = {e}]

\* invalidate, for one of its targets.
Invalidate(a) ==
    /\ \E e \in Readable(a), m \in Fresh :
         entries' = [entries EXCEPT ![e].status = "invalidated", ![m] = Marker(e)]
    /\ UNCHANGED <<projects, op>>

\* Deviation: the summary goes to the default project.
SummaryInDefault(base, done) ==
    [NoRow EXCEPT !.scope = ProjectScope(DefaultProject[1], DefaultProject[2]),
                  !.agent = entries[base].agent,
                  !.visibility = "shared", !.status = "active", !.links = done]

\* The merged summary: shared, in the scope of the first promoted entry.
Summary(base, done) ==
    [NoRow EXCEPT !.scope = entries[base].scope, !.agent = entries[base].agent,
                  !.visibility = "shared", !.status = "active", !.links = done]

\* promote(merge=True) of the targets that are readable and not invalidated;
\* without a merge it changes only the tier.
PromoteMerge(a) ==
    /\ \E targets \in SUBSET Entries, m \in Fresh :
         LET done == {e \in targets \cap Readable(a) : entries[e].status = "active"} IN
         \E base \in done : entries' = [entries EXCEPT ![m] = Summary(base, done)]
    /\ UNCHANGED <<projects, op>>

\* memory.reembed gives the entries without a vector theirs.
Reembed ==
    /\ \E e \in Entries : /\ entries[e].status = "active"
                          /\ ~entries[e].vec
                          /\ entries' = [entries EXCEPT ![e].vec = TRUE]
    /\ UNCHANGED <<projects, op>>

----------------------------------------------------------------------------
(* Search *)

\* What the actor could be shown of these levels, by the read policy alone.
Findable(a, levels, all) ==
    {e \in Readable(a) : /\ entries[e].vec
                         /\ entries[e].scope.level \in levels
                         /\ Shown(entries[e], all)}

BeginSearch(r, a) ==
    /\ op[r].pc = "idle"
    /\ \E levels \in Compositions, all \in BOOLEAN :
         op' = [op EXCEPT ![r] = [Idle EXCEPT !.pc = "search", !.actor = a,
                                              !.levels = levels, !.all = all,
                                              !.seen = Findable(a, levels, all)]]
    /\ UNCHANGED <<entries, projects>>

Smaller(m, n) == IF m < n THEN m ELSE n

\* The n best of a set, whatever the order.
Best(n, S) == {B \in SUBSET S : Cardinality(B) = Smaller(n, Cardinality(S))}

Answered(r, candidates) ==
    \E window \in Best(Window, candidates) :
       \E answer \in Best(Limit, window \cap Readable(op[r].actor)) :
          op' = [op EXCEPT ![r] = [Idle EXCEPT !.answer = answer]]

\* Deviation: the rows are read before the query is embedded.
AnswerSearchEarly(r) ==
    /\ op[r].pc = "search"
    /\ Answered(r, op[r].seen)
    /\ UNCHANGED <<entries, projects>>

\* The query's vector is there: the rows are read, the most similar ones make
\* the window, the readable ones are ranked and cut to the limit.
AnswerSearch(r) ==
    /\ op[r].pc = "search"
    /\ Answered(r, Embedded(SearchScopes(op[r].actor, op[r].levels), op[r].all))
    /\ UNCHANGED <<entries, projects>>

----------------------------------------------------------------------------
Next ==
    \/ \E a \in Actors, p \in ProjectNames : CreateProject(a, p)
    \/ \E r \in Requests, a \in Actors :
         BeginAdd(r, a) \/ BeginPromoteFast(r, a) \/ BeginSearch(r, a)
    \/ \E r \in Requests : Store(r) \/ Drop(r) \/ AnswerSearch(r)
    \/ \E a \in Actors : Invalidate(a) \/ PromoteMerge(a)
    \/ Reembed

Spec == Init /\ [][Next]_vars

----------------------------------------------------------------------------
(* Properties *)

\* Every row is in the bucket of its level, whichever path wrote or derived it.
InBucket(scope) ==
    /\ scope.level = "workspace" =>
          scope.project = WorkspaceBucket /\ scope.workspace \in Workspaces
    /\ scope.level = "global" => scope = GlobalScope
    /\ scope.level = "project" => scope.project \in ProjectNames

\* What an actor may read, its search of all levels looks at: the buckets that
\* writes, markers and summaries go to are the ones _search_scopes names, so no
\* entry is readable by id and out of every search (README, "every stored entry
\* is searchable").
ReadableIsSearchable ==
    \A a \in Actors : \A e \in Readable(a) :
       entries[e].scope \in SearchScopes(a, Levels)

\* list and export give every actor the project entries that get gives it:
\* comparing workspace and project without the level picks no bucket row.
ProjectViewsAgree ==
    \A a \in Actors :
       LET own == {e \in Readable(a) : entries[e].scope.level = "project"} IN
       /\ Exported(a) = own
       /\ \A all \in BOOLEAN :
             Listed(a, all) = {e \in own : all \/ entries[e].status = "active"}

\* An invalidation entry reaches exactly the actors that can read its target:
\* nobody who saw the fact misses its withdrawal, nobody else learns of it.
MarkerAudience ==
    \A m, e \in Entries :
       (Exists(m) /\ entries[m].type = "invalidated" /\ e \in entries[m].links) =>
          \A a \in Actor : CanRead(a, entries[m]) <=> CanRead(a, entries[e])

\* The rows that a step has added.
Added == {e \in Fresh : entries'[e].status # "absent"}

\* The actor can get row e after the step, and its search looks at it.
Reaches(a, e) ==
    CanRead(a, entries'[e]) /\ entries'[e].scope \in SearchScopes(a, Levels)

\* The writer's own entry, not one it stores as another agent's private one.
Owned(a, row) == row.visibility = "private" => row.agent = a.agent

\* An entry is stored as it was addressed: whatever was registered, written and
\* promoted while its vector was awaited, the actor that wrote it finds it with
\* the same scope.  Holds of the actors that spell their project as it is stored.
\* And the actor that merges entries finds their summary, whatever the levels,
\* the owners and the visibilities of the entries it merges.
WriterFindsEntry ==
    [][\A e \in Added :
          /\ \A r \in Requests :
                (/\ Store(r)
                 /\ Owned(op[r].actor, op[r].row)
                 /\ Canonical[op[r].actor.project] = op[r].actor.project)
                   => Reaches(op[r].actor, e)
          /\ \A a \in Actors : PromoteMerge(a) => Reaches(a, e)]_vars

\* The same for every spelling the program accepts of a project id.
AddedEntryFound ==
    [][\A r \in Requests : \A e \in Added :
          (Store(r) /\ Owned(op[r].actor, op[r].row)) => Reaches(op[r].actor, e)]_vars

\* A search answers for the moment its rows are read: all of its answer may be
\* read and shown then, although the query was embedded before, and what could
\* be found when it began and still can is in the answer unless the window or
\* the limit is full.
SearchAnswersCurrent ==
    [][\A r \in Requests : AnswerSearch(r) =>
          LET o == op[r]
              now == Findable(o.actor, o.levels, o.all)
              answer == op'[r].answer
              candidates == Embedded(SearchScopes(o.actor, o.levels), o.all)
          IN /\ answer \subseteq now
             /\ (Cardinality(answer) < Limit /\ Cardinality(candidates) <= Window)
                   => (o.seen \cap now) \subseteq answer]_vars
=============================================================================
