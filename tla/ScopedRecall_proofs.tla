------------------------ MODULE ScopedRecall_proofs ------------------------
(***************************************************************************)
(* The scope policy of ScopedRecall, for any workspaces, projects, agents, *)
(* entries, requests, limits and windows.                                  *)
(*                                                                         *)
(* What a step may do to the rows is said once (RowsStep): a row that is   *)
(* there keeps its bucket, owner and visibility, and a new one is sound.   *)
(* Soundness of every row (Rows) and of the rows that wait for their       *)
(* vector (Pending) is inductive, and the policy's properties follow.      *)
(***************************************************************************)
EXTENDS ScopedRecall, FiniteSetTheorems, TLAPS

USE RecallAssumption

SameAudience(m, t) ==
    m.scope = t.scope /\ m.agent = t.agent /\ m.visibility = t.visibility

\* A row in its bucket, a marker with the audience of its targets.
Sound(row) ==
    /\ InBucket(row.scope)
    /\ (row.status # "absent" /\ row.type = "invalidated") =>
          \A x \in row.links : Exists(x) /\ SameAudience(row, entries[x])

Rows == \A e \in Entries : Sound(entries[e])

\* What waits for its vector is an ordinary row, addressed where its actor looks.
Addressed(o) ==
    LET s == o.row.scope
        a == o.actor
    IN /\ InBucket(s)
       /\ o.row.status = "active" /\ o.row.type = "fact"
       /\ s.level # "global" => s.workspace = a.workspace
       /\ s.level = "project" => s.project = Canonical[a.project]

Pending == \A r \in Requests : op[r].pc = "store" => Addressed(op[r])

IInv == TypeOK /\ Rows /\ Pending

----------------------------------------------------------------------------
(* Types of what the operators build *)

LEMMA GlobalScopeOk == GlobalScope \in Scope /\ InBucket(GlobalScope)
BY DEF GlobalScope, Scope, Levels, InBucket

LEMMA NoRowOk == NoRow \in Row
BY GlobalScopeOk DEF NoRow, Row, Visibilities

LEMMA IdleOk == Idle \in Op /\ Idle.pc = "idle"
BY NoRowOk DEF Idle, Op

LEMMA NormalizedOk ==
    ASSUME NEW level \in Levels, NEW w \in Workspaces, NEW p \in ProjectNames
    PROVE  LET s == Normalized(level, w, p) IN
           /\ s \in Scope /\ InBucket(s) /\ s.level = level
           /\ level # "global" => s.workspace = w
           /\ level = "project" => s.project = Canonical[p]
<1>1. CASE level = "global"
  BY <1>1, GlobalScopeOk DEF Normalized, GlobalScope
<1>2. CASE level # "global"
  BY <1>2 DEF Normalized, Scope, Levels, InBucket
<1> QED BY <1>1, <1>2

LEMMA WrittenOk ==
    ASSUME NEW s \in Scope, NEW agent \in Agents \cup {None},
           NEW visibility \in Visibilities
    PROVE  LET row == Written(s, agent, visibility) IN
           /\ row \in Row /\ row.scope = s /\ row.agent = agent
           /\ row.visibility = visibility
           /\ row.status = "active" /\ row.type = "fact"
BY NoRowOk DEF Written, NoRow, Row

LEMMA MarkerOk ==
    ASSUME TypeOK, NEW e \in Entries
    PROVE  /\ Marker(e) \in Row
           /\ Marker(e).scope = entries[e].scope /\ Marker(e).agent = entries[e].agent
           /\ Marker(e).visibility = entries[e].visibility
           /\ Marker(e).links = {e} /\ Marker(e).status = "active"
<1>1. entries[e] \in Row
  BY DEF TypeOK
<1> QED BY <1>1, NoRowOk DEF Marker, NoRow, Row

LEMMA SummaryOk ==
    ASSUME TypeOK, NEW base \in Entries, NEW done \in SUBSET Entries
    PROVE  /\ Summary(base, done) \in Row
           /\ Summary(base, done).scope = entries[base].scope
           /\ Summary(base, done).visibility = "shared"
           /\ Summary(base, done).type = "fact" /\ Summary(base, done).status = "active"
<1>1. entries[base] \in Row
  BY DEF TypeOK
<1> QED BY <1>1, NoRowOk DEF Summary, NoRow, Row, Visibilities

----------------------------------------------------------------------------
(* What a step has to show *)

\* Nothing but its status and its vector may change of a row that is there.
Kept(e) ==
    /\ entries'[e].status = "absent" <=> entries[e].status = "absent"
    /\ SameAudience(entries'[e], entries[e])
    /\ entries'[e].type = entries[e].type /\ entries'[e].links = entries[e].links

LEMMA RowsStep ==
    ASSUME TypeOK, Rows, entries' \in [Entries -> Row],
           \A e \in Entries : Kept(e) \/ (e \in Fresh /\ Sound(entries'[e]))
    PROVE  Rows'
<1>1. ASSUME NEW x \in Entries, Exists(x)
      PROVE  Kept(x) /\ Exists(x)'
  BY <1>1 DEF Kept, Exists, Fresh
<1>2. SUFFICES ASSUME NEW e \in Entries
               PROVE  Sound(entries[e])'
  BY DEF Rows
<1>3. entries'[e].links \subseteq Entries
  BY DEF Row
<1>4. CASE Kept(e)
  <2>1. Sound(entries[e]) /\ entries'[e].scope = entries[e].scope
    BY <1>4 DEF Rows, Kept, SameAudience
  <2>2. ASSUME entries'[e].status # "absent", entries'[e].type = "invalidated",
               NEW x \in entries'[e].links
        PROVE  Exists(x)' /\ SameAudience(entries'[e], entries'[x])
    <3>1. Exists(x) /\ SameAudience(entries[e], entries[x])
      BY <1>4, <2>1, <2>2 DEF Kept, Sound
    <3> QED BY <1>1, <1>3, <1>4, <3>1 DEF Kept, SameAudience
  <2> QED BY <2>1, <2>2 DEF Sound
<1>5. CASE e \in Fresh /\ Sound(entries'[e])
  <2>1. ASSUME entries'[e].status # "absent", entries'[e].type = "invalidated",
               NEW x \in entries'[e].links
        PROVE  Exists(x)' /\ SameAudience(entries'[e], entries'[x])
    <3>1. Exists(x) /\ SameAudience(entries'[e], entries[x])
      BY <1>5, <2>1 DEF Sound
    <3> QED BY <1>1, <1>3, <3>1 DEF Kept, SameAudience
  <2> QED BY <1>5, <2>1 DEF Sound
<1> QED BY <1>4, <1>5

\* A step that puts one sound row into a free id.
LEMMA InsertRow ==
    ASSUME TypeOK, Rows, NEW m \in Fresh, NEW row \in Row, Sound(row),
           entries' = [entries EXCEPT ![m] = row]
    PROVE  entries' \in [Entries -> Row] /\ Rows'
<1>1. m \in Entries /\ entries' \in [Entries -> Row]
  BY DEF Fresh, TypeOK
<1>2. \A e \in Entries : entries'[e] = IF e = m THEN row ELSE entries[e]
  BY <1>1 DEF TypeOK
<1>3. \A e \in Entries : Kept(e) \/ (e \in Fresh /\ Sound(entries'[e]))
  BY <1>2 DEF Kept, SameAudience
<1> QED BY <1>1, <1>3, RowsStep

\* A request moves on; only a pc of "store" brings an obligation.
LEMMA RequestStep ==
    ASSUME TypeOK, Pending, NEW r \in Requests, NEW o \in Op,
           op' = [op EXCEPT ![r] = o],
           o.pc # "idle" => o.actor \in Actor,
           o.pc = "store" => Addressed(o)
    PROVE  /\ op' \in [Requests -> Op]
           /\ \A q \in Requests : op'[q].pc # "idle" => op'[q].actor \in Actor
           /\ Pending'
<1>1. \A q \in Requests : op'[q] = IF q = r THEN o ELSE op[q]
  BY DEF TypeOK
<1>2. op' \in [Requests -> Op]
  BY DEF TypeOK
<1>3. \A q \in Requests : op'[q].pc # "idle" => op'[q].actor \in Actor
  BY <1>1 DEF TypeOK
<1>4. Pending'
  BY <1>1 DEF Pending, Addressed
<1> QED BY <1>2, <1>3, <1>4

LEMMA AwaitStep ==
    ASSUME IInv, NEW r \in Requests, NEW a \in Actor, NEW s \in Scope,
           NEW agent \in Agents \cup {None}, NEW visibility \in Visibilities,
           Await(r, a, Written(s, agent, visibility)),
           InBucket(s),
           s.level # "global" => s.workspace = a.workspace,
           s.level = "project" => s.project = Canonical[a.project],
           UNCHANGED <<entries, projects>>
    PROVE  IInv'
<1> DEFINE row == Written(s, agent, visibility)
           o == [Idle EXCEPT !.pc = "store", !.actor = a, !.row = row]
<1>1. row \in Row /\ row.scope = s /\ row.status = "active" /\ row.type = "fact"
  BY WrittenOk
<1>2. op' = [op EXCEPT ![r] = o]
  BY DEF Await
<1> HIDE DEF row
<1>3. o \in Op /\ o.pc = "store" /\ o.actor = a /\ o.row = row
  BY <1>1, IdleOk DEF Op, Idle
<1>4. Addressed(o)
  BY <1>1, <1>3 DEF Addressed
<1> HIDE DEF o
<1>5. Pending' /\ op' \in [Requests -> Op]
      /\ \A q \in Requests : op'[q].pc # "idle" => op'[q].actor \in Actor
  BY <1>2, <1>3, <1>4, RequestStep DEF IInv
<1> QED BY <1>5 DEF IInv, TypeOK, Rows, Sound, Exists, SameAudience

\* A request moves on without a row to store.
LEMMA PlainRequest ==
    ASSUME IInv, NEW r \in Requests, NEW o \in Op, op' = [op EXCEPT ![r] = o],
           o.pc # "idle" => o.actor \in Actor, o.pc # "store"
    PROVE  /\ op' \in [Requests -> Op] /\ Pending'
           /\ \A q \in Requests : op'[q].pc # "idle" => op'[q].actor \in Actor
BY RequestStep DEF IInv

\* A step that leaves the rows alone keeps them sound.
LEMMA RowsRest ==
    ASSUME Rows, UNCHANGED entries
    PROVE  Rows'
BY DEF Rows, Sound, Exists, SameAudience

LEMMA PendingRest ==
    ASSUME Pending, UNCHANGED op
    PROVE  Pending'
BY DEF Pending, Addressed

----------------------------------------------------------------------------
(* The actions *)

LEMMA InitOk == Init => IInv
<1> SUFFICES ASSUME Init PROVE IInv
  OBVIOUS
<1>1. TypeOK
  BY NoRowOk, IdleOk DEF Init, TypeOK
<1>2. Rows
  BY GlobalScopeOk DEF Init, Rows, Sound, NoRow
<1>3. Pending
  BY IdleOk DEF Init, Pending
<1> QED BY <1>1, <1>2, <1>3 DEF IInv

LEMMA CreateProjectOk ==
    ASSUME IInv, NEW a \in Actors, NEW p \in ProjectNames, CreateProject(a, p)
    PROVE  IInv'
<1>1. a.workspace \in Workspaces /\ Canonical[p] \in ProjectNames
  BY DEF Actor
<1>2. TypeOK'
  BY <1>1 DEF IInv, CreateProject, TypeOK
<1> QED BY <1>2, RowsRest, PendingRest DEF IInv, CreateProject

LEMMA BeginAddOk ==
    ASSUME IInv, NEW r \in Requests, NEW a \in Actors, BeginAdd(r, a)
    PROVE  IInv'
<1>1. PICK level \in Levels, p \in ProjectNames, agent \in Owners,
           visibility \in Visibilities :
        Await(r, [a EXCEPT !.project = p],
              Written(Normalized(level, a.workspace, p), agent, visibility))
  BY DEF BeginAdd
<1> DEFINE b == [a EXCEPT !.project = p]
           s == Normalized(level, a.workspace, p)
<1>2. b \in Actor /\ b.workspace = a.workspace /\ b.project = p /\ a.workspace \in Workspaces
  BY DEF Actor
<1>3. /\ s \in Scope /\ InBucket(s)
      /\ s.level # "global" => s.workspace = b.workspace
      /\ s.level = "project" => s.project = Canonical[b.project]
  BY <1>2, NormalizedOk
<1>4. agent \in Agents \cup {None}
  OBVIOUS
<1>5. Await(r, b, Written(s, agent, visibility)) /\ UNCHANGED <<entries, projects>>
  BY <1>1 DEF BeginAdd
<1> HIDE DEF b, s
<1> QED BY <1>2, <1>3, <1>4, <1>5, AwaitStep

LEMMA BeginPromoteFastOk ==
    ASSUME IInv, NEW r \in Requests, NEW a \in Actors, BeginPromoteFast(r, a)
    PROVE  IInv'
<1> DEFINE s == ProjectScope(a.workspace, a.project)
<1>1. PICK agent \in Owners \cap Agents, visibility \in Visibilities :
        Await(r, a, Written(s, agent, visibility))
  BY DEF BeginPromoteFast
<1>2. a \in Actor /\ Canonical[a.project] = a.project
  BY DEF BeginPromoteFast
<1>3. /\ s \in Scope /\ InBucket(s) /\ s.level = "project"
      /\ s.workspace = a.workspace /\ s.project = a.project
  BY <1>2 DEF ProjectScope, Scope, Levels, Actor, InBucket
<1>4. agent \in Agents \cup {None} /\ UNCHANGED <<entries, projects>>
  BY DEF BeginPromoteFast
<1> HIDE DEF s
<1> QED BY <1>1, <1>2, <1>3, <1>4, AwaitStep

LEMMA StoreOk ==
    ASSUME IInv, NEW r \in Requests, Store(r)
    PROVE  IInv'
<1> DEFINE row == op[r].row
<1>1. PICK e \in Fresh : entries' = [entries EXCEPT ![e] = row]
  BY DEF Store
<1>2. row \in Row /\ Addressed(op[r])
  BY DEF IInv, TypeOK, Op, Pending, Store
<1>3. Sound(row)
  BY <1>2 DEF Addressed, Sound
<1> HIDE DEF row
<1>4. entries' \in [Entries -> Row] /\ Rows'
  BY <1>1, <1>2, <1>3, InsertRow DEF IInv
<1>5. Pending' /\ op' \in [Requests -> Op]
      /\ \A q \in Requests : op'[q].pc # "idle" => op'[q].actor \in Actor
  BY IdleOk, PlainRequest DEF Store
<1> QED BY <1>4, <1>5 DEF IInv, TypeOK, Store

\* Drop, BeginSearch and AnswerSearch: one request moves, nothing else.
LEMMA QuietRequest ==
    ASSUME IInv, NEW r \in Requests, NEW o \in Op, op' = [op EXCEPT ![r] = o],
           o.pc # "idle" => o.actor \in Actor, o.pc # "store",
           UNCHANGED <<entries, projects>>
    PROVE  IInv'
<1>1. Pending' /\ op' \in [Requests -> Op]
      /\ \A q \in Requests : op'[q].pc # "idle" => op'[q].actor \in Actor
  BY PlainRequest
<1> QED BY <1>1, RowsRest DEF IInv, TypeOK

LEMMA DropOk ==
    ASSUME IInv, NEW r \in Requests, Drop(r)
    PROVE  IInv'
BY IdleOk, QuietRequest DEF Drop

LEMMA BeginSearchOk ==
    ASSUME IInv, NEW r \in Requests, NEW a \in Actors, BeginSearch(r, a)
    PROVE  IInv'
<1>1. PICK levels \in Compositions, all \in BOOLEAN :
        op' = [op EXCEPT ![r] = [Idle EXCEPT !.pc = "search", !.actor = a,
                                             !.levels = levels, !.all = all,
                                             !.seen = Findable(a, levels, all)]]
  BY DEF BeginSearch
<1> DEFINE seen == Findable(a, levels, all)
           o == [Idle EXCEPT !.pc = "search", !.actor = a, !.levels = levels,
                             !.all = all, !.seen = seen]
<1>2. seen \subseteq Entries
  BY DEF Findable, Readable
<1> HIDE DEF seen
<1>3. o \in Op /\ o.pc = "search" /\ o.actor \in Actor
  BY <1>2, NoRowOk DEF Op, Idle, Actor
<1>4. op' = [op EXCEPT ![r] = o]
  BY <1>1 DEF seen
<1> HIDE DEF o
<1> QED BY <1>3, <1>4, QuietRequest DEF BeginSearch

LEMMA AnswerSearchOk ==
    ASSUME IInv, NEW r \in Requests, AnswerSearch(r)
    PROVE  IInv'
<1> DEFINE candidates == Embedded(SearchScopes(op[r].actor, op[r].levels), op[r].all)
<1>1. PICK window \in Best(Window, candidates) :
        \E answer \in Best(Limit, window \cap Readable(op[r].actor)) :
           op' = [op EXCEPT ![r] = [Idle EXCEPT !.answer = answer]]
  BY DEF AnswerSearch, Answered
<1>2. PICK answer \in Best(Limit, window \cap Readable(op[r].actor)) :
        op' = [op EXCEPT ![r] = [Idle EXCEPT !.answer = answer]]
  BY <1>1
<1>3. answer \subseteq Entries
  BY DEF Best, Readable
<1> DEFINE o == [Idle EXCEPT !.answer = answer]
<1>4. o \in Op /\ o.pc = "idle"
  BY <1>3, NoRowOk DEF Op, Idle
<1> HIDE DEF o
<1>5. op' = [op EXCEPT ![r] = o]
  BY <1>2 DEF o
<1> QED BY <1>4, <1>5, QuietRequest DEF AnswerSearch

LEMMA InvalidateOk ==
    ASSUME IInv, NEW a \in Actors, Invalidate(a)
    PROVE  IInv'
<1>1. PICK e \in Readable(a), m \in Fresh :
        entries' = [entries EXCEPT ![e].status = "invalidated", ![m] = Marker(e)]
  BY DEF Invalidate
<1>2. e \in Entries /\ Exists(e) /\ m \in Entries /\ m # e /\ TypeOK /\ Rows
  BY DEF Readable, Fresh, IInv
<1>3. entries[e] \in Row /\ Sound(entries[e])
  BY <1>2 DEF TypeOK, Rows
<1> DEFINE off == [entries[e] EXCEPT !.status = "invalidated"]
<1>4. off \in Row /\ off.status = "invalidated" /\ SameAudience(off, entries[e])
      /\ off.type = entries[e].type /\ off.links = entries[e].links
  BY <1>3 DEF Row, SameAudience
<1>5. \A x \in Entries : entries'[x] = IF x = m THEN Marker(e)
                                       ELSE IF x = e THEN off ELSE entries[x]
  BY <1>1, <1>2 DEF TypeOK
<1> HIDE DEF off
<1>6. entries' \in [Entries -> Row]
  BY <1>1, <1>2, <1>4, <1>5, MarkerOk DEF TypeOK
<1>7. Sound(entries'[m])
  BY <1>2, <1>3, <1>5, MarkerOk DEF Sound, SameAudience
<1>8. \A x \in Entries : Kept(x) \/ (x \in Fresh /\ Sound(entries'[x]))
  BY <1>2, <1>4, <1>5, <1>7 DEF Kept, SameAudience, Exists
<1>9. Rows'
  BY <1>2, <1>6, <1>8, RowsStep
<1> QED BY <1>6, <1>9, PendingRest DEF IInv, TypeOK, Invalidate

LEMMA PromoteMergeOk ==
    ASSUME IInv, NEW a \in Actors, PromoteMerge(a)
    PROVE  IInv'
<1>1. PICK targets \in SUBSET Entries, m \in Fresh :
        LET done == {e \in targets \cap Readable(a) : entries[e].status = "active"} IN
        \E base \in done : entries' = [entries EXCEPT ![m] = Summary(base, done)]
  BY DEF PromoteMerge
<1> DEFINE done == {e \in targets \cap Readable(a) : entries[e].status = "active"}
<1>2. PICK base \in done : entries' = [entries EXCEPT ![m] = Summary(base, done)]
  BY <1>1
<1>3. base \in Entries /\ done \in SUBSET Entries /\ TypeOK /\ Rows
  BY DEF IInv
<1> HIDE DEF done
<1>4. Summary(base, done) \in Row /\ Sound(Summary(base, done))
  BY <1>3, SummaryOk DEF Sound, Rows
<1>5. entries' \in [Entries -> Row] /\ Rows'
  BY <1>2, <1>3, <1>4, InsertRow
<1> QED BY <1>5, PendingRest DEF IInv, TypeOK, PromoteMerge

LEMMA ReembedOk ==
    ASSUME IInv, Reembed
    PROVE  IInv'
<1>1. PICK e \in Entries : entries' = [entries EXCEPT ![e].vec = TRUE]
  BY DEF Reembed
<1> DEFINE row == [entries[e] EXCEPT !.vec = TRUE]
<1>2. entries[e] \in Row
  BY DEF IInv, TypeOK
<1>3. row \in Row /\ row.status = entries[e].status /\ SameAudience(row, entries[e])
      /\ row.type = entries[e].type /\ row.links = entries[e].links
  BY <1>2 DEF Row, SameAudience
<1>4. \A x \in Entries : entries'[x] = IF x = e THEN row ELSE entries[x]
  BY <1>1 DEF IInv, TypeOK
<1> HIDE DEF row
<1>5. entries' \in [Entries -> Row]
  BY <1>1, <1>3, <1>4 DEF IInv, TypeOK
<1>6. \A x \in Entries : Kept(x)
  BY <1>3, <1>4 DEF Kept, SameAudience
<1>7. Rows'
  BY <1>5, <1>6, RowsStep DEF IInv
<1> QED BY <1>5, <1>7, PendingRest DEF IInv, TypeOK, Reembed

LEMMA NextOk == IInv /\ [Next]_vars => IInv'
<1> SUFFICES ASSUME IInv, [Next]_vars PROVE IInv'
  OBVIOUS
<1>1. CASE \E a \in Actors, p \in ProjectNames : CreateProject(a, p)
  BY <1>1, CreateProjectOk
<1>2. CASE \E r \in Requests, a \in Actors :
             BeginAdd(r, a) \/ BeginPromoteFast(r, a) \/ BeginSearch(r, a)
  BY <1>2, BeginAddOk, BeginPromoteFastOk, BeginSearchOk
<1>3. CASE \E r \in Requests : Store(r) \/ Drop(r) \/ AnswerSearch(r)
  BY <1>3, StoreOk, DropOk, AnswerSearchOk
<1>4. CASE \E a \in Actors : Invalidate(a) \/ PromoteMerge(a)
  BY <1>4, InvalidateOk, PromoteMergeOk
<1>5. CASE Reembed
  BY <1>5, ReembedOk
<1>6. CASE UNCHANGED vars
  BY <1>6, RowsRest, PendingRest DEF vars, IInv, TypeOK
<1> QED BY <1>1, <1>2, <1>3, <1>4, <1>5, <1>6 DEF Next

LEMMA Invariant == Spec => []IInv
BY InitOk, NextOk, PTL DEF Spec

----------------------------------------------------------------------------
(* Theorems *)

\* The state keeps its types (memory_service.py, add to search).
THEOREM TypeCorrect == Spec => []TypeOK
<1>1. IInv => TypeOK
  BY DEF IInv
<1> QED BY <1>1, Invariant, PTL

LEMMA ReadableScope ==
    ASSUME IInv, NEW a \in Actor, NEW e \in Readable(a)
    PROVE  entries[e].scope \in SearchScopes(a, Levels)
<1> DEFINE s == entries[e].scope
<1>1. s \in Scope /\ InBucket(s) /\ CanRead(a, entries[e])
  BY DEF Readable, IInv, TypeOK, Row, Rows, Sound
<1>2. CASE s.level = "project"
  <2>1. s = ProjectScope(a.workspace, a.project)
    BY <1>1, <1>2 DEF CanRead, Scope, ProjectScope
  <2> QED BY <2>1, <1>2 DEF SearchScopes, Levels
<1>3. CASE s.level = "workspace"
  <2>1. s = [level |-> "workspace", workspace |-> a.workspace, project |-> WorkspaceBucket]
    BY <1>1, <1>3 DEF CanRead, Scope, InBucket
  <2> QED BY <2>1, <1>3 DEF SearchScopes, Levels
<1>4. CASE s.level = "global"
  BY <1>1, <1>4 DEF InBucket, SearchScopes, Levels
<1> QED BY <1>1, <1>2, <1>3, <1>4 DEF Scope, Levels

\* Every readable entry is in a bucket that its reader's search names.
THEOREM ReadableSearchable == Spec => []ReadableIsSearchable
<1>1. IInv => ReadableIsSearchable
  BY ReadableScope DEF ReadableIsSearchable
<1> QED BY <1>1, Invariant, PTL

\* The rows list gives an actor are the project entries it may read.
THEOREM ViewsAgree == Spec => []ProjectViewsAgree
<1>1. ASSUME IInv PROVE ProjectViewsAgree
  <2>1. ASSUME NEW a \in Actors, NEW e \in Readable(a)
        PROVE  (entries[e].scope.workspace = a.workspace
                  /\ entries[e].scope.project = a.project)
               <=> entries[e].scope.level = "project"
    <3>1. a.workspace \in Workspaces /\ a.project \in ProjectNames
      BY DEF Actor
    <3>2. /\ entries[e].scope \in Scope /\ InBucket(entries[e].scope)
          /\ CanRead(a, entries[e])
      BY <1>1, <2>1 DEF Readable, IInv, TypeOK, Row, Rows, Sound
    <3> QED BY <3>1, <3>2 DEF Scope, Levels, InBucket, GlobalScope, CanRead
  <2> QED BY <2>1 DEF ProjectViewsAgree, Listed, Exported
<1> QED BY <1>1, Invariant, PTL

\* An invalidation entry is readable by the actors that can read its target.
THEOREM MarkersReachReaders == Spec => []MarkerAudience
<1>1. ASSUME IInv PROVE MarkerAudience
  <2> SUFFICES ASSUME NEW m \in Entries, NEW e \in Entries, Exists(m),
                      entries[m].type = "invalidated", e \in entries[m].links,
                      NEW a \in Actor
               PROVE  CanRead(a, entries[m]) <=> CanRead(a, entries[e])
    BY DEF MarkerAudience
  <2>1. SameAudience(entries[m], entries[e])
    BY <1>1 DEF IInv, Rows, Sound, Exists
  <2> QED BY <2>1 DEF SameAudience, CanRead
<1> QED BY <1>1, Invariant, PTL

----------------------------------------------------------------------------
(* What writers, promoters and searches find *)

\* The row a write stores is one its actor finds, in the spelling it is stored.
LEMMA StoreReaches ==
    ASSUME IInv, NEW r \in Requests, Store(r), Owned(op[r].actor, op[r].row),
           Canonical[op[r].actor.project] = op[r].actor.project, NEW e \in Added
    PROVE  Reaches(op[r].actor, e)
<1> DEFINE a == op[r].actor
           row == op[r].row
<1>1. PICK m \in Fresh : entries' = [entries EXCEPT ![m] = row]
  BY DEF Store
<1>2. e = m /\ entries'[e] = row
  BY <1>1 DEF Added, Fresh, Exists, IInv, TypeOK
<1>3. a \in Actor /\ row \in Row /\ Addressed(op[r])
  BY DEF Store, IInv, TypeOK, Op, Pending
<1>4. /\ row.scope \in Scope /\ InBucket(row.scope)
      /\ row.scope.level # "global" => row.scope.workspace = a.workspace
      /\ row.scope.level = "project" => row.scope.project = a.project
  BY <1>3 DEF Row, Addressed
<1>5. CanRead(a, row)
  BY <1>4 DEF CanRead, Owned
<1>6. row.scope \in {ProjectScope(a.workspace, a.project),
                     [level |-> "workspace", workspace |-> a.workspace,
                      project |-> WorkspaceBucket], GlobalScope}
  BY <1>4 DEF Scope, Levels, ProjectScope, InBucket
<1>7. row.scope \in SearchScopes(a, Levels)
  BY <1>4, <1>6 DEF Scope, SearchScopes
<1> QED BY <1>2, <1>5, <1>7 DEF Reaches

LEMMA SummaryReaches ==
    ASSUME IInv, NEW a \in Actors, PromoteMerge(a), NEW e \in Added
    PROVE  Reaches(a, e)
<1>1. PICK targets \in SUBSET Entries, m \in Fresh :
        \E base \in {x \in targets \cap Readable(a) : entries[x].status = "active"} :
           entries' = [entries EXCEPT
             ![m] = Summary(base, {x \in targets \cap Readable(a) :
                                     entries[x].status = "active"})]
  BY DEF PromoteMerge
<1> DEFINE done == {x \in targets \cap Readable(a) : entries[x].status = "active"}
<1>2. PICK base \in done : entries' = [entries EXCEPT ![m] = Summary(base, done)]
  BY <1>1
<1>3. base \in Readable(a) /\ base \in Entries /\ done \in SUBSET Entries
      /\ a \in Actor /\ TypeOK
  BY DEF IInv
<1> HIDE DEF done
<1>4. e = m /\ entries'[e] = Summary(base, done)
  BY <1>2, <1>3 DEF Added, Fresh, Exists, TypeOK
<1>5. Summary(base, done).scope = entries[base].scope
      /\ Summary(base, done).visibility = "shared"
  BY <1>3, SummaryOk
<1>6. CanRead(a, Summary(base, done))
  BY <1>3, <1>5 DEF CanRead, Readable
<1>7. entries[base].scope \in SearchScopes(a, Levels)
  BY <1>3, ReadableScope
<1> QED BY <1>4, <1>5, <1>6, <1>7 DEF Reaches

\* A writer that spells its project as it is stored finds what it stores, and
\* whoever merges entries finds their summary (add, promote, _normalize_scope,
\* _search_scopes, _can_read).
THEOREM WriterFinds == Spec => WriterFindsEntry
<1>1. IInv /\ [Next]_vars =>
        [\A e \in Added :
          /\ \A r \in Requests :
                (/\ Store(r)
                 /\ Owned(op[r].actor, op[r].row)
                 /\ Canonical[op[r].actor.project] = op[r].actor.project)
                   => Reaches(op[r].actor, e)
          /\ \A a \in Actors : PromoteMerge(a) => Reaches(a, e)]_vars
  BY StoreReaches, SummaryReaches
<1> QED BY <1>1, Invariant, PTL DEF Spec, WriterFindsEntry

\* A choice of n elements of a finite set that falls short of n is all of it.
LEMMA BestIsAll ==
    ASSUME NEW n \in Nat, NEW S, IsFiniteSet(S), NEW B \in Best(n, S),
           Cardinality(S) <= n \/ Cardinality(B) < n
    PROVE  B = S
<1>1. B \in SUBSET S /\ Cardinality(B) = Smaller(n, Cardinality(S))
  BY DEF Best
<1>2. Cardinality(S) \in Nat
  BY FS_CardinalityType
<1>3. Cardinality(B) = Cardinality(S)
  BY <1>1, <1>2 DEF Smaller
<1> QED BY <1>1, <1>3, FS_Subset

LEMMA AnswerIsCurrent ==
    ASSUME IInv, NEW r \in Requests, AnswerSearch(r)
    PROVE  LET o == op[r]
               now == Findable(o.actor, o.levels, o.all)
               answer == op'[r].answer
               candidates == Embedded(SearchScopes(o.actor, o.levels), o.all)
           IN /\ answer \subseteq now
              /\ (Cardinality(answer) < Limit /\ Cardinality(candidates) <= Window)
                    => (o.seen \cap now) \subseteq answer
<1> DEFINE a == op[r].actor
           levels == op[r].levels
           all == op[r].all
           now == Findable(a, levels, all)
           candidates == Embedded(SearchScopes(a, levels), all)
<1>1. PICK window \in Best(Window, candidates) :
        \E answer \in Best(Limit, window \cap Readable(a)) :
           op' = [op EXCEPT ![r] = [Idle EXCEPT !.answer = answer]]
  BY DEF AnswerSearch, Answered
<1>2. PICK answer \in Best(Limit, window \cap Readable(a)) :
        op' = [op EXCEPT ![r] = [Idle EXCEPT !.answer = answer]]
  BY <1>1
<1>3. op'[r].answer = answer
  BY <1>2 DEF IInv, TypeOK, Idle
<1>4. a \in Actor /\ levels \subseteq Levels
  BY DEF AnswerSearch, IInv, TypeOK, Op
<1>5. ASSUME NEW x \in Readable(a)
      PROVE  x \in candidates <=> x \in now
  <2>1. x \in Entries /\ Exists(x) /\ entries[x].scope \in SearchScopes(a, Levels)
    BY <1>4, <1>5, ReadableScope DEF Readable
  <2>2. entries[x].scope \in SearchScopes(a, levels) <=> entries[x].scope.level \in levels
    BY <2>1 DEF SearchScopes
  <2> QED BY <1>5, <2>1, <2>2 DEF Embedded, Findable
<1>6. window \subseteq candidates /\ answer \subseteq (window \cap Readable(a))
  BY DEF Best
<1>7. answer \subseteq now
  BY <1>5, <1>6
<1>8. ASSUME Cardinality(answer) < Limit, Cardinality(candidates) <= Window
      PROVE  (op[r].seen \cap now) \subseteq answer
  <2>1. IsFiniteSet(candidates) /\ IsFiniteSet(candidates \cap Readable(a))
    <3>1. candidates \in SUBSET Entries /\ (candidates \cap Readable(a)) \in SUBSET Entries
      BY DEF Embedded
    <3> QED BY <3>1, FS_Subset
  <2> HIDE DEF candidates
  <2>2. window = candidates
    BY <1>8, <2>1, BestIsAll
  <2>3. answer = candidates \cap Readable(a)
    BY <1>8, <2>1, <2>2, BestIsAll
  <2>4. now \subseteq Readable(a)
    BY DEF Findable
  <2> QED BY <1>5, <2>3, <2>4
<1> QED BY <1>3, <1>7, <1>8

\* A search answers for the moment its rows are read (search, list_embeddings).
THEOREM AnswersCurrent == Spec => SearchAnswersCurrent
<1>1. IInv /\ [Next]_vars =>
        [\A r \in Requests : AnswerSearch(r) =>
          LET o == op[r]
              now == Findable(o.actor, o.levels, o.all)
              answer == op'[r].answer
              candidates == Embedded(SearchScopes(o.actor, o.levels), o.all)
          IN /\ answer \subseteq now
             /\ (Cardinality(answer) < Limit /\ Cardinality(candidates) <= Window)
                   => (o.seen \cap now) \subseteq answer]_vars
  BY AnswerIsCurrent
<1> QED BY <1>1, Invariant, PTL DEF Spec, SearchAnswersCurrent
=============================================================================
