------------------------- MODULE Deployment_proofs -------------------------
(***************************************************************************)
(* The guarantees of Deployment for any processes, clients, entries, salts *)
(* and versions, any order of starts, requests and stops.                  *)
(*                                                                         *)
(* The inductive invariant adds to the types: who runs was allowed to bind *)
(* (Started), only one process can be about to write the salt and none     *)
(* after it is written (Salted), who is not up has no key (Keyless), no    *)
(* key but the one of the salt file is used (OwnKeys), and what an export  *)
(* has read so far is in step with the tables it still has to read         *)
(* (Exporting), and a row on its way into the store has passed the policy  *)
(* (Judged).  Accounted, of its own, is for the event of an import.        *)
(***************************************************************************)
EXTENDS Deployment, FiniteSetTheorems, TLAPS

USE DeploymentAssumption

Started == \A p \in Procs : proc[p].pc # "down" => MayBind(p)

Salted ==
    /\ \A p \in Procs : proc[p].pc = "write" => salt = "empty"
    /\ \A p, q \in Procs : proc[p].pc = "write" /\ proc[q].pc = "write" => p = q
    /\ \A p \in Up : proc[p].key = salt

\* A process has no key before it is up, nor after it stops.
Keyless == \A p \in Procs \ Up : proc[p].key = None

Own(key) == key \in {Plain, Legacy} \/ (key = salt /\ salt \in Salts)

OwnKeys ==
    /\ \A e \in Stored : Own(entries[e].key)
    /\ \A r \in Requests : \A row \in jsonl[r] : Own(row.key)
    /\ \A r \in Requests : op[r].pc \in {"truncate", "write"} =>
                              \A row \in op[r].todo : Own(row.key)

EntriesOf(db) == {row.entry : row \in db.rows}
Covered(db)   == {v[1] : v \in db.vecs} = EntriesOf(db)

InStep(o) ==
    /\ o.pc \in {"versions", "vectors"} => EntriesOf(o.tmp) \subseteq Stored
    /\ o.pc \in {"fill", "replace"} => Covered(o.tmp)
    /\ o.pc = "replace" => Used(o.tmp) = o.tmp.versions

Exporting ==
    /\ \A e \in Stored : entries[e].vecs # {}
    /\ \A r \in Requests : InStep(op[r])

\* What is about to be stored has passed the policy.
Passed(o) == o.pc \in {"embed", "insert"} => Classify(SignalsOf[o.row.entry]).accepted
Judged    == \A r \in Requests : Passed(op[r])

IInv == TypeOK /\ Started /\ StrangersStayLocal /\ Salted /\ Keyless /\ OwnKeys
               /\ Exporting /\ ExportWhole /\ NoGaps /\ Judged /\ DeniedStaysOut

----------------------------------------------------------------------------
(* Types *)

LEMMA IdleOk == Idle \in Op /\ Idle.pc = "idle" /\ Idle.kind = "none"
BY DEF Idle, Op, NoDatabase, Database, Zero, Counts

\* A request moves and the processes stay.
LEMMA MovedOk ==
    ASSUME TypeOK, NEW r \in Requests, NEW o \in Op, WellPlaced(o), Moves(r, o),
           UNCHANGED proc
    PROVE  op' \in [Requests -> Op] /\ \A q \in Requests : WellPlaced(op[q])'
<1>1. \A q \in Requests : op'[q] = IF q = r THEN o ELSE op[q]
  BY DEF TypeOK, Moves
<1>2. op' \in [Requests -> Op]
  BY DEF TypeOK, Moves
<1>3. ASSUME NEW q \in Requests
      PROVE  WellPlaced(op[q])'
  <2>1. WellPlaced(op'[q])
    BY <1>1 DEF TypeOK
  <2> QED BY <2>1 DEF WellPlaced, Up
<1> QED BY <1>2, <1>3

\* An event is appended.
LEMMA AppendedOk ==
    ASSUME TypeOK, NEW r \in Requests, NEW kind \in EventKinds, NEW counts \in Counts,
           Appended(r, kind, counts), UNCHANGED <<cursor, seen>>
    PROVE  /\ log' \in Seq(Event) /\ cursor' \in 0..Len(log') /\ seen' \subseteq 1..Len(log')
           /\ Len(log') = Len(log) + 1
           /\ \A i \in 1..Len(log) : log'[i] = log[i]
<1>1. [by |-> r, kind |-> kind, counts |-> counts] \in Event
  BY DEF Event
<1>2. log \in Seq(Event) /\ cursor \in 0..Len(log) /\ seen \subseteq 1..Len(log)
  BY DEF TypeOK
<1>3. log' \in Seq(Event) /\ Len(log') = Len(log) + 1
  BY <1>1, <1>2 DEF Appended
<1>4. \A i \in 1..Len(log) : log'[i] = log[i]
  BY <1>1, <1>2 DEF Appended
<1> QED BY <1>2, <1>3, <1>4

LEMMA ZeroOk == Zero \in Counts
BY DEF Zero, Counts

LEMMA CountedOk ==
    ASSUME NEW c \in Counts, NEW outcome \in {"accepted", "duplicate", "rejected"}
    PROVE  Counted(c, outcome) \in Counts
BY DEF Counted, Counts

LEMMA InitType == Init => TypeOK
<1> SUFFICES ASSUME Init PROVE TypeOK
  OBVIOUS
<1>1. proc \in [Procs -> ProcState] /\ Up = {}
  BY DEF Init, ProcState, Up
<1>2. entries \in [Entries -> Row]
  BY DEF Init, Row, NoRow, Keys
<1>3. log \in Seq(Event) /\ cursor \in 0..Len(log) /\ seen \subseteq 1..Len(log)
  BY DEF Init
<1>4. op \in [Requests -> Op] /\ \A r \in Requests : WellPlaced(op[r])
  BY IdleOk DEF Init, WellPlaced
<1>5. versions \subseteq Versions
  BY DEF Init
<1>6. backup \in [Requests -> Database \cup {None}] /\ jsonl \in [Requests -> SUBSET ExportRow]
  BY DEF Init
<1>7. salt \in {"absent", "empty"} \cup Salts /\ begun \in 0..MaxRequests /\ stops \in 0..MaxStops
  BY DEF Init
<1> QED BY <1>1, <1>2, <1>3, <1>4, <1>5, <1>6, <1>7 DEF TypeOK

\* A process changes its state and keeps its requests, of which it has none yet.
LEMMA ProcOk ==
    ASSUME TypeOK, NEW p \in Procs, NEW s \in ProcState, proc[p].pc # "up",
           s.pc = "up" => s.key \in Salts,
           proc' = [proc EXCEPT ![p] = s], UNCHANGED op
    PROVE  /\ proc' \in [Procs -> ProcState]
           /\ \A q \in Up' : proc'[q].key \in Salts
           /\ op' \in [Requests -> Op] /\ \A r \in Requests : WellPlaced(op[r])'
<1>1. proc' \in [Procs -> ProcState] /\ \A q \in Procs : proc'[q] = IF q = p THEN s ELSE proc[q]
  BY DEF TypeOK
<1>2. Up \subseteq Up'
  BY <1>1 DEF Up
<1>3. \A q \in Up' : proc'[q].key \in Salts
  BY <1>1 DEF Up, TypeOK
<1> QED BY <1>1, <1>2, <1>3 DEF TypeOK, WellPlaced

\* What the tables, the files and the log must be.
TypedData ==
    /\ versions \subseteq Versions
    /\ entries \in [Entries -> Row]
    /\ jsonl \in [Requests -> SUBSET ExportRow]
    /\ backup \in [Requests -> Database \cup {None}]
    /\ log \in Seq(Event)
    /\ cursor \in 0..Len(log)
    /\ seen \subseteq 1..Len(log)

LEMMA DataType == TypeOK /\ KeepsData => TypedData'
BY DEF TypeOK, TypedData, KeepsData

LEMMA StartType ==
    ASSUME TypeOK, NEW p \in Procs,
           StartProcess(p) \/ FindSalt(p) \/ CreateSalt(p) \/ WriteSalt(p)
    PROVE  TypeOK'
<1>1. KeepsData /\ UNCHANGED op /\ UNCHANGED <<begun, stops>> /\ proc[p].pc # "up"
  BY DEF StartProcess, FindSalt, CreateSalt, WriteSalt
<1>2. PICK pc \in {"down", "find", "create", "write", "read"} : At(p, pc)
  BY DEF StartProcess, FindSalt, CreateSalt, WriteSalt
<1>3. salt' \in {"absent", "empty"} \cup Salts
  BY DEF StartProcess, FindSalt, CreateSalt, WriteSalt, TypeOK
<1> DEFINE s == [pc |-> pc, key |-> None]
<1>4. s \in ProcState /\ s.pc # "up" /\ proc' = [proc EXCEPT ![p] = s]
  BY <1>2 DEF At, ProcState
<1> HIDE DEF s
<1>5. /\ proc' \in [Procs -> ProcState]
      /\ \A q \in Up' : proc'[q].key \in Salts
      /\ op' \in [Requests -> Op] /\ \A r \in Requests : WellPlaced(op[r])'
  BY <1>1, <1>4, ProcOk
<1> QED BY <1>1, <1>3, <1>5, DataType DEF TypeOK, TypedData

LEMMA ReadSaltType ==
    ASSUME TypeOK, NEW p \in Procs, ReadSalt(p)
    PROVE  TypeOK'
<1>1. KeepsData /\ UNCHANGED op /\ UNCHANGED <<salt, begun, stops>> /\ proc[p].pc # "up"
  BY DEF ReadSalt
<1> DEFINE s == IF salt \in Salts THEN [pc |-> "up", key |-> salt]
                ELSE [pc |-> "down", key |-> None]
<1>2. /\ s \in ProcState
      /\ s.pc = "up" => s.key \in Salts
      /\ proc' = [proc EXCEPT ![p] = s]
  BY DEF ReadSalt, ProcState
<1> HIDE DEF s
<1>3. /\ proc' \in [Procs -> ProcState]
      /\ \A q \in Up' : proc'[q].key \in Salts
      /\ op' \in [Requests -> Op] /\ \A r \in Requests : WellPlaced(op[r])'
  BY <1>1, <1>2, ProcOk
<1> QED BY <1>1, <1>3, DataType DEF TypeOK, TypedData

LEMMA StopType ==
    ASSUME TypeOK, NEW p \in Procs, Stop(p)
    PROVE  TypeOK'
<1>1. proc' \in [Procs -> ProcState] /\ Up' = Up \ {p}
  BY DEF Stop, TypeOK, ProcState, Up
<1>2. op' \in [Requests -> Op]
  BY IdleOk DEF Stop, TypeOK
<1>3. ASSUME NEW r \in Requests
      PROVE  WellPlaced(op[r])'
  BY <1>1, IdleOk DEF Stop, TypeOK, WellPlaced, Up
<1>4. \A q \in Up' : proc'[q].key \in Salts
  BY <1>1 DEF Stop, TypeOK, Up
<1>5. stops' \in 0..MaxStops
  BY DEF Stop, TypeOK
<1> QED BY <1>1, <1>2, <1>3, <1>4, <1>5, DataType DEF Stop, TypeOK, TypedData

\* A request moves and nothing else but tables it is known to keep typed.
LEMMA RequestType ==
    ASSUME TypeOK, NEW r \in Requests, NEW o \in Op, WellPlaced(o), Moves(r, o),
           UNCHANGED <<salt, proc, stops>>, TypedData', begun' \in 0..MaxRequests
    PROVE  TypeOK'
<1>1. op' \in [Requests -> Op] /\ \A q \in Requests : WellPlaced(op[q])'
  BY MovedOk
<1>2. \A p \in Up' : proc'[p].key \in Salts
  BY DEF TypeOK, Up
<1> QED BY <1>1, <1>2 DEF TypeOK, TypedData

LEMMA Placed ==
    ASSUME TypeOK, NEW r \in Requests
    PROVE  op[r] \in Op /\ WellPlaced(op[r]) /\ begun \in 0..MaxRequests
BY DEF TypeOK

LEMMA NewOk ==
    ASSUME TypeOK, NEW p \in Up, NEW pc \in {"row", "finish", "read"},
           NEW kind \in {"add", "import", "jsonl", "sqlite"}, NEW todo \in SUBSET ExportRow
    PROVE  LET o == New(p, pc, kind, todo) IN
           /\ o \in Op /\ WellPlaced(o)
           /\ o.pc = pc /\ o.proc = p /\ o.kind = kind /\ o.todo = todo
<1>1. Len(log) \in Nat /\ p \in Procs
  BY DEF TypeOK, Up
<1>2. NoDatabase \in Database
  BY DEF NoDatabase, Database
<1>3. New(p, pc, kind, todo) \in Op
  BY <1>1, <1>2, ZeroOk DEF Op, SyncPoints, New
<1>4. WellPlaced(New(p, pc, kind, todo))
  BY DEF WellPlaced, New
<1> QED BY <1>3, <1>4 DEF New

LEMMA BeginType ==
    ASSUME TypeOK, NEW r \in Requests, NEW p \in Procs,
           BeginAdd(r, p) \/ BeginImport(r, p) \/ BeginExport(r, p)
    PROVE  TypeOK'
<1>1. p \in Up /\ begun' \in 0..MaxRequests
  BY DEF BeginAdd, BeginImport, BeginExport, Begins, TypeOK
<1>2. UNCHANGED <<salt, proc, stops>> /\ TypedData'
  BY DEF BeginAdd, BeginImport, BeginExport, KeepsFiles, TypeOK, TypedData
<1>3. PICK o \in Op : WellPlaced(o) /\ Moves(r, o)
  <2>1. CASE BeginAdd(r, p)
    <3>1. PICK e \in Entries :
             Moves(r, New(p, "row", "add", {[entry |-> e, key |-> Plain]}))
      BY <2>1 DEF BeginAdd, Fresh
    <3>2. {[entry |-> e, key |-> Plain]} \in SUBSET ExportRow
      BY DEF ExportRow
    <3> QED BY <1>1, <3>1, <3>2, NewOk
  <2>2. CASE BeginImport(r, p)
    <3>1. PICK rows \in {jsonl[q] : q \in Requests} \cup {ForeignRows} :
             Moves(r, New(p, IF rows = {} THEN "finish" ELSE "row", "import", rows))
      BY <2>2 DEF BeginImport
    <3>2. rows \in SUBSET ExportRow
      BY DEF TypeOK, ExportRow, Keys
    <3> QED BY <1>1, <3>1, <3>2, NewOk
  <2>3. CASE BeginExport(r, p)
    <3>1. PICK kind \in {"jsonl", "sqlite"} : Moves(r, New(p, "read", kind, {}))
      BY <2>3 DEF BeginExport
    <3> QED BY <1>1, <3>1, NewOk
  <2> QED BY <2>1, <2>2, <2>3
<1> QED BY <1>1, <1>2, <1>3, RequestType

LEMMA CheckRowType ==
    ASSUME TypeOK, NEW r \in Requests, CheckRow(r)
    PROVE  TypeOK'
<1>1. op[r] \in Op /\ op[r].proc \in Up
  BY Placed DEF CheckRow, WellPlaced
<1>2. UNCHANGED <<salt, proc, stops, begun>> /\ TypedData'
  BY DEF CheckRow, KeepsFiles, TypeOK, TypedData
<1>3. PICK o \in Op : WellPlaced(o) /\ Moves(r, o)
  BY <1>1 DEF CheckRow, Op, SyncPoints, WellPlaced, EventKinds
<1> QED BY <1>1, <1>2, <1>3, Placed, RequestType

\* The other steps of a write keep its process.
LEMMA WriteType ==
    ASSUME TypeOK, NEW r \in Requests,
           \/ ReturnVector(r) \/ AuditDegraded(r) \/ InsertRow(r) \/ AuditRow(r)
           \/ FinishImport(r)
    PROVE  TypeOK'
<1>1. op[r] \in Op /\ op[r].proc \in Up /\ WellPlaced(op[r]) /\ begun \in 0..MaxRequests
  BY Placed DEF ReturnVector, AuditDegraded, InsertRow, AuditRow, FinishImport, WellPlaced
<1>2. UNCHANGED <<salt, proc, stops, begun, jsonl, backup, cursor, seen>>
  BY DEF ReturnVector, AuditDegraded, InsertRow, AuditRow, FinishImport, KeepsFiles
<1>3. CASE ReturnVector(r)
  <2>1. TypedData'
    BY <1>3 DEF ReturnVector, KeepsFiles, TypeOK, TypedData
  <2>2. PICK pc \in {"insert", "degraded"} : Moves(r, [op[r] EXCEPT !.pc = pc])
    BY <1>3 DEF ReturnVector
  <2>3. op[r].row \in ExportRow
    BY <1>1, <1>3 DEF ReturnVector, WellPlaced
  <2>4. [op[r] EXCEPT !.pc = pc] \in Op /\ WellPlaced([op[r] EXCEPT !.pc = pc])
    BY <1>1, <2>3 DEF Op, SyncPoints, WellPlaced
  <2> QED BY <1>1, <1>2, <2>1, <2>2, <2>4, RequestType
<1>4. CASE AuditDegraded(r)
  <2>1. TypedData'
    BY <1>2, <1>4, AppendedOk, ZeroOk DEF AuditDegraded, TypeOK, TypedData, EventKinds
  <2>2. op[r].row \in ExportRow
    BY <1>1, <1>4 DEF AuditDegraded, WellPlaced
  <2> DEFINE o == [op[r] EXCEPT !.pc = "audit", !.outcome = "rejected"]
  <2>3. o \in Op /\ WellPlaced(o)
    BY <1>1, <2>2 DEF Op, SyncPoints, WellPlaced, EventKinds
  <2>4. Moves(r, o)
    BY <1>4 DEF AuditDegraded
  <2> HIDE DEF o
  <2> QED BY <1>1, <1>2, <2>1, <2>3, <2>4, RequestType
<1>5. CASE InsertRow(r)
  <2>1. op[r].row \in ExportRow /\ op[r].row.entry \in Entries
    BY <1>1, <1>5 DEF InsertRow, WellPlaced, ExportRow
  <2>2. [key |-> KeyFor(op[r].proc, op[r].row.entry), vecs |-> {Current}] \in Row
    BY <1>1 DEF KeyFor, Row, TypeOK, Keys
  <2>3. TypedData'
    BY <1>5, <2>1, <2>2 DEF InsertRow, KeepsFiles, TypeOK, TypedData
  <2> DEFINE o == [op[r] EXCEPT !.pc = "audit", !.outcome = "accepted"]
  <2>4. o \in Op /\ WellPlaced(o)
    BY <1>1, <2>1 DEF Op, SyncPoints, WellPlaced, EventKinds
  <2>5. Moves(r, o) \/ Moves(r, Idle)
    BY <1>5 DEF InsertRow
  <2>6. WellPlaced(Idle)
    BY IdleOk DEF WellPlaced
  <2> HIDE DEF o
  <2> QED BY <1>1, <1>2, <2>3, <2>4, <2>5, <2>6, IdleOk, RequestType
<1>6. CASE AuditRow(r)
  <2>1. op[r].outcome \in {"accepted", "duplicate", "rejected"}
    BY <1>1, <1>6 DEF AuditRow, WellPlaced
  <2>2. TypedData'
    BY <1>2, <1>6, <2>1, AppendedOk, ZeroOk DEF AuditRow, TypeOK, TypedData, EventKinds
  <2> DEFINE c == Counted(op[r].counts, op[r].outcome)
             pc == IF op[r].todo = {} THEN "finish" ELSE "row"
  <2>3. c \in Counts
    BY <1>1, <2>1, CountedOk DEF Op
  <2>4. pc \in {"finish", "row"}
    OBVIOUS
  <2>5. \/ Moves(r, [op[r] EXCEPT !.pc = pc, !.row = None, !.outcome = None, !.counts = c])
        \/ Moves(r, Idle)
    BY <1>6 DEF AuditRow
  <2> HIDE DEF c, pc
  <2> DEFINE o == [op[r] EXCEPT !.pc = pc, !.row = None, !.outcome = None, !.counts = c]
  <2>6. o \in Op
    BY <1>1, <2>3, <2>4 DEF Op, SyncPoints
  <2>7. WellPlaced(o)
    BY <1>1, <2>4 DEF Op, WellPlaced
  <2>8. WellPlaced(Idle)
    BY IdleOk DEF WellPlaced
  <2> HIDE DEF o
  <2>9. Moves(r, o) \/ Moves(r, Idle)
    BY <2>5 DEF o
  <2> QED BY <1>1, <1>2, <2>2, <2>6, <2>7, <2>8, <2>9, IdleOk, RequestType
<1>7. CASE FinishImport(r)
  <2>1. op[r].counts \in Counts
    BY <1>1 DEF Op
  <2>2. TypedData'
    BY <1>2, <1>7, <2>1, AppendedOk DEF FinishImport, TypeOK, TypedData, EventKinds
  <2>3. WellPlaced(Idle)
    BY IdleOk DEF WellPlaced
  <2>4. Moves(r, Idle)
    BY <1>7 DEF FinishImport
  <2> QED BY <1>1, <1>2, <2>2, <2>3, <2>4, IdleOk, RequestType
<1> QED BY <1>3, <1>4, <1>5, <1>6, <1>7

LEMMA DatabaseOk ==
    ASSUME TypeOK, NEW rows \in SUBSET ExportRow
    PROVE  VectorsOf(rows) \subseteq Entries \X Versions
<1>1. ASSUME NEW row \in rows
      PROVE  {row.entry} \X entries[row.entry].vecs \subseteq Entries \X Versions
  <2>1. row.entry \in Entries /\ entries[row.entry].vecs \subseteq Versions
    BY DEF ExportRow, TypeOK, Row
  <2> QED BY <2>1
<1> QED BY <1>1 DEF VectorsOf

\* The steps of an export.
LEMMA ExportType ==
    ASSUME TypeOK, NEW r \in Requests, ExportStep(r)
    PROVE  TypeOK'
<1>1. /\ op[r] \in Op /\ op[r].proc \in Up /\ op[r].tmp \in Database
      /\ begun \in 0..MaxRequests
  BY Placed DEF ExportStep, ReadEntries, TruncateFile, WriteLine, ReadVersions, ReadVectors,
                Fill, ReplaceTarget, AuditExport, WellPlaced, Op
<1>2. UNCHANGED <<salt, proc, stops, begun, cursor, seen>>
  BY DEF ExportStep, ReadEntries, TruncateFile, WriteLine, ReadVersions, ReadVectors,
         Fill, ReplaceTarget, AuditExport, KeepsFiles, KeepsAllButJsonl
<1>3. WellPlaced(Idle)
  BY IdleOk DEF WellPlaced
<1>4. ASSUME NEW o \in Op, Moves(r, o), o.proc = op[r].proc,
             o.pc \in SyncPoints \ {"insert", "degraded", "audit"}, TypedData'
      PROVE  TypeOK'
  <2>1. WellPlaced(o)
    BY <1>1, <1>4 DEF WellPlaced, SyncPoints
  <2> QED BY <1>1, <1>2, <1>4, <2>1, RequestType
<1>5. CASE ReadEntries(r)
  <2>1. TypedData'
    BY <1>5 DEF ReadEntries, KeepsFiles, TypeOK, TypedData
  <2> DEFINE rows == {[entry |-> e, key |-> entries[e].key] : e \in Stored}
             o1 == [op[r] EXCEPT !.pc = "truncate", !.todo = rows]
             o2 == [op[r] EXCEPT !.pc = "versions", !.tmp.rows = rows]
  <2>2. rows \in SUBSET ExportRow
    BY DEF Stored, ExportRow, TypeOK, Row
  <2>3. Moves(r, o1) \/ Moves(r, o2)
    BY <1>5 DEF ReadEntries
  <2> HIDE DEF rows
  <2>4. o1 \in Op /\ o2 \in Op
    BY <1>1, <2>2 DEF Op, SyncPoints, Database
  <2>5. o1.proc = op[r].proc /\ o1.pc = "truncate" /\ o2.proc = op[r].proc /\ o2.pc = "versions"
    BY <1>1 DEF Op
  <2> HIDE DEF o1, o2
  <2> QED BY <1>4, <2>1, <2>3, <2>4, <2>5 DEF SyncPoints
<1>6. CASE TruncateFile(r)
  <2>1. TypedData'
    BY <1>6 DEF TruncateFile, KeepsAllButJsonl, TypeOK, TypedData
  <2>2. PICK pc \in {"auditExport", "write"} : Moves(r, [op[r] EXCEPT !.pc = pc])
    BY <1>6 DEF TruncateFile
  <2> DEFINE o == [op[r] EXCEPT !.pc = pc]
  <2>3. o \in Op /\ o.proc = op[r].proc /\ o.pc = pc
    BY <1>1 DEF Op, SyncPoints
  <2> QED BY <1>4, <2>1, <2>2, <2>3 DEF SyncPoints
<1>7. CASE WriteLine(r)
  <2>1. PICK row \in op[r].todo :
             /\ jsonl' = [jsonl EXCEPT ![r] = @ \cup {row}]
             /\ Moves(r, [op[r] EXCEPT !.todo = @ \ {row},
                                       !.pc = IF op[r].todo = {row} THEN "auditExport" ELSE @])
    BY <1>7 DEF WriteLine
  <2>2. row \in ExportRow /\ op[r].pc = "write"
    BY <1>1, <1>7 DEF Op, WriteLine
  <2>3. TypedData'
    BY <1>7, <2>1, <2>2 DEF WriteLine, KeepsAllButJsonl, TypeOK, TypedData
  <2>4. PICK pc \in {"auditExport", "write"} :
             Moves(r, [op[r] EXCEPT !.todo = @ \ {row}, !.pc = pc])
    BY <2>1, <2>2
  <2> DEFINE o == [op[r] EXCEPT !.todo = @ \ {row}, !.pc = pc]
  <2>5. o \in Op /\ o.proc = op[r].proc /\ o.pc = pc
    BY <1>1 DEF Op, SyncPoints
  <2> QED BY <1>4, <2>3, <2>4, <2>5 DEF SyncPoints
<1>8. CASE ReadVersions(r)
  <2>1. TypedData'
    BY <1>8 DEF ReadVersions, KeepsFiles, TypeOK, TypedData
  <2> DEFINE o == [op[r] EXCEPT !.pc = "vectors", !.tmp.versions = versions]
  <2>2. o \in Op /\ o.proc = op[r].proc /\ o.pc = "vectors"
    BY <1>1 DEF Op, SyncPoints, Database, TypeOK
  <2> QED BY <1>4, <1>8, <2>1, <2>2 DEF SyncPoints, ReadVersions
<1>9. CASE ReadVectors(r)
  <2>1. TypedData'
    BY <1>9 DEF ReadVectors, KeepsFiles, TypeOK, TypedData
  <2> DEFINE vs == VectorsOf(op[r].tmp.rows)
             o  == [op[r] EXCEPT !.pc = "fill", !.tmp.vecs = vs]
  <2>2. vs \in SUBSET (Entries \X Versions)
    BY <1>1, DatabaseOk DEF Database
  <2>3. Moves(r, o)
    BY <1>9 DEF ReadVectors
  <2> HIDE DEF vs
  <2>4. o \in Op /\ o.proc = op[r].proc /\ o.pc = "fill"
    BY <1>1, <2>2 DEF Op, SyncPoints, Database
  <2> QED BY <1>4, <2>1, <2>3, <2>4 DEF SyncPoints
<1>10. CASE Fill(r)
  <2>1. TypedData'
    BY <1>10 DEF Fill, KeepsFiles, TypeOK, TypedData
  <2> DEFINE vs == op[r].tmp.versions \cap Used(op[r].tmp)
             o  == [op[r] EXCEPT !.pc = "replace", !.tmp.versions = vs]
  <2>2. vs \in SUBSET Versions
    BY <1>1 DEF Database
  <2>3. Moves(r, o) \/ Moves(r, Idle)
    BY <1>10 DEF Fill
  <2> HIDE DEF vs
  <2>4. o \in Op /\ o.proc = op[r].proc /\ o.pc = "replace"
    BY <1>1, <2>2 DEF Op, SyncPoints, Database
  <2> HIDE DEF o
  <2>5. CASE Moves(r, o)
    BY <1>4, <2>1, <2>4, <2>5 DEF SyncPoints
  <2>6. CASE Moves(r, Idle)
    BY <1>1, <1>2, <1>3, <2>1, <2>6, IdleOk, RequestType
  <2> QED BY <2>3, <2>5, <2>6
<1>11. CASE ReplaceTarget(r)
  <2>1. TypedData'
    BY <1>1, <1>11 DEF ReplaceTarget, TypeOK, TypedData
  <2> DEFINE o == [op[r] EXCEPT !.pc = "auditExport", !.tmp = NoDatabase]
  <2>2. o \in Op /\ o.proc = op[r].proc /\ o.pc = "auditExport"
    BY <1>1 DEF Op, SyncPoints, Database, NoDatabase
  <2> QED BY <1>4, <1>11, <2>1, <2>2 DEF SyncPoints, ReplaceTarget
<1>12. CASE AuditExport(r)
  <2>1. TypedData'
    BY <1>12, AppendedOk, ZeroOk DEF AuditExport, KeepsFiles, TypeOK, TypedData, EventKinds
  <2> QED BY <1>1, <1>2, <1>3, <1>12, <2>1, IdleOk, RequestType DEF AuditExport
<1> QED BY <1>5, <1>6, <1>7, <1>8, <1>9, <1>10, <1>11, <1>12 DEF ExportStep

LEMMA TableType ==
    ASSUME TypeOK, NEW p \in Procs, RegisterVersion(p) \/ FileVector(p)
    PROVE  TypeOK'
<1>1. KeepsAllButData
  BY DEF RegisterVersion, FileVector
<1>2. versions' \subseteq Versions
  BY DEF RegisterVersion, FileVector, TypeOK
<1>3. entries' \in [Entries -> Row]
  <2>1. CASE RegisterVersion(p)
    BY <2>1 DEF RegisterVersion, TypeOK
  <2>2. CASE FileVector(p)
    <3>1. PICK v \in versions, e \in Stored :
               entries' = [entries EXCEPT ![e].vecs = @ \cup {v}]
      BY <2>2 DEF FileVector
    <3>2. e \in Entries /\ v \in Versions
      BY DEF Stored, TypeOK
    <3> QED BY <3>1, <3>2 DEF TypeOK, Row
  <2> QED BY <2>1, <2>2
<1>4. Up' = Up
  BY <1>1 DEF Up, KeepsAllButData
<1>5. \A r \in Requests : WellPlaced(op[r])'
  BY <1>1, <1>4 DEF TypeOK, WellPlaced, KeepsAllButData
<1> QED BY <1>1, <1>2, <1>3, <1>4, <1>5 DEF TypeOK, KeepsAllButData

LEMMA PollType ==
    ASSUME TypeOK, NEW p \in Procs, PollAudit(p)
    PROVE  TypeOK'
<1>1. UNCHANGED <<salt, proc, versions, entries, jsonl, backup, log, op, begun, stops>>
  BY DEF PollAudit
<1>2. Page(cursor) \subseteq 1..Len(log)
  BY DEF Page, Matching
<1>3. cursor' \in 0..Len(log) /\ seen' \subseteq 1..Len(log)
  <2>1. Len(log) \in Nat /\ cursor \in 0..Len(log) /\ seen \subseteq 1..Len(log)
    BY DEF TypeOK
  <2>2. cursor' \in Page(cursor) \cup {cursor} /\ seen' = seen \cup Page(cursor)
    BY DEF PollAudit
  <2>3. cursor' \in 1..Len(log) \/ cursor' = cursor
    BY <1>2, <2>2
  <2>4. cursor' \in 0..Len(log)
    BY <2>1, <2>3
  <2> QED BY <1>2, <2>1, <2>2, <2>4
<1>4. Up' = Up
  BY <1>1 DEF Up
<1>5. \A r \in Requests : WellPlaced(op[r])'
  BY <1>1, <1>4 DEF TypeOK, WellPlaced
<1> QED BY <1>1, <1>3, <1>4, <1>5 DEF TypeOK

LEMMA NextType == TypeOK /\ [Next]_vars => TypeOK'
<1> SUFFICES ASSUME TypeOK, [Next]_vars PROVE TypeOK'
  OBVIOUS
<1>1. ASSUME NEW p \in Procs, ProcessStep(p)
      PROVE  TypeOK'
  BY <1>1, StartType, ReadSaltType, StopType, TableType, PollType DEF ProcessStep
<1>2. ASSUME NEW r \in Requests, Begin(r) \/ WriteStep(r)
      PROVE  TypeOK'
  BY <1>2, BeginType, CheckRowType, WriteType DEF Begin, WriteStep
<1>3. ASSUME NEW r \in Requests, ExportStep(r)
      PROVE  TypeOK'
  BY <1>3, ExportType
<1>4. CASE UNCHANGED vars
  <2>1. Up' = Up
    BY <1>4 DEF Up, vars
  <2>2. \A r \in Requests : WellPlaced(op[r])'
    BY <1>4, <2>1 DEF TypeOK, WellPlaced, vars
  <2> QED BY <1>4, <2>1, <2>2 DEF TypeOK, vars
<1> QED BY <1>1, <1>2, <1>3, <1>4 DEF Next

\* Every variable keeps its type, and a request at work has a running process
\* and the row it needs.
THEOREM TypeCorrect == Spec => []TypeOK
BY InitType, NextType, PTL DEF Spec

----------------------------------------------------------------------------
(* Who may bind, and whom a process serves *)

StartStep(p) == StartProcess(p) \/ FindSalt(p) \/ CreateSalt(p) \/ WriteSalt(p) \/ ReadSalt(p)

\* Only the start and the stop of a process touch processes and the salt.
LEMMA ProcKept ==
    ASSUME [Next]_vars
    PROVE  UNCHANGED <<salt, proc>> \/ \E p \in Procs : StartStep(p) \/ Stop(p)
<1>1. ASSUME NEW p \in Procs, RegisterVersion(p) \/ FileVector(p) \/ PollAudit(p)
      PROVE  UNCHANGED <<salt, proc>>
  BY <1>1 DEF RegisterVersion, FileVector, PollAudit, KeepsAllButData
<1>2. ASSUME NEW r \in Requests, Begin(r)
      PROVE  UNCHANGED <<salt, proc>>
  BY <1>2 DEF Begin, BeginAdd, BeginImport, BeginExport, KeepsFiles
<1>3. ASSUME NEW r \in Requests, WriteStep(r)
      PROVE  UNCHANGED <<salt, proc>>
  BY <1>3 DEF WriteStep, CheckRow, ReturnVector, AuditDegraded, InsertRow, AuditRow,
              FinishImport, KeepsFiles
<1>4. ASSUME NEW r \in Requests, ExportStep(r)
      PROVE  UNCHANGED <<salt, proc>>
  BY <1>4 DEF ExportStep, ReadEntries, TruncateFile, WriteLine, ReadVersions, ReadVectors,
              Fill, ReplaceTarget, AuditExport, KeepsFiles, KeepsAllButJsonl
<1>5. CASE UNCHANGED vars
  BY <1>5 DEF vars
<1> QED BY <1>1, <1>2, <1>3, <1>4, <1>5 DEF Next, ProcessStep, StartStep

LEMMA StartedNext == TypeOK /\ Started /\ [Next]_vars => Started'
<1> SUFFICES ASSUME TypeOK, Started, [Next]_vars PROVE Started'
  OBVIOUS
<1>1. ASSUME NEW p \in Procs, StartStep(p) \/ Stop(p)
      PROVE  Started'
  BY <1>1 DEF Started, StartStep, StartProcess, FindSalt, CreateSalt, WriteSalt, ReadSalt,
              Stop, At, TypeOK, MayBind
<1>2. CASE UNCHANGED proc
  BY <1>2 DEF Started, MayBind
<1> QED BY <1>1, <1>2, ProcKept

LEMMA MovesTo ==
    ASSUME TypeOK, NEW r \in Requests, NEW o, Moves(r, o)
    PROVE  op'[r] = o
BY DEF Moves, TypeOK

\* A step of a write keeps the process and the kind of its request, reads no
\* more rows, and never reaches the middle of an export.
Written(r) ==
    /\ WriteStep(r)
    /\ op'[r].proc = op[r].proc /\ op'[r].kind = op[r].kind
    /\ op'[r].todo \subseteq op[r].todo
    /\ op'[r].pc \notin {"truncate", "write", "versions", "vectors", "fill", "replace"}

Exported(r) ==
    /\ ExportStep(r)
    /\ op'[r].proc = op[r].proc /\ op'[r].kind = op[r].kind

\* What a step does to a slot.
LEMMA SlotStep ==
    ASSUME TypeOK, [Next]_vars, NEW r \in Requests
    PROVE  \/ op'[r] = op[r]
           \/ op'[r] = Idle
           \/ Written(r) /\ op[r].pc # "idle"
           \/ Exported(r) /\ op[r].pc # "idle"
           \/ \E p \in Procs : BeginAdd(r, p) \/ BeginImport(r, p) \/ BeginExport(r, p)
<1> DEFINE Goal == \/ op'[r] = op[r]
                   \/ op'[r] = Idle
                   \/ Written(r) /\ op[r].pc # "idle"
                   \/ Exported(r) /\ op[r].pc # "idle"
                   \/ \E p \in Procs : BeginAdd(r, p) \/ BeginImport(r, p) \/ BeginExport(r, p)
<1> SUFFICES Goal
  OBVIOUS
<1>1. ASSUME NEW p \in Procs, ProcessStep(p)
      PROVE  Goal
  BY <1>1 DEF ProcessStep, StartProcess, FindSalt, CreateSalt, WriteSalt, ReadSalt, Stop,
              RegisterVersion, FileVector, PollAudit, KeepsAllButData
<1>2. ASSUME NEW q \in Requests, q # r, Begin(q) \/ WriteStep(q) \/ ExportStep(q)
      PROVE  op'[r] = op[r]
  <2>1. PICK o : Moves(q, o)
    BY <1>2 DEF Begin, BeginAdd, BeginImport, BeginExport, WriteStep, CheckRow, ReturnVector,
                AuditDegraded, InsertRow, AuditRow, FinishImport, ExportStep, ReadEntries,
                TruncateFile, WriteLine, ReadVersions, ReadVectors, Fill, ReplaceTarget,
                AuditExport
  <2> QED BY <1>2, <2>1 DEF Moves, TypeOK
<1>3. CASE WriteStep(r)
  <2>1. op[r].pc # "idle" /\ op[r] \in Op
    BY <1>3 DEF WriteStep, CheckRow, ReturnVector, AuditDegraded, InsertRow, AuditRow,
                FinishImport, TypeOK
  <2> DEFINE Fits(o) == /\ o.proc = op[r].proc /\ o.kind = op[r].kind
                        /\ o.todo \subseteq op[r].todo
                        /\ o.pc \notin {"truncate", "write", "versions", "vectors", "fill",
                                      "replace"}
             Kept == op'[r] = Idle \/ Written(r)
  <2>2. ASSUME NEW o, Moves(r, o), Fits(o)
        PROVE  Kept
    BY <1>3, <2>2, MovesTo DEF Written
  <2>3. ASSUME Moves(r, Idle)
        PROVE  Kept
    BY <2>3, MovesTo
  <2>4. ASSUME CheckRow(r)
        PROVE  Kept
    <3> DEFINE o(row) == [op[r] EXCEPT !.row = row, !.todo = @ \ {row}]
               audited(row, c) == [o(row) EXCEPT !.pc = "audit", !.outcome = c]
               embedding(row) == [o(row) EXCEPT !.pc = "embed"]
    <3>1. \E row, c : Moves(r, audited(row, c)) \/ Moves(r, embedding(row))
      BY <2>4 DEF CheckRow
    <3>2. ASSUME NEW row, NEW c
          PROVE  Fits(audited(row, c)) /\ Fits(embedding(row))
      BY <2>1 DEF Op
    <3> HIDE DEF o, audited, embedding, Fits, Kept
    <3> QED BY <3>1, <3>2, <2>2
  <2>5. ASSUME ReturnVector(r)
        PROVE  Kept
    <3>1. PICK pc \in {"insert", "degraded"} : Moves(r, [op[r] EXCEPT !.pc = pc])
      BY <2>5 DEF ReturnVector
    <3>2. Fits([op[r] EXCEPT !.pc = pc])
      BY <2>1 DEF Op
    <3> HIDE DEF Fits, Kept
    <3> QED BY <3>1, <3>2, <2>2
  <2>6. ASSUME AuditDegraded(r) \/ InsertRow(r)
        PROVE  Kept
    <3> DEFINE o(c) == [op[r] EXCEPT !.pc = "audit", !.outcome = c]
    <3>1. Moves(r, Idle) \/ \E c : Moves(r, o(c))
      BY <2>6 DEF AuditDegraded, InsertRow
    <3>2. ASSUME NEW c
          PROVE  Fits(o(c))
      BY <2>1 DEF Op
    <3> HIDE DEF o, Fits, Kept
    <3> QED BY <3>1, <3>2, <2>2, <2>3
  <2>7. ASSUME AuditRow(r)
        PROVE  Kept
    <3> DEFINE o(pc, c) == [op[r] EXCEPT !.pc = pc, !.row = None, !.outcome = None,
                                         !.counts = c]
               next == IF op[r].todo = {} THEN "finish" ELSE "row"
               counts == Counted(op[r].counts, op[r].outcome)
    <3>1. Moves(r, Idle) \/ Moves(r, o(next, counts))
      BY <2>7 DEF AuditRow
    <3>2. Fits(o(next, counts))
      BY <2>1 DEF Op
    <3> HIDE DEF o, Fits, Kept, next, counts
    <3> QED BY <3>1, <3>2, <2>2, <2>3
  <2>8. ASSUME FinishImport(r)
        PROVE  Kept
    BY <2>3, <2>8 DEF FinishImport
  <2> QED BY <1>3, <2>1, <2>4, <2>5, <2>6, <2>7, <2>8 DEF WriteStep
<1>4. CASE ExportStep(r)
  <2>1. op[r].pc # "idle" /\ op[r] \in Op
    BY <1>4 DEF ExportStep, ReadEntries, TruncateFile, WriteLine, ReadVersions, ReadVectors,
                Fill, ReplaceTarget, AuditExport, TypeOK
  <2> DEFINE Kept == op'[r] = Idle \/ (op'[r].proc = op[r].proc /\ op'[r].kind = op[r].kind)
  <2>2. ReadEntries(r) => Kept
    BY <2>1 DEF ReadEntries, Moves, TypeOK, Op
  <2>3. TruncateFile(r) => Kept
    BY <2>1 DEF TruncateFile, Moves, TypeOK, Op
  <2>4. WriteLine(r) => Kept
    BY <2>1 DEF WriteLine, Moves, TypeOK, Op
  <2>5. ReadVersions(r) => Kept
    BY <2>1 DEF ReadVersions, Moves, TypeOK, Op
  <2>6. ReadVectors(r) => Kept
    BY <2>1 DEF ReadVectors, Moves, TypeOK, Op
  <2>7. Fill(r) => Kept
    BY <2>1 DEF Fill, Moves, TypeOK, Op
  <2>8. ReplaceTarget(r) => Kept
    BY <2>1 DEF ReplaceTarget, Moves, TypeOK, Op
  <2>9. AuditExport(r) => Kept
    BY <2>1 DEF AuditExport, Moves, TypeOK, Op
  <2> QED BY <1>4, <2>1, <2>2, <2>3, <2>4, <2>5, <2>6, <2>7, <2>8, <2>9 DEF ExportStep, Exported
<1>5. CASE Begin(r)
  BY <1>5 DEF Begin
<1>6. CASE UNCHANGED vars
  BY <1>6 DEF vars
<1> QED BY <1>1, <1>2, <1>3, <1>4, <1>5, <1>6 DEF Next

LEMMA StrangersNext ==
    TypeOK /\ Started /\ StrangersStayLocal /\ [Next]_vars => StrangersStayLocal'
<1> SUFFICES ASSUME TypeOK, Started, StrangersStayLocal, [Next]_vars,
                    NEW r \in Requests \ Bearers, op'[r].pc # "idle"
             PROVE  op'[r].proc \in Loopback
  BY DEF StrangersStayLocal
<1>1. CASE op'[r] = op[r]
  BY <1>1 DEF StrangersStayLocal
<1>2. CASE op'[r].proc = op[r].proc /\ op[r].pc # "idle"
  BY <1>2 DEF StrangersStayLocal
<1>3. CASE op'[r] = Idle
  BY <1>3, IdleOk
<1>4. CASE \E p \in Procs : BeginAdd(r, p) \/ BeginImport(r, p) \/ BeginExport(r, p)
  <2>1. PICK p \in Procs : BeginAdd(r, p) \/ BeginImport(r, p) \/ BeginExport(r, p)
    BY <1>4
  <2>2. op'[r].proc = p
    BY <2>1 DEF BeginAdd, BeginImport, BeginExport, New, Moves, TypeOK
  <2>3. MayBind(p) /\ p \notin WithToken
    BY <2>1 DEF BeginAdd, BeginImport, BeginExport, Begins, Admitted, Up, Started
  <2> QED BY <2>2, <2>3 DEF MayBind
<1> QED BY <1>1, <1>2, <1>3, <1>4, SlotStep DEF Written, Exported

----------------------------------------------------------------------------
(* The salt file *)

LEMMA SaltedNext == TypeOK /\ Salted /\ [Next]_vars => Salted'
<1> SUFFICES ASSUME TypeOK, Salted, [Next]_vars PROVE Salted'
  OBVIOUS
<1>1. salt \notin {"absent", "empty"} <=> salt \in Salts
  BY DEF TypeOK, Keys
<1>2. Up # {} => salt \in Salts
  BY DEF TypeOK, Salted
<1>3. ASSUME NEW p \in Procs, StartStep(p) \/ Stop(p)
      PROVE  Salted'
  <2>1. CASE StartProcess(p) \/ FindSalt(p) \/ Stop(p)
    <3>1. salt' = salt /\ proc'[p].pc \notin {"write", "up"}
      BY <2>1 DEF StartProcess, FindSalt, Stop, At, TypeOK
    <3>2. \A q \in Procs \ {p} : proc'[q] = proc[q]
      BY <2>1 DEF StartProcess, FindSalt, Stop, At, TypeOK
    <3> QED BY <3>1, <3>2 DEF Salted, Up
  <2>2. CASE CreateSalt(p)
    <3>1. \A q \in Procs \ {p} : proc'[q] = proc[q]
      BY <2>2 DEF CreateSalt, At, TypeOK
    <3>2. \/ salt = "absent" /\ salt' = "empty" /\ proc'[p].pc = "write"
          \/ salt' = salt /\ proc'[p].pc = "read"
      BY <2>2 DEF CreateSalt, At, TypeOK
    <3> QED BY <1>1, <1>2, <3>1, <3>2 DEF Salted, Up
  <2>3. CASE WriteSalt(p)
    <3>1. \A q \in Procs \ {p} : proc'[q] = proc[q]
      BY <2>3 DEF WriteSalt, At, TypeOK
    <3>2. proc[p].pc = "write" /\ proc'[p].pc = "read"
      BY <2>3 DEF WriteSalt, At, TypeOK
    <3> QED BY <1>1, <1>2, <3>1, <3>2 DEF Salted, Up
  <2>4. CASE ReadSalt(p)
    <3>1. \A q \in Procs \ {p} : proc'[q] = proc[q]
      BY <2>4 DEF ReadSalt, TypeOK
    <3>2. /\ salt' = salt /\ proc'[p].pc # "write"
          /\ proc'[p].pc = "up" => proc'[p].key = salt
      BY <2>4 DEF ReadSalt, TypeOK
    <3> QED BY <3>1, <3>2 DEF Salted, Up
  <2> QED BY <1>3, <2>1, <2>2, <2>3, <2>4 DEF StartStep
<1>4. CASE UNCHANGED <<salt, proc>>
  BY <1>4 DEF Salted, Up
<1> QED BY <1>3, <1>4, ProcKept

LEMMA KeylessNext == TypeOK /\ Keyless /\ [Next]_vars => Keyless'
<1> SUFFICES ASSUME TypeOK, Keyless, [Next]_vars PROVE Keyless'
  OBVIOUS
<1>1. ASSUME NEW p \in Procs, StartStep(p) \/ Stop(p)
      PROVE  Keyless'
  <2>1. \A q \in Procs \ {p} : proc'[q] = proc[q]
    BY <1>1 DEF StartStep, StartProcess, FindSalt, CreateSalt, WriteSalt, ReadSalt, Stop,
                At, TypeOK
  <2>2. proc'[p].pc = "up" \/ proc'[p].key = None
    BY <1>1 DEF StartStep, StartProcess, FindSalt, CreateSalt, WriteSalt, ReadSalt, Stop,
                At, TypeOK
  <2> QED BY <2>1, <2>2 DEF Keyless, Up
<1>2. CASE UNCHANGED <<salt, proc>>
  BY <1>2 DEF Keyless, Up
<1> QED BY <1>1, <1>2, ProcKept

\* Once the file holds a salt it keeps it.
LEMMA SaltStays ==
    ASSUME TypeOK, Salted, [Next]_vars, salt \in Salts
    PROVE  salt' = salt
<1>1. salt \notin {"absent", "empty"}
  BY DEF Keys
<1>2. ASSUME NEW p \in Procs, StartStep(p) \/ Stop(p)
      PROVE  salt' = salt
  BY <1>1, <1>2 DEF StartStep, StartProcess, FindSalt, CreateSalt, WriteSalt, ReadSalt, Stop,
                    Salted
<1> QED BY <1>2, ProcKept

LEMMA OwnStays ==
    ASSUME TypeOK, Salted, [Next]_vars, NEW key, Own(key)
    PROVE  Own(key)'
BY SaltStays DEF Own

----------------------------------------------------------------------------
(* What a step changes in the tables, the files and the log *)

LEMMA EntriesKept ==
    ASSUME [Next]_vars
    PROVE  \/ entries' = entries
           \/ \E r \in Requests : InsertRow(r)
           \/ \E p \in Procs : FileVector(p)
<1>1. ASSUME NEW p \in Procs, ProcessStep(p), ~FileVector(p)
      PROVE  entries' = entries
  BY <1>1 DEF ProcessStep, StartProcess, FindSalt, CreateSalt, WriteSalt, ReadSalt, Stop,
              KeepsData, RegisterVersion, PollAudit
<1>2. ASSUME NEW r \in Requests, Begin(r)
      PROVE  entries' = entries
  BY <1>2 DEF Begin, BeginAdd, BeginImport, BeginExport
<1>3. ASSUME NEW r \in Requests, WriteStep(r), ~InsertRow(r)
      PROVE  entries' = entries
  BY <1>3 DEF WriteStep, CheckRow, ReturnVector, AuditDegraded, AuditRow, FinishImport
<1>4. ASSUME NEW r \in Requests, ExportStep(r)
      PROVE  entries' = entries
  BY <1>4 DEF ExportStep, ReadEntries, TruncateFile, WriteLine, ReadVersions, ReadVectors,
              Fill, ReplaceTarget, AuditExport, KeepsAllButJsonl
<1>5. CASE UNCHANGED vars
  BY <1>5 DEF vars
<1> QED BY <1>1, <1>2, <1>3, <1>4, <1>5 DEF Next

LEMMA FilesKept ==
    ASSUME [Next]_vars
    PROVE  /\ jsonl' = jsonl \/ \E r \in Requests : TruncateFile(r) \/ WriteLine(r)
           /\ backup' = backup \/ \E r \in Requests : ReplaceTarget(r)
<1>1. ASSUME NEW p \in Procs, ProcessStep(p)
      PROVE  jsonl' = jsonl /\ backup' = backup
  BY <1>1 DEF ProcessStep, StartProcess, FindSalt, CreateSalt, WriteSalt, ReadSalt, Stop,
              KeepsData, RegisterVersion, FileVector, KeepsAllButData, PollAudit
<1>2. ASSUME NEW r \in Requests, Begin(r)
      PROVE  jsonl' = jsonl /\ backup' = backup
  BY <1>2 DEF Begin, BeginAdd, BeginImport, BeginExport, KeepsFiles
<1>3. ASSUME NEW r \in Requests, WriteStep(r)
      PROVE  jsonl' = jsonl /\ backup' = backup
  BY <1>3 DEF WriteStep, CheckRow, ReturnVector, AuditDegraded, InsertRow, AuditRow,
              FinishImport, KeepsFiles
<1>4. ASSUME NEW r \in Requests, ExportStep(r)
      PROVE  /\ jsonl' = jsonl \/ TruncateFile(r) \/ WriteLine(r)
             /\ backup' = backup \/ ReplaceTarget(r)
  BY <1>4 DEF ExportStep, ReadEntries, TruncateFile, WriteLine, ReadVersions, ReadVectors,
              Fill, ReplaceTarget, AuditExport, KeepsAllButJsonl, KeepsFiles
<1>5. CASE UNCHANGED vars
  BY <1>5 DEF vars
<1> QED BY <1>1, <1>2, <1>3, <1>4, <1>5 DEF Next

\* An entry that is stored stays, with its key, and keeps its vectors.
LEMMA EntriesStay ==
    ASSUME TypeOK, [Next]_vars, NEW e \in Stored
    PROVE  /\ e \in Stored' /\ entries'[e].key = entries[e].key
           /\ entries[e].vecs \subseteq entries'[e].vecs
<1>1. CASE entries' = entries
  BY <1>1 DEF Stored
<1>2. ASSUME NEW r \in Requests, InsertRow(r)
      PROVE  entries'[e] = entries[e]
  BY <1>2 DEF InsertRow, TypeOK, Stored
<1>3. ASSUME NEW p \in Procs, FileVector(p)
      PROVE  entries'[e].key = entries[e].key /\ entries[e].vecs \subseteq entries'[e].vecs
  <2>1. PICK v \in versions, f \in Stored :
             entries' = [entries EXCEPT ![f].vecs = @ \cup {v}]
    BY <1>3 DEF FileVector
  <2>2. entries[e] \in Row /\ entries[f] \in Row /\ e \in Entries /\ f \in Entries
    BY DEF TypeOK, Stored
  <2> QED BY <2>1, <2>2 DEF TypeOK, Row
<1> QED BY <1>1, <1>2, <1>3, EntriesKept DEF Stored

\* An entry that a step stores: its key is the one of its process or plain.
LEMMA EntriesNew ==
    ASSUME TypeOK, Salted, [Next]_vars, NEW e \in Stored', e \notin Stored
    PROVE  Own(entries'[e].key) /\ entries'[e].vecs # {}
<1>1. entries' # entries /\ e \in Entries
  BY DEF Stored
<1>2. ASSUME NEW r \in Requests, InsertRow(r)
      PROVE  Own(entries'[e].key) /\ entries'[e].vecs # {}
  <2>1. op[r].proc \in Up
    BY <1>2, Placed DEF InsertRow, WellPlaced
  <2> DEFINE f == op[r].row.entry
             row == [key |-> KeyFor(op[r].proc, f), vecs |-> {Current}]
  <2>2. entries' = [entries EXCEPT ![f] = row]
    BY <1>1, <1>2 DEF InsertRow
  <2>3. row.key \in {Plain, salt} /\ row.vecs # {} /\ salt \in Salts
    BY <2>1 DEF KeyFor, Salted, TypeOK
  <2> HIDE DEF row
  <2>4. entries'[e] = row
    BY <1>1, <2>2 DEF Stored, TypeOK
  <2> QED BY <2>3, <2>4 DEF Own
<1>3. ASSUME NEW p \in Procs, FileVector(p)
      PROVE  FALSE
  <2>1. PICK v \in versions, f \in Stored :
             entries' = [entries EXCEPT ![f].vecs = @ \cup {v}]
    BY <1>3 DEF FileVector
  <2>2. entries'[e] = entries[e]
    BY <1>1, <2>1 DEF TypeOK
  <2> QED BY <2>2 DEF Stored
<1> QED BY <1>1, <1>2, <1>3, EntriesKept

----------------------------------------------------------------------------
(* Keys *)

LEMMA BeginPc ==
    ASSUME TypeOK, NEW r \in Requests, NEW p \in Procs,
           BeginAdd(r, p) \/ BeginImport(r, p) \/ BeginExport(r, p)
    PROVE  op'[r].pc \in {"row", "finish", "read"}
<1>1. \E pc \in {"row", "finish", "read"} : \E kind, todo : Moves(r, New(p, pc, kind, todo))
  BY DEF BeginAdd, BeginImport, BeginExport
<1>2. \A pc, kind, todo : New(p, pc, kind, todo).pc = pc
  BY DEF New
<1> QED BY <1>1, <1>2, MovesTo

\* What ReadEntries finds.
StoredRows == {[entry |-> e, key |-> entries[e].key] : e \in Stored}

\* What the steps of a JSONL export do to its rows.
LEMMA TodoStep ==
    ASSUME TypeOK, NEW r \in Requests, Exported(r), op'[r].pc \in {"truncate", "write"}
    PROVE  \/ op[r].pc \in {"truncate", "write"} /\ op'[r].todo \subseteq op[r].todo
           \/ op'[r].todo = StoredRows
<1> DEFINE Fine(o) == \/ op[r].pc \in {"truncate", "write"} /\ o.todo \subseteq op[r].todo
                      \/ o.todo = StoredRows
<1> SUFFICES Fine(op'[r])
  OBVIOUS
<1>1. op[r] \in Op
  BY DEF TypeOK
<1>2. ASSUME NEW o, Moves(r, o)
      PROVE  op'[r] = o /\ o.pc \in {"truncate", "write"}
  BY <1>2, MovesTo
<1> HIDE DEF Fine
<1>4. CASE ReadEntries(r)
  <2> DEFINE o1 == [op[r] EXCEPT !.pc = "truncate", !.todo = StoredRows]
             o2(rows) == [op[r] EXCEPT !.pc = "versions", !.tmp.rows = rows]
  <2>1. Moves(r, o1) \/ \E rows : Moves(r, o2(rows))
    BY <1>4 DEF ReadEntries, StoredRows
  <2>2. o1.todo = StoredRows /\ \A rows : o2(rows).pc = "versions"
    BY <1>1 DEF Op
  <2> HIDE DEF o1, o2
  <2> QED BY <2>1, <2>2, <1>2 DEF Fine
<1>5. CASE TruncateFile(r)
  <2> DEFINE o == [op[r] EXCEPT !.pc = IF op[r].todo = {} THEN "auditExport" ELSE "write"]
  <2>1. Moves(r, o) /\ o.todo = op[r].todo /\ op[r].pc = "truncate"
    BY <1>1, <1>5 DEF TruncateFile, Op
  <2> HIDE DEF o
  <2> QED BY <2>1, <1>2 DEF Fine
<1>6. CASE WriteLine(r)
  <2> DEFINE o(row) == [op[r] EXCEPT !.todo = @ \ {row},
                                     !.pc = IF op[r].todo = {row} THEN "auditExport" ELSE @]
  <2>1. op[r].pc = "write" /\ \E row : Moves(r, o(row))
    BY <1>6 DEF WriteLine
  <2>2. \A row : o(row).todo \subseteq op[r].todo
    BY <1>1 DEF Op
  <2> HIDE DEF o
  <2> QED BY <2>1, <2>2, <1>2 DEF Fine
<1>7. CASE ReadVersions(r)
  <2> DEFINE o == [op[r] EXCEPT !.pc = "vectors", !.tmp.versions = versions]
  <2>1. Moves(r, o) /\ o.pc = "vectors"
    BY <1>1, <1>7 DEF ReadVersions, Op
  <2> HIDE DEF o
  <2> QED BY <2>1, <1>2
<1>8. CASE ReadVectors(r)
  <2> DEFINE o == [op[r] EXCEPT !.pc = "fill", !.tmp.vecs = VectorsOf(op[r].tmp.rows)]
  <2>1. Moves(r, o) /\ o.pc = "fill"
    BY <1>1, <1>8 DEF ReadVectors, Op
  <2> HIDE DEF o
  <2> QED BY <2>1, <1>2
<1>9. CASE Fill(r)
  <2> DEFINE o == [op[r] EXCEPT !.pc = "replace", !.tmp.versions = @ \cap Used(op[r].tmp)]
  <2>1. Moves(r, o) \/ Moves(r, Idle)
    BY <1>9 DEF Fill
  <2>2. o.pc = "replace"
    BY <1>1 DEF Op
  <2> HIDE DEF o
  <2> QED BY <2>1, <2>2, <1>2, IdleOk
<1>10. CASE ReplaceTarget(r)
  <2> DEFINE o == [op[r] EXCEPT !.pc = "auditExport", !.tmp = NoDatabase]
  <2>1. Moves(r, o) /\ o.pc = "auditExport"
    BY <1>1, <1>10 DEF ReplaceTarget, Op
  <2> HIDE DEF o
  <2> QED BY <2>1, <1>2
<1>11. CASE AuditExport(r)
  BY <1>2, <1>11, IdleOk DEF AuditExport
<1> QED BY <1>4, <1>5, <1>6, <1>7, <1>8, <1>9, <1>10, <1>11 DEF Exported, ExportStep

\* A row of a JSONL file is a row that its export has read.
LEMMA FileStep ==
    ASSUME TypeOK, [Next]_vars, NEW r \in Requests, NEW row \in jsonl'[r]
    PROVE  row \in jsonl[r] \/ (op[r].pc = "write" /\ row \in op[r].todo)
<1>1. CASE jsonl' = jsonl
  BY <1>1
<1>2. ASSUME NEW q \in Requests, TruncateFile(q)
      PROVE  row \in jsonl[r]
  BY <1>2 DEF TruncateFile, TypeOK
<1>3. ASSUME NEW q \in Requests, WriteLine(q)
      PROVE  row \in jsonl[r] \/ (op[r].pc = "write" /\ row \in op[r].todo)
  BY <1>3 DEF WriteLine, TypeOK
<1> QED BY <1>1, <1>2, <1>3, FilesKept

LEMMA OwnKeysNext == TypeOK /\ Salted /\ OwnKeys /\ [Next]_vars => OwnKeys'
<1> SUFFICES ASSUME TypeOK, Salted, OwnKeys, [Next]_vars PROVE OwnKeys'
  OBVIOUS
<1>1. ASSUME NEW e \in Stored'
      PROVE  Own(entries[e].key)'
  <2>1. Own(entries'[e].key)
    BY EntriesStay, EntriesNew DEF OwnKeys
  <2> QED BY <2>1, SaltStays DEF Own
<1>2. ASSUME NEW r \in Requests, NEW row \in jsonl'[r]
      PROVE  Own(row.key)'
  <2>1. Own(row.key)
    BY <1>2, FileStep DEF OwnKeys
  <2> QED BY <2>1, OwnStays
<1>3. ASSUME NEW r \in Requests, op'[r].pc \in {"truncate", "write"}, NEW row \in op'[r].todo
      PROVE  Own(row.key)'
  <2>1. Own(row.key)
    <3>1. CASE op'[r] = op[r]
      BY <1>3, <3>1 DEF OwnKeys
    <3>2. CASE op'[r] = Idle
      BY <1>3, <3>2, IdleOk
    <3>3. CASE Written(r)
      BY <1>3, <3>3 DEF Written
    <3>4. CASE Exported(r)
      <4>1. (op[r].pc \in {"truncate", "write"} /\ row \in op[r].todo) \/ row \in StoredRows
        BY <1>3, <3>4, TodoStep
      <4> QED BY <4>1 DEF OwnKeys, StoredRows
    <3>5. CASE \E p \in Procs : BeginAdd(r, p) \/ BeginImport(r, p) \/ BeginExport(r, p)
      <4>1. op'[r].pc \in {"row", "finish", "read"}
        BY <3>5, BeginPc
      <4> QED BY <1>3, <4>1
    <3> QED BY <3>1, <3>2, <3>3, <3>4, <3>5, SlotStep
  <2> QED BY <2>1, OwnStays
<1> QED BY <1>1, <1>2, <1>3 DEF OwnKeys

----------------------------------------------------------------------------
(* The database an export builds *)

\* An entry with a vector leaves a vector of its own in the export.
LEMMA VectorsCover ==
    ASSUME NEW rows, \A row \in rows : entries[row.entry].vecs # {}
    PROVE  {v[1] : v \in VectorsOf(rows)} = {row.entry : row \in rows}
<1>1. ASSUME NEW v \in VectorsOf(rows)
      PROVE  v[1] \in {row.entry : row \in rows}
  BY DEF VectorsOf
<1>2. ASSUME NEW row \in rows
      PROVE  row.entry \in {v[1] : v \in VectorsOf(rows)}
  <2>1. PICK w \in entries[row.entry].vecs : TRUE
    OBVIOUS
  <2>2. <<row.entry, w>> \in VectorsOf(rows)
    BY <2>1 DEF VectorsOf
  <2> QED BY <2>2
<1> QED BY <1>1, <1>2

\* What the steps of a SQLite export have read.
LEMMA ExportingStep ==
    ASSUME TypeOK, Exporting, NEW r \in Requests, ExportStep(r)
    PROVE  /\ op'[r].pc \in {"versions", "vectors"} => EntriesOf(op'[r].tmp) \subseteq Stored
           /\ op'[r].pc \in {"fill", "replace"} => Covered(op'[r].tmp)
           /\ op'[r].pc = "replace" => Used(op'[r].tmp) = op'[r].tmp.versions
<1> DEFINE Fine(o) ==
             /\ o.pc \in {"versions", "vectors"} => EntriesOf(o.tmp) \subseteq Stored
             /\ o.pc \in {"fill", "replace"} => Covered(o.tmp)
             /\ o.pc = "replace" => Used(o.tmp) = o.tmp.versions
<1> SUFFICES Fine(op'[r])
  OBVIOUS
<1>1. op[r] \in Op /\ op[r].tmp \in Database /\ InStep(op[r])
  BY DEF TypeOK, Exporting, Op
<1>2. ASSUME NEW o, Moves(r, o)
      PROVE  op'[r] = o
  BY <1>2, MovesTo
<1>3. Fine(Idle)
  BY IdleOk
<1>4. CASE ReadEntries(r)
  <2> DEFINE o1 == [op[r] EXCEPT !.pc = "truncate", !.todo = StoredRows]
             o2 == [op[r] EXCEPT !.pc = "versions", !.tmp.rows = StoredRows]
  <2>1. Moves(r, o1) \/ Moves(r, o2)
    BY <1>4 DEF ReadEntries, StoredRows
  <2>2. o1.pc = "truncate" /\ o2.pc = "versions" /\ o2.tmp.rows = StoredRows
    BY <1>1 DEF Op, Database
  <2>3. {row.entry : row \in StoredRows} \subseteq Stored
    BY DEF StoredRows
  <2> HIDE DEF o1, o2
  <2> QED BY <2>1, <2>2, <2>3, <1>2 DEF EntriesOf
<1>5. CASE TruncateFile(r) \/ WriteLine(r)
  <2>1. op'[r].pc \in {"write", "auditExport"}
    <3> DEFINE o1 == [op[r] EXCEPT !.pc = IF op[r].todo = {} THEN "auditExport" ELSE "write"]
               o2(row) == [op[r] EXCEPT !.todo = @ \ {row},
                                        !.pc = IF op[r].todo = {row} THEN "auditExport" ELSE @]
    <3>1. \/ Moves(r, o1)
          \/ op[r].pc = "write" /\ \E row : Moves(r, o2(row))
      BY <1>5 DEF TruncateFile, WriteLine
    <3>2. /\ o1.pc \in {"write", "auditExport"}
          /\ op[r].pc = "write" => \A row : o2(row).pc \in {"write", "auditExport"}
      BY <1>1 DEF Op
    <3> HIDE DEF o1, o2
    <3> QED BY <3>1, <3>2, <1>2
  <2> QED BY <2>1
<1>6. CASE ReadVersions(r)
  <2> DEFINE o == [op[r] EXCEPT !.pc = "vectors", !.tmp.versions = versions]
  <2>1. Moves(r, o) /\ o.pc = "vectors" /\ o.tmp.rows = op[r].tmp.rows
    BY <1>1, <1>6 DEF ReadVersions, Op, Database
  <2>2. EntriesOf(op[r].tmp) \subseteq Stored
    BY <1>1, <1>6 DEF ReadVersions, InStep
  <2> HIDE DEF o
  <2> QED BY <2>1, <2>2, <1>2 DEF EntriesOf
<1>7. CASE ReadVectors(r)
  <2> DEFINE vs == VectorsOf(op[r].tmp.rows)
             o  == [op[r] EXCEPT !.pc = "fill", !.tmp.vecs = vs]
  <2>1. EntriesOf(op[r].tmp) \subseteq Stored
    BY <1>1, <1>7 DEF ReadVectors, InStep
  <2>2. {v[1] : v \in vs} = {row.entry : row \in op[r].tmp.rows}
    BY <2>1, VectorsCover DEF EntriesOf, Exporting
  <2>3. Moves(r, o)
    BY <1>7 DEF ReadVectors
  <2> HIDE DEF vs
  <2>4. o.pc = "fill" /\ o.tmp.rows = op[r].tmp.rows /\ o.tmp.vecs = vs
    BY <1>1 DEF Op, Database
  <2> HIDE DEF o
  <2> QED BY <2>2, <2>3, <2>4, <1>2 DEF Covered, EntriesOf
<1>8. CASE Fill(r)
  <2> DEFINE vs == op[r].tmp.versions \cap Used(op[r].tmp)
             o  == [op[r] EXCEPT !.pc = "replace", !.tmp.versions = vs]
  <2>1. Covered(op[r].tmp)
    BY <1>1, <1>8 DEF Fill, InStep
  <2>2. \/ Used(op[r].tmp) \subseteq op[r].tmp.versions /\ Moves(r, o)
        \/ Moves(r, Idle)
    BY <1>8 DEF Fill
  <2>3. Used(op[r].tmp) \subseteq op[r].tmp.versions => vs = Used(op[r].tmp)
    OBVIOUS
  <2> HIDE DEF vs
  <2>4. /\ o.pc = "replace" /\ o.tmp.rows = op[r].tmp.rows
        /\ o.tmp.vecs = op[r].tmp.vecs /\ o.tmp.versions = vs
    BY <1>1 DEF Op, Database
  <2> HIDE DEF o
  <2>5. CASE Moves(r, Idle)
    BY <2>5, <1>2, <1>3
  <2>6. CASE Used(op[r].tmp) \subseteq op[r].tmp.versions /\ Moves(r, o)
    <3>1. Used(o.tmp) = o.tmp.versions
      BY <2>3, <2>4, <2>6 DEF Used
    <3>2. Covered(o.tmp)
      BY <2>1, <2>4 DEF Covered, EntriesOf
    <3> QED BY <3>1, <3>2, <2>4, <2>6, <1>2
  <2> QED BY <2>2, <2>5, <2>6
<1>9. CASE ReplaceTarget(r)
  <2> DEFINE o == [op[r] EXCEPT !.pc = "auditExport", !.tmp = NoDatabase]
  <2>1. Moves(r, o) /\ o.pc = "auditExport"
    BY <1>1, <1>9 DEF ReplaceTarget, Op
  <2> HIDE DEF o
  <2> QED BY <2>1, <1>2
<1>10. CASE AuditExport(r)
  BY <1>2, <1>3, <1>10 DEF AuditExport
<1> QED BY <1>4, <1>5, <1>6, <1>7, <1>8, <1>9, <1>10 DEF ExportStep

LEMMA ExportingNext == TypeOK /\ Salted /\ Exporting /\ [Next]_vars => Exporting'
<1> SUFFICES ASSUME TypeOK, Salted, Exporting, [Next]_vars PROVE Exporting'
  OBVIOUS
<1>1. ASSUME NEW e \in Stored'
      PROVE  entries'[e].vecs # {}
  BY EntriesStay, EntriesNew DEF Exporting
<1>2. ASSUME NEW r \in Requests
      PROVE  InStep(op[r])'
  <2>1. /\ op'[r].pc \in {"versions", "vectors"} => EntriesOf(op'[r].tmp) \subseteq Stored
        /\ op'[r].pc \in {"fill", "replace"} => Covered(op'[r].tmp)
        /\ op'[r].pc = "replace" => Used(op'[r].tmp) = op'[r].tmp.versions
    <3>1. CASE op'[r] = op[r]
      BY <3>1 DEF Exporting, InStep
    <3>2. CASE op'[r] = Idle
      BY <3>2, IdleOk
    <3>3. CASE Written(r)
      BY <3>3 DEF Written
    <3>4. CASE Exported(r)
      BY <3>4, ExportingStep DEF Exported
    <3>5. CASE \E p \in Procs : BeginAdd(r, p) \/ BeginImport(r, p) \/ BeginExport(r, p)
      <4>1. op'[r].pc \in {"row", "finish", "read"}
        BY <3>5, BeginPc
      <4> QED BY <4>1
    <3> QED BY <3>1, <3>2, <3>3, <3>4, <3>5, SlotStep
  <2>2. Stored \subseteq Stored'
    BY EntriesStay
  <2> QED BY <2>1, <2>2 DEF InStep, EntriesOf, Covered, Used
<1> QED BY <1>1, <1>2 DEF Exporting

LEMMA ExportWholeNext == TypeOK /\ Exporting /\ ExportWhole /\ [Next]_vars => ExportWhole'
<1> SUFFICES ASSUME TypeOK, Exporting, ExportWhole, [Next]_vars PROVE ExportWhole'
  OBVIOUS
<1>1. CASE backup' = backup
  BY <1>1 DEF ExportWhole, Used
<1>2. ASSUME NEW q \in Requests, ReplaceTarget(q)
      PROVE  ExportWhole'
  <2>1. /\ backup' = [backup EXCEPT ![q] = op[q].tmp]
        /\ op[q].pc = "replace"
    BY <1>2 DEF ReplaceTarget
  <2>2. Covered(op[q].tmp) /\ Used(op[q].tmp) = op[q].tmp.versions
    BY <2>1 DEF Exporting, InStep
  <2>3. ASSUME NEW r \in Requests, backup'[r] # None
        PROVE  Used(backup'[r]) = backup'[r].versions /\ Covered(backup'[r])
    <3>1. CASE r = q
      BY <2>1, <2>2, <3>1 DEF TypeOK
    <3>2. CASE r # q
      BY <2>1, <2>3, <3>2 DEF TypeOK, ExportWhole, Covered, EntriesOf
    <3> QED BY <3>1, <3>2
  <2> QED BY <2>3 DEF ExportWhole, Used, Covered, EntriesOf
<1> QED BY <1>1, <1>2, FilesKept

----------------------------------------------------------------------------
(* The audit client *)

\* The log only grows, and only a poll moves the cursor.
LEMMA LogStep ==
    ASSUME TypeOK, [Next]_vars
    PROVE  \/ /\ UNCHANGED <<cursor, seen>>
              /\ Len(log') \in Nat /\ Len(log) <= Len(log')
              /\ \A i \in 1..Len(log) : log'[i] = log[i]
           \/ \E p \in Procs : PollAudit(p)
<1> DEFINE Grown == /\ UNCHANGED <<cursor, seen>>
                    /\ Len(log') \in Nat /\ Len(log) <= Len(log')
                    /\ \A i \in 1..Len(log) : log'[i] = log[i]
<1> SUFFICES Grown \/ \E p \in Procs : PollAudit(p)
  OBVIOUS
<1>1. Len(log) \in Nat
  BY DEF TypeOK
<1>2. ASSUME UNCHANGED <<cursor, seen, log>>
      PROVE  Grown
  BY <1>1, <1>2
<1>3. ASSUME NEW r \in Requests, NEW kind \in EventKinds, NEW counts \in Counts,
             Appended(r, kind, counts), UNCHANGED <<cursor, seen>>
      PROVE  Grown
  BY <1>1, <1>3, AppendedOk
<1> HIDE DEF Grown
<1>4. ASSUME NEW p \in Procs, ProcessStep(p), ~PollAudit(p)
      PROVE  UNCHANGED <<cursor, seen, log>>
  BY <1>4 DEF ProcessStep, StartProcess, FindSalt, CreateSalt, WriteSalt, ReadSalt, Stop,
              KeepsData, RegisterVersion, FileVector, KeepsAllButData
<1>5. ASSUME NEW r \in Requests, Begin(r)
      PROVE  UNCHANGED <<cursor, seen, log>>
  BY <1>5 DEF Begin, BeginAdd, BeginImport, BeginExport, KeepsFiles
<1>6. ASSUME NEW r \in Requests, CheckRow(r) \/ ReturnVector(r) \/ InsertRow(r)
      PROVE  UNCHANGED <<cursor, seen, log>>
  BY <1>6 DEF CheckRow, ReturnVector, InsertRow, KeepsFiles
<1>7. ASSUME NEW r \in Requests, AuditDegraded(r) \/ AuditRow(r) \/ FinishImport(r)
      PROVE  Grown
  <2>1. op[r].counts \in Counts /\ WellPlaced(op[r]) /\ UNCHANGED <<cursor, seen>>
    BY <1>7, Placed DEF AuditDegraded, AuditRow, FinishImport, KeepsFiles, Op
  <2>2. CASE AuditDegraded(r)
    BY <2>1, <2>2, <1>3, ZeroOk DEF AuditDegraded, EventKinds
  <2>3. CASE AuditRow(r)
    BY <2>1, <2>3, <1>3, ZeroOk DEF AuditRow, EventKinds, WellPlaced
  <2>4. CASE FinishImport(r)
    BY <2>1, <2>4, <1>3 DEF FinishImport, EventKinds
  <2> QED BY <1>7, <2>2, <2>3, <2>4
<1>8. ASSUME NEW r \in Requests, ExportStep(r), ~AuditExport(r)
      PROVE  UNCHANGED <<cursor, seen, log>>
  BY <1>8 DEF ExportStep, ReadEntries, TruncateFile, WriteLine, ReadVersions, ReadVectors,
              Fill, ReplaceTarget, KeepsFiles, KeepsAllButJsonl
<1>9. ASSUME NEW r \in Requests, AuditExport(r)
      PROVE  Grown
  BY <1>9, <1>3, ZeroOk DEF AuditExport, KeepsFiles, EventKinds
<1>10. CASE UNCHANGED vars
  BY <1>2, <1>10 DEF vars
<1>11. CASE \E p \in Procs : ProcessStep(p)
  BY <1>2, <1>4, <1>11
<1>12. ASSUME NEW r \in Requests, Begin(r) \/ WriteStep(r) \/ ExportStep(r)
       PROVE  Grown
  BY <1>2, <1>5, <1>6, <1>7, <1>8, <1>9, <1>12 DEF WriteStep
<1> QED BY <1>10, <1>11, <1>12 DEF Next

\* A page leaves nothing out below any of its rows.
LEMMA PageClosed ==
    ASSUME TypeOK, NEW j \in Page(cursor), NEW i \in Matching(cursor), i < j
    PROVE  i \in Page(cursor)
<1> DEFINE M == Matching(cursor)
           Below(k) == {m \in M : m < k}
<1>1. M \subseteq 1..Len(log) /\ Len(log) \in Nat /\ j \in M
  BY DEF Matching, Page, TypeOK
<1>2. IsFiniteSet(M)
  <2>1. IsFiniteSet(1..Len(log))
    BY <1>1, FS_Interval
  <2> HIDE DEF M
  <2> QED BY <1>1, <2>1, FS_Subset
<1>3. Below(j) \subseteq M /\ Below(i) \subseteq Below(j)
  BY <1>1
<1>4. IsFiniteSet(Below(j))
  BY <1>2, <1>3, FS_Subset
<1>5. IsFiniteSet(Below(i)) /\ Cardinality(Below(i)) <= Cardinality(Below(j))
  BY <1>3, <1>4, FS_Subset
<1>6. Cardinality(Below(i)) \in Nat /\ Cardinality(Below(j)) \in Nat
  BY <1>4, <1>5, FS_CardinalityType
<1>7. Cardinality(Below(j)) < PageLimit
  BY DEF Page
<1>8. Cardinality(Below(i)) < PageLimit
  BY <1>5, <1>6, <1>7
<1> QED BY <1>8 DEF Page

LEMMA NoGapsNext == TypeOK /\ NoGaps /\ [Next]_vars => NoGaps'
<1> SUFFICES ASSUME TypeOK, NoGaps, [Next]_vars PROVE NoGaps'
  OBVIOUS
<1>1. Len(log) \in Nat /\ cursor \in 0..Len(log)
  BY DEF TypeOK
<1>2. CASE /\ UNCHANGED <<cursor, seen>>
           /\ \A i \in 1..Len(log) : log'[i] = log[i]
  BY <1>1, <1>2 DEF NoGaps
<1>3. ASSUME NEW p \in Procs, PollAudit(p)
      PROVE  NoGaps'
  <2>1. /\ cursor' \in Page(cursor) \cup {cursor}
        /\ seen' = seen \cup Page(cursor)
        /\ log' = log
    BY <1>3 DEF PollAudit
  <2>2. ASSUME NEW i \in 1..cursor', log[i].kind \in Watched
        PROVE  i \in seen'
    <3>1. CASE i \in 1..cursor
      BY <2>1, <2>2, <3>1 DEF NoGaps
    <3>2. CASE i \notin 1..cursor
      <4>1. cursor' \in Page(cursor) /\ cursor' \in 1..Len(log)
        BY <1>1, <2>1, <3>2 DEF Page, Matching
      <4>2. i \in Matching(cursor)
        BY <1>1, <2>2, <3>2, <4>1 DEF Matching
      <4>3. i = cursor' \/ i < cursor'
        BY <4>1
      <4> QED BY <2>1, <4>1, <4>2, <4>3, PageClosed
    <3> QED BY <3>1, <3>2
  <2> QED BY <2>1, <2>2 DEF NoGaps
<1> QED BY <1>2, <1>3, LogStep

----------------------------------------------------------------------------
(* The policy *)

\* Some rule that matches is the first.
LEMMA FirstHit ==
    ASSUME NEW hits \in SUBSET DOMAIN Rules, hits # {}
    PROVE  Min(hits) \in hits /\ \A i \in hits : Min(hits) <= i
<1>1. DOMAIN Rules = 1..11
  BY DEF Rules
<1>2. \E i \in hits : \A j \in hits : i <= j
  BY <1>1
<1> QED BY <1>2 DEF Min

\* The rules that deny come first, so that what one of them matches is denied.
LEMMA AdmittedShows ==
    ASSUME NEW signals \in SUBSET Signals, Classify(signals).accepted
    PROVE  signals # {} /\ signals \cap Denying = {}
<1> DEFINE hits == {i \in DOMAIN Rules : SignalOrder[i] \in signals}
<1>1. DOMAIN Rules = 1..11 /\ \A i \in 1..8 : ~Rules[i].accepted
  BY DEF Rules, Deny, Admit
<1>2. hits # {} /\ Rules[Min(hits)].accepted
  BY DEF Classify, Deny
<1>3. Min(hits) \in hits /\ \A i \in hits : Min(hits) <= i
  <2> HIDE DEF hits
  <2>1. hits \in SUBSET DOMAIN Rules
    BY DEF hits
  <2> QED BY <1>2, <2>1, FirstHit
<1>4. hits \cap 1..8 = {}
  <2>1. Min(hits) \in 1..11
    BY <1>1, <1>3
  <2>2. Min(hits) \notin 1..8
    BY <1>1, <1>2
  <2> HIDE DEF hits
  <2> QED BY <1>3, <2>1, <2>2
<1>5. ASSUME NEW s \in Denying
      PROVE  \E i \in 1..8 : SignalOrder[i] = s
  BY DEF Denying, SignalOrder
<1> QED BY <1>1, <1>2, <1>4, <1>5

LEMMA WriteJudged ==
    ASSUME TypeOK, Judged, NEW r \in Requests, WriteStep(r)
    PROVE  Passed(op'[r])
<1>1. op[r] \in Op /\ Passed(op[r]) /\ Passed(Idle)
  BY IdleOk DEF TypeOK, Judged, Passed
<1>2. ASSUME NEW o, Moves(r, o), Passed(o)
      PROVE  Passed(op'[r])
  BY <1>2, MovesTo
<1>3. ASSUME CheckRow(r)
      PROVE  Passed(op'[r])
  <2> DEFINE o(row) == [op[r] EXCEPT !.row = row, !.todo = @ \ {row}]
             audited(row, c) == [o(row) EXCEPT !.pc = "audit", !.outcome = c]
             embedding(row) == [o(row) EXCEPT !.pc = "embed"]
             passes(row) == ~Refused(op[r].proc, row)
  <2>1. \E row, c : Moves(r, audited(row, c)) \/ (passes(row) /\ Moves(r, embedding(row)))
    BY <1>3 DEF CheckRow
  <2>2. ASSUME NEW row, NEW c
        PROVE  audited(row, c).pc = "audit" /\ embedding(row).row = row
    BY <1>1 DEF Op
  <2>3. ASSUME NEW row, NEW c
        PROVE  Passed(audited(row, c)) /\ (passes(row) => Passed(embedding(row)))
    <3>1. passes(row) => Classify(SignalsOf[row.entry]).accepted
      BY DEF Refused
    <3> HIDE DEF o, audited, embedding, passes
    <3> QED BY <2>2, <3>1 DEF Passed
  <2> HIDE DEF o, audited, embedding, passes
  <2> QED BY <1>2, <2>1, <2>3
<1>4. ASSUME ReturnVector(r)
      PROVE  Passed(op'[r])
  <2>1. PICK pc \in {"insert", "degraded"} : Moves(r, [op[r] EXCEPT !.pc = pc])
    BY <1>4 DEF ReturnVector
  <2>2. [op[r] EXCEPT !.pc = pc].row = op[r].row /\ op[r].pc = "embed"
    BY <1>1, <1>4 DEF ReturnVector, Op
  <2>3. Passed([op[r] EXCEPT !.pc = pc])
    BY <1>1, <2>2 DEF Passed
  <2> QED BY <1>2, <2>1, <2>3
<1>5. ASSUME AuditDegraded(r) \/ InsertRow(r)
      PROVE  Passed(op'[r])
  <2> DEFINE o(c) == [op[r] EXCEPT !.pc = "audit", !.outcome = c]
  <2>1. Moves(r, Idle) \/ \E c : Moves(r, o(c))
    BY <1>5 DEF AuditDegraded, InsertRow
  <2>2. ASSUME NEW c
        PROVE  o(c).pc = "audit"
    BY <1>1 DEF Op
  <2> HIDE DEF o
  <2>3. ASSUME NEW c
        PROVE  Passed(o(c))
    BY <2>2 DEF Passed
  <2> QED BY <1>1, <1>2, <2>1, <2>3
<1>6. ASSUME AuditRow(r)
      PROVE  Passed(op'[r])
  <2> DEFINE next == IF op[r].todo = {} THEN "finish" ELSE "row"
             counts == Counted(op[r].counts, op[r].outcome)
             o == [op[r] EXCEPT !.pc = next, !.row = None, !.outcome = None, !.counts = counts]
  <2>1. Moves(r, Idle) \/ Moves(r, o)
    BY <1>6 DEF AuditRow
  <2>2. o.pc = next
    <3> HIDE DEF next, counts
    <3> QED BY <1>1 DEF Op
  <2>3. next \in {"finish", "row"}
    OBVIOUS
  <2> HIDE DEF o, next
  <2>4. Passed(o)
    BY <2>2, <2>3 DEF Passed
  <2> QED BY <1>1, <1>2, <2>1, <2>4
<1>7. ASSUME FinishImport(r)
      PROVE  Passed(op'[r])
  BY <1>1, <1>2, <1>7 DEF FinishImport
<1> QED BY <1>3, <1>4, <1>5, <1>6, <1>7 DEF WriteStep

LEMMA ExportJudged ==
    ASSUME TypeOK, NEW r \in Requests, ExportStep(r)
    PROVE  Passed(op'[r])
<1> DEFINE Kept == op'[r] = Idle \/ op'[r].pc \notin {"embed", "insert"}
<1>1. op[r] \in Op
  BY DEF TypeOK
<1>2. ReadEntries(r) => Kept
  BY <1>1 DEF ReadEntries, Moves, TypeOK, Op
<1>3. TruncateFile(r) => Kept
  BY <1>1 DEF TruncateFile, Moves, TypeOK, Op
<1>4. WriteLine(r) => Kept
  BY <1>1 DEF WriteLine, Moves, TypeOK, Op
<1>5. ReadVersions(r) => Kept
  BY <1>1 DEF ReadVersions, Moves, TypeOK, Op
<1>6. ReadVectors(r) => Kept
  BY <1>1 DEF ReadVectors, Moves, TypeOK, Op
<1>7. Fill(r) => Kept
  BY <1>1 DEF Fill, Moves, TypeOK, Op
<1>8. ReplaceTarget(r) => Kept
  BY <1>1 DEF ReplaceTarget, Moves, TypeOK, Op
<1>9. AuditExport(r) => Kept
  BY <1>1 DEF AuditExport, Moves, TypeOK, Op
<1>10. Kept
  <2> HIDE DEF Kept
  <2> QED BY <1>2, <1>3, <1>4, <1>5, <1>6, <1>7, <1>8, <1>9 DEF ExportStep
<1> QED BY <1>10, IdleOk DEF Passed

LEMMA JudgedNext == TypeOK /\ Judged /\ [Next]_vars => Judged'
<1> SUFFICES ASSUME TypeOK, Judged, [Next]_vars, NEW r \in Requests
             PROVE  Passed(op'[r])
  BY DEF Judged, Passed
<1>1. CASE op'[r] = op[r] \/ op'[r] = Idle
  BY <1>1, IdleOk DEF Judged, Passed
<1>2. CASE Written(r) \/ Exported(r)
  BY <1>2, WriteJudged, ExportJudged DEF Written, Exported
<1>3. CASE \E p \in Procs : BeginAdd(r, p) \/ BeginImport(r, p) \/ BeginExport(r, p)
  <2>1. op'[r].pc \in {"row", "finish", "read"}
    BY <1>3, BeginPc
  <2> QED BY <2>1 DEF Passed
<1> QED BY <1>1, <1>2, <1>3, SlotStep

\* Only an insert stores an entry, and what it inserts has passed.
LEMMA DeniedNext ==
    TypeOK /\ Judged /\ DeniedStaysOut /\ [Next]_vars => DeniedStaysOut'
<1> SUFFICES ASSUME TypeOK, Judged, DeniedStaysOut, [Next]_vars,
                    NEW e \in Stored' \ Inherited
             PROVE  SignalsOf[e] # {} /\ SignalsOf[e] \cap Denying = {}
  BY DEF DeniedStaysOut, Denying
<1>1. e \in Entries
  BY DEF Stored
<1>2. CASE e \in Stored
  BY <1>2 DEF DeniedStaysOut
<1>3. CASE e \notin Stored
  <2>1. PICK r \in Requests : InsertRow(r) /\ op[r].row.entry = e
    <3>1. entries'[e].key # entries[e].key
      BY <1>1, <1>3 DEF Stored
    <3>2. ~\E p \in Procs : FileVector(p)
      <4>1. ASSUME NEW v \in versions, NEW f \in Stored,
                   entries' = [entries EXCEPT ![f].vecs = @ \cup {v}]
            PROVE  entries'[e] = entries[e]
        BY <1>1, <1>3, <4>1 DEF TypeOK
      <4> QED BY <3>1, <4>1 DEF FileVector
    <3>3. PICK r \in Requests : InsertRow(r)
      BY <3>1, <3>2, EntriesKept
    <3>4. op[r].row.entry = e
      BY <1>1, <3>1, <3>3 DEF InsertRow, TypeOK
    <3> QED BY <3>3, <3>4
  <2>2. Classify(SignalsOf[e]).accepted
    BY <2>1 DEF InsertRow, Judged, Passed
  <2> QED BY <1>1, <2>2, AdmittedShows
<1> QED BY <1>2, <1>3

----------------------------------------------------------------------------
(* The guarantees *)

LEMMA InitIInv == Init => IInv
<1> SUFFICES ASSUME Init PROVE IInv
  OBVIOUS
<1>1. TypeOK
  BY InitType
<1>2. \A p \in Procs : proc[p].pc = "down"
  BY DEF Init
<1>3. Started /\ Salted /\ Up = {}
  BY <1>2 DEF Started, Salted, Up
<1>6. Keyless
  BY DEF Init, Keyless
<1>7. Judged /\ DeniedStaysOut
  BY IdleOk DEF Init, Judged, Passed, DeniedStaysOut, Stored, NoRow
<1>4. StrangersStayLocal /\ Exporting /\ OwnKeys
  <2>1. \A r \in Requests : op[r].pc = "idle"
    BY IdleOk DEF Init
  <2>2. \A e \in Stored : entries[e].key = Legacy /\ entries[e].vecs # {}
    BY DEF Init, Stored, NoRow
  <2>3. \A r \in Requests : jsonl[r] = {}
    BY DEF Init
  <2> QED BY <2>1, <2>2, <2>3 DEF StrangersStayLocal, Exporting, InStep, OwnKeys, Own
<1>5. ExportWhole /\ NoGaps
  BY DEF Init, ExportWhole, NoGaps
<1> QED BY <1>1, <1>3, <1>4, <1>5, <1>6, <1>7 DEF IInv

LEMMA NextIInv == IInv /\ [Next]_vars => IInv'
BY NextType, StartedNext, StrangersNext, SaltedNext, KeylessNext, OwnKeysNext,
   ExportingNext, ExportWholeNext, NoGapsNext, JudgedNext, DeniedNext DEF IInv

THEOREM Guarantees == Spec => []IInv
BY InitIInv, NextIInv, PTL DEF Spec

\* A client without the token is served only by a process that is bound to a
\* loopback host, in any order of starts and requests.
THEOREM StrangersLocal == Spec => []StrangersStayLocal
<1>1. IInv => StrangersStayLocal
  BY DEF IInv
<1> QED BY <1>1, Guarantees, PTL

\* Nothing that the policy denies is stored, whatever signals its content shows
\* and whichever process, request or file it comes from.
THEOREM DeniedNeverStored == Spec => []DeniedStaysOut
<1>1. IInv => DeniedStaysOut
  BY DEF IInv
<1> QED BY <1>1, Guarantees, PTL

\* Every running process encrypts with the salt in the file and can decrypt
\* what is stored and what was exported, in any order of racing starts.
THEOREM AgreeOnKeys == Spec => []KeysAgree
<1>1. IInv => KeysAgree
  <2> SUFFICES ASSUME IInv, NEW p \in Up PROVE
             /\ proc[p].key = salt
             /\ \A e \in Stored : CanDecrypt(p, entries[e].key)
             /\ \A r \in Requests : \A row \in jsonl[r] : CanDecrypt(p, row.key)
    BY DEF KeysAgree
  <2>1. proc[p].key = salt
    BY DEF IInv, Salted
  <2>2. \A key : Own(key) => CanDecrypt(p, key)
    BY <2>1 DEF Own, CanDecrypt
  <2> QED BY <2>1, <2>2 DEF IInv, OwnKeys
<1> QED BY <1>1, Guarantees, PTL

\* Choosing a key for the installation is writing the file, which is empty until
\* then; a process that comes up or stops holds the key or forgets it.
LEMMA StepAgreed ==
    ASSUME IInv, [Next]_vars
    PROVE  [Agreed!Next]_<<KeyChosen, KeyHeld>>
<1>1. /\ TypeOK /\ Salted /\ Keyless
      /\ "empty" \notin Salts /\ "absent" \notin Salts /\ None \notin Salts
  BY DEF IInv, Keys
<1>2. \A p \in Procs : KeyHeld[p] = proc[p].key /\ KeyHeld'[p] = proc'[p].key
  BY DEF KeyHeld
<1>3. ASSUME UNCHANGED <<salt, proc>> PROVE UNCHANGED <<KeyChosen, KeyHeld>>
  BY <1>3 DEF KeyChosen, KeyHeld
<1>4. ASSUME NEW p \in Procs, StartProcess(p) \/ FindSalt(p) \/ CreateSalt(p)
      PROVE  UNCHANGED <<KeyChosen, KeyHeld>>
  <2>1. proc[p].key = None /\ proc'[p].key = None
    BY <1>1, <1>4 DEF StartProcess, FindSalt, CreateSalt, At, TypeOK, Keyless, Up
  <2>2. \A q \in Procs : proc'[q].key = proc[q].key
    BY <1>1, <1>4, <2>1 DEF StartProcess, FindSalt, CreateSalt, At, TypeOK
  <2>3. salt' = salt \/ (salt = "absent" /\ salt' = "empty")
    BY <1>4 DEF StartProcess, FindSalt, CreateSalt
  <2> QED BY <1>1, <2>2, <2>3 DEF KeyChosen, KeyHeld
<1>5. ASSUME NEW p \in Procs, WriteSalt(p)
      PROVE  Agreed!Choose
  <2>1. salt = "empty" /\ salt' \in Salts /\ proc[p].key = None
    BY <1>1, <1>5 DEF WriteSalt, Salted, Keyless, Up
  <2>2. \A q \in Procs : proc'[q].key = proc[q].key
    BY <1>1, <1>5, <2>1 DEF WriteSalt, At, TypeOK
  <2>3. KeyChosen = None /\ KeyChosen' \in Salts
    BY <1>1, <2>1 DEF KeyChosen
  <2>4. KeyHeld' = KeyHeld
    BY <2>2 DEF KeyHeld
  <2> QED BY <2>3, <2>4 DEF Agreed!Choose
<1>6. ASSUME NEW p \in Procs, ReadSalt(p) \/ Stop(p)
      PROVE  Agreed!Hold(p) \/ Agreed!Forget(p)
  <2>1. salt' = salt /\ \A q \in Procs \ {p} : proc'[q] = proc[q]
    BY <1>1, <1>6 DEF ReadSalt, Stop, KeepsData, TypeOK
  <2>2. KeyChosen' = KeyChosen
    BY <2>1 DEF KeyChosen
  <2>3. CASE proc'[p].key = None
    <3>1. KeyHeld' = [KeyHeld EXCEPT ![p] = None]
      BY <2>1, <2>3 DEF KeyHeld
    <3> QED BY <2>2, <3>1 DEF Agreed!Forget
  <2>4. CASE proc'[p].key # None
    <3>1. ReadSalt(p) /\ salt \in Salts /\ proc'[p].key = salt /\ proc[p].key = None
      BY <1>1, <1>6, <2>4 DEF ReadSalt, Stop, TypeOK, Keyless, Up
    <3>2. KeyChosen = salt /\ KeyHeld[p] = None
      BY <1>2, <3>1 DEF KeyChosen
    <3>3. KeyHeld' = [KeyHeld EXCEPT ![p] = KeyChosen]
      BY <2>1, <3>1, <3>2 DEF KeyHeld
    <3> QED BY <1>1, <2>2, <3>1, <3>2, <3>3 DEF Agreed!Hold
  <2> QED BY <2>3, <2>4
<1> QED BY <1>3, <1>4, <1>5, <1>6, ProcKept DEF StartStep, Agreed!Next

\* Any number of processes, started and stopped in any order, settle on one key
\* for good and hold no other: the starts implement InstallationKey.
THEOREM StartsAgree == Spec => ImplementsInstallationKey
<1>1. ASSUME Init PROVE Agreed!Init
  <2>1. KeyChosen = None
    BY <1>1 DEF Init, KeyChosen, Keys
  <2>2. KeyHeld = [p \in Procs |-> None]
    BY <1>1 DEF Init, KeyHeld
  <2> QED BY <2>1, <2>2 DEF Agreed!Init
<1> QED BY <1>1, InitIInv, NextIInv, StepAgreed, PTL
        DEF Spec, ImplementsInstallationKey, Agreed!Spec, Agreed!vars

\* The target of a SQLite export is whole: its vectors have their versions and
\* entries, and each of its entries has a vector, for any steps of other
\* processes between the reads of the export.
THEOREM ExportsWhole == Spec => []ExportWhole
<1>1. IInv => ExportWhole
  BY DEF IInv
<1> QED BY <1>1, Guarantees, PTL

\* A client that pages the audit log misses no event of its filter below its
\* cursor, for any limit and any writers.
THEOREM PollsMissNothing == Spec => []NoGaps
<1>1. IInv => NoGaps
  BY DEF IInv
<1> QED BY <1>1, Guarantees, PTL

----------------------------------------------------------------------------
(* The event of an import *)

\* Said, for a given log.
SaidIn(lg, r, base, kind) ==
    Cardinality({i \in (base + 1)..Len(lg) : lg[i].by = r /\ lg[i].kind = kind})

AccountedIn(lg, r, o) ==
    o.pc # "idle" =>
        /\ o.base <= Len(lg)
        /\ o.counts.imported = SaidIn(lg, r, o.base, "accepted")
        /\ o.counts.duplicates = SaidIn(lg, r, o.base, "duplicate")
        /\ o.counts.rejected = SaidIn(lg, r, o.base, "rejected")

\* An event of another request or of another kind changes no count.
LEMMA SaidElsewhere ==
    ASSUME NEW lg \in Seq(Event), NEW ev \in Event, NEW r, NEW base \in Nat, NEW kind,
           ~(ev.by = r /\ ev.kind = kind)
    PROVE  SaidIn(Append(lg, ev), r, base, kind) = SaidIn(lg, r, base, kind)
<1> DEFINE lh == Append(lg, ev)
           Of(l) == {i \in (base + 1)..Len(l) : l[i].by = r /\ l[i].kind = kind}
<1>1. /\ Len(lh) = Len(lg) + 1 /\ Len(lg) \in Nat
      /\ lh[Len(lg) + 1] = ev /\ \A i \in 1..Len(lg) : lh[i] = lg[i]
  OBVIOUS
<1> HIDE DEF lh
<1>2. \A i : i \in (base + 1)..Len(lg) => i \in 1..Len(lg) /\ i \in (base + 1)..Len(lh)
  BY <1>1
<1>3. \A i \in (base + 1)..Len(lh) : i \in (base + 1)..Len(lg) \/ i = Len(lg) + 1
  BY <1>1
<1>4. Of(lh) = Of(lg)
  BY <1>1, <1>2, <1>3
<1> QED BY <1>4 DEF SaidIn, lh

\* An event of the request and the kind adds one.
LEMMA SaidOnceMore ==
    ASSUME NEW lg \in Seq(Event), NEW ev \in Event, NEW base \in Nat, base <= Len(lg)
    PROVE  SaidIn(Append(lg, ev), ev.by, base, ev.kind) = SaidIn(lg, ev.by, base, ev.kind) + 1
<1> DEFINE lh == Append(lg, ev)
           Of(l) == {i \in (base + 1)..Len(l) : l[i].by = ev.by /\ l[i].kind = ev.kind}
           m == Len(lg) + 1
<1>1. /\ Len(lh) = m /\ Len(lg) \in Nat
      /\ lh[m] = ev /\ \A i \in 1..Len(lg) : lh[i] = lg[i]
  OBVIOUS
<1> HIDE DEF lh
<1>2. \A i : i \in (base + 1)..Len(lg) => i \in 1..Len(lg) /\ i \in (base + 1)..Len(lh)
  BY <1>1
<1>3. \A i \in (base + 1)..Len(lh) : i \in (base + 1)..Len(lg) \/ i = m
  BY <1>1
<1>4. m \in (base + 1)..Len(lh) /\ m \notin (base + 1)..Len(lg)
  BY <1>1
<1>5. Of(lh) = Of(lg) \cup {m} /\ m \notin Of(lg)
  BY <1>1, <1>2, <1>3, <1>4
<1>6. IsFiniteSet(Of(lg))
  <2>1. IsFiniteSet((base + 1)..Len(lg))
    BY <1>1, FS_Interval
  <2>2. Of(lg) \in SUBSET ((base + 1)..Len(lg))
    OBVIOUS
  <2> HIDE DEF Of
  <2> QED BY <2>1, <2>2, FS_Subset
<1>7. Cardinality(Of(lh)) = Cardinality(Of(lg)) + 1
  <2> HIDE DEF Of
  <2> QED BY <1>5, <1>6, FS_AddElement
<1> QED BY <1>7 DEF SaidIn, lh

LEMMA SaidAtFirst ==
    ASSUME NEW lg \in Seq(Event), NEW r, NEW kind
    PROVE  SaidIn(lg, r, Len(lg), kind) = 0
<1>1. Len(lg) \in Nat
  OBVIOUS
<1>2. (Len(lg) + 1)..Len(lg) = {}
  BY <1>1
<1>3. {i \in (Len(lg) + 1)..Len(lg) : lg[i].by = r /\ lg[i].kind = kind} = {}
  BY <1>2
<1> QED BY <1>3, FS_EmptySet DEF SaidIn

\* A slot that keeps its counts, while other events or none are appended.
LEMMA AccountKept ==
    ASSUME NEW lg \in Seq(Event), NEW lh, NEW ev \in Event, lh = lg \/ lh = Append(lg, ev),
           NEW r, NEW o \in Op, NEW w, AccountedIn(lg, r, o), o.pc # "idle",
           w.base = o.base, w.counts = o.counts,
           ev.by # r \/ ev.kind \notin {"accepted", "duplicate", "rejected"}
    PROVE  AccountedIn(lh, r, w)
<1>1. o.base \in Nat /\ Len(lg) \in Nat
  BY DEF Op
<1>2. CASE lh = lg
  BY <1>2 DEF AccountedIn
<1>3. CASE lh = Append(lg, ev)
  <2>1. Len(lh) = Len(lg) + 1
    BY <1>3
  <2>2. \A kind \in {"accepted", "duplicate", "rejected"} :
           SaidIn(lh, r, o.base, kind) = SaidIn(lg, r, o.base, kind)
    BY <1>1, <1>3, SaidElsewhere
  <2> QED BY <1>1, <2>1, <2>2 DEF AccountedIn
<1> QED BY <1>2, <1>3

\* The steps of a request that log nothing keep what it has counted.
LEMMA QuietStep ==
    ASSUME TypeOK, NEW r \in Requests,
           \/ CheckRow(r) \/ ReturnVector(r) \/ InsertRow(r) \/ ReadEntries(r)
           \/ TruncateFile(r) \/ WriteLine(r) \/ ReadVersions(r) \/ ReadVectors(r)
           \/ Fill(r) \/ ReplaceTarget(r)
    PROVE  /\ log' = log
           /\ \E o : Moves(r, o)
           /\ \/ op'[r] = Idle
              \/ /\ op[r].pc # "idle"
                 /\ op'[r].base = op[r].base /\ op'[r].counts = op[r].counts
<1> DEFINE Fine(o) == \/ o = Idle
                      \/ /\ op[r].pc # "idle"
                         /\ o.base = op[r].base /\ o.counts = op[r].counts
<1> SUFFICES log' = log /\ \E o : Moves(r, o) /\ Fine(o)
  BY MovesTo
<1>1. op[r] \in Op
  BY Placed
<1>2. log' = log
  BY DEF CheckRow, ReturnVector, InsertRow, ReadEntries, TruncateFile, WriteLine, ReadVersions,
         ReadVectors, Fill, ReplaceTarget, KeepsFiles, KeepsAllButJsonl
<1>3. CASE CheckRow(r)
  <2>1. PICK row \in op[r].todo :
           LET o == [op[r] EXCEPT !.row = row, !.todo = @ \ {row}] IN
           \/ Moves(r, [o EXCEPT !.pc = "audit",
                                 !.outcome = IF Refused(op[r].proc, row) THEN "rejected"
                                             ELSE "duplicate"])
           \/ Moves(r, [o EXCEPT !.pc = "embed"])
    <3>1. PICK row \in op[r].todo :
             LET o == [op[r] EXCEPT !.row = row, !.todo = @ \ {row}]
                 refused == Refused(op[r].proc, row) IN
             IF refused \/ row.entry \in Stored
             THEN /\ Moves(r, [o EXCEPT !.pc = "audit",
                                       !.outcome = IF refused THEN "rejected" ELSE "duplicate"])
                  /\ UNCHANGED versions
             ELSE /\ Moves(r, [o EXCEPT !.pc = "embed"])
                  /\ versions' = versions \cup {Current}
      BY <1>3 DEF CheckRow
    <3> QED BY <3>1
  <2> DEFINE o == [op[r] EXCEPT !.row = row, !.todo = @ \ {row}]
             outcome == IF Refused(op[r].proc, row) THEN "rejected" ELSE "duplicate"
  <2>2. op[r].pc # "idle"
    BY <1>3 DEF CheckRow
  <2>3. Fine([o EXCEPT !.pc = "audit", !.outcome = outcome]) /\ Fine([o EXCEPT !.pc = "embed"])
    <3> HIDE DEF outcome
    <3> QED BY <1>1, <2>2 DEF Op
  <2> QED BY <1>2, <2>1, <2>3
<1>4. CASE ReturnVector(r)
  <2>1. PICK pc : Moves(r, [op[r] EXCEPT !.pc = pc])
    BY <1>4 DEF ReturnVector
  <2>2. Fine([op[r] EXCEPT !.pc = pc])
    BY <1>1, <1>4 DEF ReturnVector, Op
  <2> QED BY <1>2, <2>1, <2>2
<1>5. CASE InsertRow(r)
  <2>1. \/ Moves(r, Idle)
        \/ Moves(r, [op[r] EXCEPT !.pc = "audit", !.outcome = "accepted"])
    BY <1>5 DEF InsertRow
  <2>2. Fine(Idle) /\ Fine([op[r] EXCEPT !.pc = "audit", !.outcome = "accepted"])
    BY <1>1, <1>5 DEF InsertRow, Op
  <2> QED BY <1>2, <2>1, <2>2
<1>6. CASE ReadEntries(r)
  <2> DEFINE rows == {[entry |-> e, key |-> entries[e].key] : e \in Stored}
  <2>1. \/ Moves(r, [op[r] EXCEPT !.pc = "truncate", !.todo = rows])
        \/ Moves(r, [op[r] EXCEPT !.pc = "versions", !.tmp.rows = rows])
    BY <1>6 DEF ReadEntries
  <2> HIDE DEF rows
  <2>2. /\ Fine([op[r] EXCEPT !.pc = "truncate", !.todo = rows])
        /\ Fine([op[r] EXCEPT !.pc = "versions", !.tmp.rows = rows])
    BY <1>1, <1>6 DEF ReadEntries, Op
  <2> QED BY <1>2, <2>1, <2>2
<1>7. CASE TruncateFile(r)
  <2>1. PICK pc : Moves(r, [op[r] EXCEPT !.pc = pc])
    BY <1>7 DEF TruncateFile
  <2>2. Fine([op[r] EXCEPT !.pc = pc])
    BY <1>1, <1>7 DEF TruncateFile, Op
  <2> QED BY <1>2, <2>1, <2>2
<1>8. CASE WriteLine(r)
  <2>1. PICK row \in op[r].todo :
           Moves(r, [op[r] EXCEPT !.todo = @ \ {row},
                                  !.pc = IF op[r].todo = {row} THEN "auditExport" ELSE @])
    BY <1>8 DEF WriteLine
  <2>2. Fine([op[r] EXCEPT !.todo = @ \ {row},
                           !.pc = IF op[r].todo = {row} THEN "auditExport" ELSE @])
    BY <1>1, <1>8 DEF WriteLine, Op
  <2> QED BY <1>2, <2>1, <2>2
<1>9. CASE ReadVersions(r)
  <2>1. Fine([op[r] EXCEPT !.pc = "vectors", !.tmp.versions = versions])
    BY <1>1, <1>9 DEF ReadVersions, Op
  <2> QED BY <1>2, <1>9, <2>1 DEF ReadVersions
<1>10. CASE ReadVectors(r)
  <2> DEFINE vecs == VectorsOf(op[r].tmp.rows)
  <2>1. Moves(r, [op[r] EXCEPT !.pc = "fill", !.tmp.vecs = vecs])
    BY <1>10 DEF ReadVectors
  <2> HIDE DEF vecs
  <2>2. Fine([op[r] EXCEPT !.pc = "fill", !.tmp.vecs = vecs])
    BY <1>1, <1>10 DEF ReadVectors, Op
  <2> QED BY <1>2, <2>1, <2>2
<1>11. CASE Fill(r)
  <2> DEFINE used == Used(op[r].tmp)
  <2>1. \/ Moves(r, [op[r] EXCEPT !.pc = "replace", !.tmp.versions = @ \cap used])
        \/ Moves(r, Idle)
    BY <1>11 DEF Fill
  <2> HIDE DEF used
  <2>2. Fine(Idle) /\ Fine([op[r] EXCEPT !.pc = "replace", !.tmp.versions = @ \cap used])
    BY <1>1, <1>11 DEF Fill, Op
  <2> QED BY <1>2, <2>1, <2>2
<1>12. CASE ReplaceTarget(r)
  <2>1. Fine([op[r] EXCEPT !.pc = "auditExport", !.tmp = NoDatabase])
    BY <1>1, <1>12 DEF ReplaceTarget, Op
  <2> QED BY <1>2, <1>12, <2>1 DEF ReplaceTarget
<1> QED BY <1>3, <1>4, <1>5, <1>6, <1>7, <1>8, <1>9, <1>10, <1>11, <1>12

\* The steps of a request that log an event.
LoudStep(r) == AuditDegraded(r) \/ AuditRow(r) \/ FinishImport(r) \/ AuditExport(r)

LEMMA LoudEvent ==
    ASSUME TypeOK, NEW r \in Requests, LoudStep(r)
    PROVE  /\ \E ev \in Event : ev.by = r /\ log' = Append(log, ev)
           /\ \E o : Moves(r, o)
<1>1. op[r].counts \in Counts
  BY Placed DEF Op
<1>2. ASSUME NEW kind \in EventKinds, NEW c \in Counts
      PROVE  LET ev == [by |-> r, kind |-> kind, counts |-> c] IN ev \in Event /\ ev.by = r
  BY DEF Event
<1>3. CASE AuditDegraded(r)
  BY <1>2, <1>3, ZeroOk DEF AuditDegraded, Appended, EventKinds
<1>4. CASE AuditRow(r)
  <2>1. op[r].outcome \in EventKinds
    BY <1>4, Placed DEF AuditRow, WellPlaced, EventKinds
  <2> QED BY <1>2, <1>4, <2>1, ZeroOk DEF AuditRow, Appended
<1>5. CASE FinishImport(r)
  BY <1>1, <1>2, <1>5 DEF FinishImport, Appended, EventKinds
<1>6. CASE AuditExport(r)
  BY <1>2, <1>6, ZeroOk DEF AuditExport, Appended, EventKinds
<1> QED BY <1>3, <1>4, <1>5, <1>6 DEF LoudStep

\* A row that is logged is counted, under its outcome.
LEMMA RowCounted ==
    ASSUME TypeOK, NEW r \in Requests, AccountedIn(log, r, op[r]), AuditRow(r),
           op'[r].pc # "idle"
    PROVE  AccountedIn(log', r, op'[r])
<1> DEFINE outcome == op[r].outcome
           ev == [by |-> r, kind |-> outcome, counts |-> Zero]
           c == Counted(op[r].counts, outcome)
<1>1. op[r] \in Op /\ op[r].pc = "audit" /\ outcome \in {"accepted", "duplicate", "rejected"}
  BY Placed DEF AuditRow, WellPlaced
<1>2. ev \in Event /\ log' = Append(log, ev)
  BY <1>1, ZeroOk DEF AuditRow, Appended, Event, EventKinds
<1>3. log \in Seq(Event) /\ Len(log) \in Nat /\ op[r].base \in Nat /\ op[r].base <= Len(log)
  BY <1>1 DEF TypeOK, Op, AccountedIn
<1>4. op'[r].base = op[r].base /\ op'[r].counts = c
  <2>1. PICK pc : op'[r] = [op[r] EXCEPT !.pc = pc, !.row = None, !.outcome = None,
                                         !.counts = c]
    BY IdleOk, MovesTo DEF AuditRow
  <2> HIDE DEF c
  <2> QED BY <1>1, <2>1 DEF Op
<1>5. ev.by = r /\ ev.kind = outcome
  OBVIOUS
<1> HIDE DEF ev
<1>6. SaidIn(log', r, op[r].base, outcome) = SaidIn(log, r, op[r].base, outcome) + 1
  BY <1>2, <1>3, <1>5, SaidOnceMore
<1>7. \A kind \in {"accepted", "duplicate", "rejected"} : kind # outcome =>
         SaidIn(log', r, op[r].base, kind) = SaidIn(log, r, op[r].base, kind)
  BY <1>2, <1>3, <1>5, SaidElsewhere
<1>8. /\ op[r].counts.imported = SaidIn(log, r, op[r].base, "accepted")
      /\ op[r].counts.duplicates = SaidIn(log, r, op[r].base, "duplicate")
      /\ op[r].counts.rejected = SaidIn(log, r, op[r].base, "rejected")
  BY <1>1 DEF AccountedIn
<1>9. Len(log') = Len(log) + 1
  BY <1>2, <1>3
<1> HIDE DEF outcome
<1>10. op[r].counts \in Counts
  BY <1>1 DEF Op
<1>11. /\ c.imported = SaidIn(log', r, op[r].base, "accepted")
       /\ c.duplicates = SaidIn(log', r, op[r].base, "duplicate")
       /\ c.rejected = SaidIn(log', r, op[r].base, "rejected")
  <2>1. CASE outcome = "accepted"
    BY <1>6, <1>7, <1>8, <1>10, <2>1 DEF Counted, Counts
  <2>2. CASE outcome = "duplicate"
    BY <1>6, <1>7, <1>8, <1>10, <2>2 DEF Counted, Counts
  <2>3. CASE outcome = "rejected"
    BY <1>6, <1>7, <1>8, <1>10, <2>3 DEF Counted, Counts
  <2> QED BY <1>1, <2>1, <2>2, <2>3
<1> HIDE DEF c
<1> QED BY <1>3, <1>4, <1>9, <1>11 DEF AccountedIn

LEMMA LoudStepOk ==
    ASSUME TypeOK, NEW r \in Requests, AccountedIn(log, r, op[r]), LoudStep(r)
    PROVE  AccountedIn(log', r, op'[r])
<1>1. CASE op'[r].pc = "idle"
  BY <1>1 DEF AccountedIn
<1>2. CASE AuditRow(r) /\ op'[r].pc # "idle"
  BY <1>2, RowCounted
<1>3. CASE AuditDegraded(r)
  <2> DEFINE ev == [by |-> r, kind |-> "degraded", counts |-> Zero]
  <2>1. log' = Append(log, ev) /\ ev \in Event /\ ev.kind = "degraded" /\ op[r].pc # "idle"
    BY <1>3, ZeroOk DEF AuditDegraded, Appended, Event, EventKinds
  <2>2. op[r] \in Op /\ log \in Seq(Event)
    BY Placed DEF TypeOK
  <2>3. op'[r] = [op[r] EXCEPT !.pc = "audit", !.outcome = "rejected"]
    BY <1>3, MovesTo DEF AuditDegraded
  <2>4. op'[r].base = op[r].base /\ op'[r].counts = op[r].counts
    BY <2>2, <2>3 DEF Op
  <2> HIDE DEF ev
  <2> QED BY <2>1, <2>2, <2>4, AccountKept
<1>4. CASE FinishImport(r) \/ AuditExport(r)
  BY <1>1, <1>4, MovesTo, IdleOk DEF FinishImport, AuditExport
<1> QED BY <1>1, <1>2, <1>3, <1>4 DEF LoudStep

\* Another request moves, and may log its own events.
LEMMA OthersKept ==
    ASSUME TypeOK, NEW q \in Requests, NEW r \in Requests, q # r, NEW o, Moves(q, o),
           AccountedIn(log, r, op[r]),
           log' = log \/ \E ev \in Event : ev.by = q /\ log' = Append(log, ev)
    PROVE  AccountedIn(log', r, op'[r])
<1>1. op'[r] = op[r] /\ op[r] \in Op /\ log \in Seq(Event)
  BY DEF Moves, TypeOK
<1>2. CASE log' = log
  BY <1>1, <1>2
<1>3. CASE \E ev \in Event : ev.by = q /\ log' = Append(log, ev)
  <2>1. PICK ev \in Event : ev.by = q /\ log' = Append(log, ev)
    BY <1>3
  <2>2. CASE op[r].pc = "idle"
    BY <1>1, <2>2 DEF AccountedIn
  <2>3. CASE op[r].pc # "idle"
    BY <1>1, <2>1, <2>3, AccountKept
  <2> QED BY <2>2, <2>3
<1> QED BY <1>2, <1>3

LEMMA AccountStep ==
    ASSUME TypeOK, [Next]_vars, NEW r \in Requests, AccountedIn(log, r, op[r])
    PROVE  AccountedIn(log', r, op'[r])
<1>1. CASE UNCHANGED vars
  BY <1>1 DEF vars
<1>2. ASSUME NEW p \in Procs, ProcessStep(p)
      PROVE  AccountedIn(log', r, op'[r])
  <2>1. log' = log
    BY <1>2 DEF ProcessStep, StartProcess, FindSalt, CreateSalt, WriteSalt, ReadSalt, Stop,
                RegisterVersion, FileVector, PollAudit, KeepsData, KeepsAllButData
  <2>2. op'[r] = op[r] \/ op'[r] = Idle
    BY <1>2 DEF ProcessStep, StartProcess, FindSalt, CreateSalt, WriteSalt, ReadSalt, Stop,
                RegisterVersion, FileVector, PollAudit, KeepsAllButData
  <2> QED BY <2>1, <2>2, IdleOk DEF AccountedIn
<1>3. ASSUME NEW q \in Requests, Begin(q)
      PROVE  AccountedIn(log', r, op'[r])
  <2>1. log' = log
    BY <1>3 DEF Begin, BeginAdd, BeginImport, BeginExport
  <2>2. PICK p, pc, kind, todo : Moves(q, New(p, pc, kind, todo))
    BY <1>3 DEF Begin, BeginAdd, BeginImport, BeginExport
  <2>3. CASE q = r
    <3>1. op'[r] = New(p, pc, kind, todo)
      BY <2>2, <2>3, MovesTo
    <3>2. op'[r].base = Len(log) /\ op'[r].counts = Zero
      BY <3>1 DEF New
    <3>3. log \in Seq(Event) /\ Len(log) \in Nat
      BY DEF TypeOK
    <3> QED BY <2>1, <3>2, <3>3, SaidAtFirst DEF AccountedIn, Zero
  <2>4. CASE q # r
    BY <2>1, <2>2, <2>4, OthersKept
  <2> QED BY <2>3, <2>4
<1>4. ASSUME NEW q \in Requests, WriteStep(q) \/ ExportStep(q)
      PROVE  AccountedIn(log', r, op'[r])
  <2>1. CASE LoudStep(q)
    BY <2>1, LoudStepOk, LoudEvent, OthersKept
  <2>2. CASE ~LoudStep(q)
    <3>1. /\ log' = log
          /\ \E o : Moves(q, o)
          /\ \/ op'[q] = Idle
             \/ /\ op[q].pc # "idle"
                /\ op'[q].base = op[q].base /\ op'[q].counts = op[q].counts
      BY <1>4, <2>2, QuietStep DEF WriteStep, ExportStep, LoudStep
    <3>2. CASE q = r
      BY <3>1, <3>2, IdleOk DEF AccountedIn
    <3>3. CASE q # r
      BY <3>1, <3>3, OthersKept
    <3> QED BY <3>2, <3>3
  <2> QED BY <2>1, <2>2
<1> QED BY <1>1, <1>2, <1>3, <1>4 DEF Next

LEMMA AccountedEach == Accounted <=> \A r \in Requests : AccountedIn(log, r, op[r])
BY DEF Accounted, AccountedIn, Said, SaidIn

LEMMA AccountedNext == TypeOK /\ Accounted /\ [Next]_vars => Accounted'
<1> SUFFICES ASSUME TypeOK, Accounted, [Next]_vars PROVE Accounted'
  OBVIOUS
<1>1. \A r \in Requests : AccountedIn(log', r, op'[r])
  BY AccountedEach, AccountStep
<1> QED BY <1>1 DEF Accounted, AccountedIn, Said, SaidIn

\* What an import logs when it ends.
LEMMA AccountGiven ==
    ASSUME TypeOK, Accounted, [Next]_vars, NEW r \in Requests,
           op[r].pc = "finish", op'[r].pc = "idle", Len(log') > Len(log)
    PROVE  log'[Len(log')].counts = op[r].counts
<1>1. FinishImport(r)
  <2>1. Len(log) \in Nat
    BY DEF TypeOK
  <2>2. log' # log
    BY <2>1
  <2>3. ASSUME NEW p \in Procs, ProcessStep(p)
        PROVE  log' = log
    BY <2>3 DEF ProcessStep, StartProcess, FindSalt, CreateSalt, WriteSalt, ReadSalt, Stop,
                RegisterVersion, FileVector, PollAudit, KeepsData, KeepsAllButData
  <2>4. ASSUME NEW q \in Requests, Begin(q)
        PROVE  log' = log
    BY <2>4 DEF Begin, BeginAdd, BeginImport, BeginExport
  <2>5. PICK q \in Requests : WriteStep(q) \/ ExportStep(q)
    BY <2>2, <2>3, <2>4 DEF Next, vars
  <2>6. LoudStep(q)
    BY <2>2, <2>5, QuietStep DEF WriteStep, ExportStep, LoudStep
  <2>7. q = r
    BY <2>6, LoudEvent DEF Moves, TypeOK
  <2> QED BY <2>6, <2>7 DEF LoudStep, AuditDegraded, AuditRow, AuditExport
<1>2. log \in Seq(Event) /\ op[r].counts \in Counts
  BY Placed DEF TypeOK, Op
<1> DEFINE ev == [by |-> r, kind |-> "import", counts |-> op[r].counts]
<1>3. ev \in Event /\ log' = Append(log, ev)
  BY <1>1, <1>2 DEF FinishImport, Appended, Event, EventKinds
<1>4. ev.counts = op[r].counts
  OBVIOUS
<1> HIDE DEF ev
<1>5. log'[Len(log')] = ev
  BY <1>2, <1>3
<1> QED BY <1>4, <1>5

\* The event of an import counts the accepted, duplicate and rejected events of
\* its rows since it began, whatever the other requests append meanwhile.
THEOREM ImportsAccounted == Spec => ImportAccounted
<1>1. Init => TypeOK /\ Accounted
  BY InitType, IdleOk DEF Init, Accounted
<1>2. TypeOK /\ Accounted /\ [Next]_vars => (TypeOK /\ Accounted)'
  BY NextType, AccountedNext
<1>3. TypeOK /\ Accounted /\ [Next]_vars =>
        [\A r \in Requests :
           (op[r].pc = "finish" /\ op'[r].pc = "idle" /\ Len(log') > Len(log)) =>
              LET c == log'[Len(log')].counts IN
              /\ c.imported = Said(r, op[r].base, "accepted")
              /\ c.duplicates = Said(r, op[r].base, "duplicate")
              /\ c.rejected = Said(r, op[r].base, "rejected")]_vars
  <2> SUFFICES ASSUME TypeOK, Accounted, [Next]_vars, NEW r \in Requests,
                      op[r].pc = "finish", op'[r].pc = "idle", Len(log') > Len(log)
               PROVE  LET c == log'[Len(log')].counts IN
                      /\ c.imported = Said(r, op[r].base, "accepted")
                      /\ c.duplicates = Said(r, op[r].base, "duplicate")
                      /\ c.rejected = Said(r, op[r].base, "rejected")
    OBVIOUS
  <2>1. log'[Len(log')].counts = op[r].counts
    BY AccountGiven
  <2> QED BY <2>1 DEF Accounted
<1> QED BY <1>1, <1>2, <1>3, PTL DEF Spec, ImportAccounted
=============================================================================
