------------------------- MODULE StrongMemory_proofs -------------------------
(***************************************************************************)
(* The safety properties of StrongMemory, for any number of entries,       *)
(* contents, agents and requests.  Types and the exclusive event loop hold *)
(* for any number of processes, and so does what an invalidation has left   *)
(* of its targets so far (TraceInv); with one process the copies of a       *)
(* governance call are fresh (LoopInv), and with the semantic check on, a   *)
(* row that is about to be inserted is new (IInv).                          *)
(***************************************************************************)
EXTENDS StrongMemory, TLAPS

USE StrongAssumption

CoreInv == TypeOK /\ LoopExclusive

LEMMA IdleOk == /\ Idle \in Op /\ WellPlaced(Idle) /\ Idle.pc = "idle"
                /\ Idle.kind = "none" /\ Idle.done = {}
<1>1. NoRow \in Row
  BY DEF NoRow, Row
<1>2. <<>> \in Seq(InputRow) /\ <<>> \in Seq(Entries)
  OBVIOUS
<1> QED BY <1>1, <1>2
        DEF Idle, Op, WellPlaced, AtRow, AtTarget, AtMerge, SyncPoints

LEMMA SlotTyped ==
    ASSUME TypeOK, NEW r \in Requests
    PROVE  /\ op[r] \in Op /\ WellPlaced(op[r])
           /\ op[r].pc \in AtRow => Head(op[r].rows) \in InputRow
           /\ op[r].pc \in AtTarget => Target(op[r]) \in Entries
<1>1. op[r] \in Op /\ WellPlaced(op[r])
  BY DEF TypeOK
<1>2. op[r].rows \in Seq(InputRow) /\ op[r].targets \in Seq(Entries)
  BY <1>1 DEF Op
<1>3. op[r].pc \in AtRow => Head(op[r].rows) \in InputRow
  BY <1>1, <1>2 DEF WellPlaced
<1>4. op[r].pc \in AtTarget => Target(op[r]) \in Entries
  BY <1>1, <1>2 DEF WellPlaced, Target
<1> QED BY <1>1, <1>3, <1>4

\* A request after a row or a target is at a point that reads before it writes.
OnItsWay(o) == o \in Op /\ WellPlaced(o) /\ o.pc \in {"idle", "row", "read", "merge"}

LEMMA AfterRowOk ==
    ASSUME NEW o \in Op, WellPlaced(o), o.pc \in AtRow
    PROVE  OnItsWay(AfterRow(o))
<1>1. CASE Len(o.rows) = 1
  BY <1>1, IdleOk DEF AfterRow, OnItsWay
<1>2. CASE Len(o.rows) # 1
  <2> DEFINE w == [o EXCEPT !.pc = "row", !.rows = Tail(@), !.entry = None]
  <2>1. AfterRow(o) = w
    BY <1>2 DEF AfterRow
  <2>2. o.rows \in Seq(InputRow) /\ o.rows # <<>> /\ o.kind = "write"
    BY DEF Op, WellPlaced
  <2>3. Tail(o.rows) \in Seq(InputRow) /\ Tail(o.rows) # <<>>
    <3>1. Len(o.rows) \in Nat /\ Len(o.rows) # 0
      BY <2>2
    <3>2. Tail(o.rows) \in Seq(InputRow) /\ Len(Tail(o.rows)) = Len(o.rows) - 1
      BY <2>2
    <3>3. Len(Tail(o.rows)) # 0
      BY <1>2, <3>1, <3>2
    <3>4. \A t : t = <<>> => Len(t) = 0
      OBVIOUS
    <3> QED BY <3>2, <3>3, <3>4
  <2>4. w \in Op /\ w.pc = "row" /\ w.kind = "write" /\ w.rows = Tail(o.rows)
    BY <2>2, <2>3 DEF Op, AtRow
  <2>5. WellPlaced(w)
    BY <2>3, <2>4 DEF WellPlaced, AtRow, AtTarget, AtMerge
  <2> QED BY <2>1, <2>4, <2>5 DEF OnItsWay
<1> QED BY <1>1, <1>2

LEMMA AfterTargetOk ==
    ASSUME NEW o \in Op, WellPlaced(o), o.pc \in AtTarget
    PROVE  OnItsWay(AfterTarget(o))
<1> DEFINE clean == [o EXCEPT !.copy = NoRow, !.entry = None]
<1>1. NoRow \in Row
  BY DEF NoRow, Row
<1>2. clean \in Op /\ clean.kind = o.kind /\ clean.targets = o.targets /\ clean.n = o.n
      /\ clean.text = o.text /\ clean.done = o.done
  BY <1>1 DEF Op
<1>3. o.kind \in {"invalidate", "promote"} /\ o.n \in DOMAIN o.targets
      /\ o.targets \in Seq(Entries) /\ o.n \in Nat
  BY DEF WellPlaced, Op
<1> HIDE DEF clean
<1>4. CASE o.n < Len(o.targets)
  <2> DEFINE w == [clean EXCEPT !.pc = "read", !.n = @ + 1]
  <2>1. AfterTarget(o) = w
    BY <1>4 DEF AfterTarget, clean
  <2>2. w \in Op /\ w.pc = "read" /\ w.kind = o.kind /\ w.n = o.n + 1
        /\ w.targets = o.targets
    <3>1. o.n + 1 \in Nat
      BY <1>3
    <3>2. w = [clean EXCEPT !.pc = "read", !.n = o.n + 1]
      BY <1>2
    <3> QED BY <1>2, <3>1, <3>2 DEF Op, AtTarget
  <2>3. w.n \in DOMAIN w.targets
    BY <1>3, <1>4, <2>2
  <2>4. WellPlaced(w)
    BY <1>3, <2>2, <2>3 DEF WellPlaced, AtRow, AtTarget, AtMerge
  <2> QED BY <2>1, <2>2, <2>4 DEF OnItsWay
<1>5. CASE ~(o.n < Len(o.targets)) /\ o.kind = "promote" /\ o.done # {} /\ o.text # None
  <2> DEFINE w == [clean EXCEPT !.pc = "merge"]
  <2>1. AfterTarget(o) = w
    BY <1>5 DEF AfterTarget, clean
  <2>2. w \in Op /\ w.pc = "merge" /\ w.kind = "promote" /\ w.done # {} /\ w.text # None
    BY <1>2, <1>5 DEF Op, AtMerge
  <2>3. WellPlaced(w)
    BY <2>2 DEF WellPlaced, AtRow, AtTarget, AtMerge
  <2> QED BY <2>1, <2>2, <2>3 DEF OnItsWay
<1>6. CASE ~(o.n < Len(o.targets)) /\ ~(o.kind = "promote" /\ o.done # {} /\ o.text # None)
  BY <1>6, IdleOk DEF AfterTarget, OnItsWay
<1> QED BY <1>4, <1>5, <1>6

----------------------------------------------------------------------------
(* Types and the event loop: what a step of one request has to show. *)

LEMMA StepKeeps ==
    ASSUME CoreInv, NEW r \in Requests, NEW o \in Op, WellPlaced(o),
           op' = [op EXCEPT ![r] = o],
           o.pc \in SyncPoints => CanRun(r) \/ op[r].pc \in SyncPoints,
           entries' \in [Entries -> Row],
           audited' \in [Entries -> SUBSET AuditActions],
           restarts' = restarts
    PROVE  CoreInv'
<1> USE DEF CoreInv
<1>1. \A q \in Requests : op'[q] = IF q = r THEN o ELSE op[q]
  BY DEF TypeOK
<1>2. TypeOK'
  BY <1>1 DEF TypeOK
<1>3. LoopExclusive'
  BY <1>1 DEF LoopExclusive, CanRun
<1> QED BY <1>2, <1>3

\* A step that leaves entries alone.
LEMMA QuietStep ==
    ASSUME CoreInv, NEW r \in Requests, NEW o \in Op, WellPlaced(o),
           op' = [op EXCEPT ![r] = o],
           o.pc \in SyncPoints => CanRun(r) \/ op[r].pc \in SyncPoints,
           UNCHANGED <<entries, audited, restarts>>
    PROVE  CoreInv'
BY StepKeeps DEF CoreInv, TypeOK

LEMMA BeginSteps ==
    ASSUME CoreInv, NEW r \in Requests, BeginWrite(r) \/ BeginGovernance(r)
    PROVE  CoreInv'
<1>1. CASE BeginWrite(r)
  <2>1. PICK rows \in Files \cup NewRows :
          op' = [op EXCEPT ![r] = [Idle EXCEPT !.pc = "row", !.kind = "write",
                                               !.rows = rows]]
    BY <1>1 DEF BeginWrite
  <2> DEFINE o == [Idle EXCEPT !.pc = "row", !.kind = "write", !.rows = rows]
  <2>2. rows \in Seq(InputRow) /\ rows # <<>>
    <3>1. CASE rows \in Files
      BY <3>1
    <3>2. CASE rows \in NewRows
      <4>1. PICK c \in Contents, w \in Agents \cup {None} :
              rows = <<[id |-> None, type |-> "fact", status |-> "active",
                        content |-> c, owner |-> w, promoted |-> FALSE]>>
        BY <3>2 DEF NewRows
      <4>2. [id |-> None, type |-> "fact", status |-> "active", content |-> c,
             owner |-> w, promoted |-> FALSE] \in InputRow
        BY DEF InputRow
      <4> QED BY <4>1, <4>2
    <3> QED BY <3>1, <3>2
  <2>3. o \in Op /\ o.pc = "row" /\ o.kind = "write" /\ o.rows = rows
    BY <2>2, IdleOk DEF Op, Idle, AtRow
  <2>4. WellPlaced(o)
    BY <2>2, <2>3 DEF WellPlaced, AtRow, AtTarget, AtMerge
  <2> HIDE DEF o
  <2>5. op' = [op EXCEPT ![r] = o]
    BY <2>1 DEF o
  <2> QED BY <1>1, <2>3, <2>4, <2>5, QuietStep DEF BeginWrite
<1>2. CASE BeginGovernance(r)
  <2>1. PICK kind \in {"invalidate", "promote"}, targets \in TargetLists, text \in Texts :
          op' = [op EXCEPT ![r] = [Idle EXCEPT !.pc = "read", !.kind = kind,
                                               !.targets = targets, !.text = text]]
    BY <1>2 DEF BeginGovernance
  <2> DEFINE o == [Idle EXCEPT !.pc = "read", !.kind = kind,
                               !.targets = targets, !.text = text]
  <2>2. targets \in Seq(Entries) /\ 1 \in DOMAIN targets /\ text \in Contents \cup {Blank, None}
    BY DEF StrongAssumption
  <2>3. o \in Op /\ o.pc = "read" /\ o.kind = kind /\ o.targets = targets /\ o.n = 1
    BY <2>2, IdleOk DEF Op, Idle, AtTarget
  <2>4. WellPlaced(o)
    BY <2>2, <2>3 DEF WellPlaced, AtRow, AtTarget, AtMerge
  <2> HIDE DEF o
  <2>5. op' = [op EXCEPT ![r] = o]
    BY <2>1 DEF o
  <2> QED BY <1>2, <2>3, <2>4, <2>5, QuietStep DEF BeginGovernance
<1> QED BY <1>1, <1>2

\* The steps of a write that store nothing.
LEMMA WriteQuietSteps ==
    ASSUME CoreInv, NEW r \in Requests,
           \/ CheckRow(r) \/ RejectRow(r) \/ CheckDuplicates(r)
           \/ RejectEmbedding(r) \/ StoreRowFails(r)
    PROVE  CoreInv'
<1>1. /\ op[r] \in Op /\ WellPlaced(op[r]) /\ op[r].pc \in AtRow
      /\ CanRun(r) \/ op[r].pc \in SyncPoints
  BY SlotTyped DEF CheckRow, RejectRow, CheckDuplicates, RejectEmbedding, StoreRowFails,
                   CoreInv, AtRow, SyncPoints
<1>2. OnItsWay(AfterRow(op[r])) /\ OnItsWay(Idle)
  BY <1>1, AfterRowOk, IdleOk DEF OnItsWay
<1>3. ASSUME NEW pc \in {"embed", "insert"}
      PROVE  [op[r] EXCEPT !.pc = pc] \in Op /\ WellPlaced([op[r] EXCEPT !.pc = pc])
  <2> DEFINE w == [op[r] EXCEPT !.pc = pc]
  <2>1. w \in Op /\ w.pc = pc /\ w.kind = op[r].kind /\ w.rows = op[r].rows
    BY <1>1 DEF Op, AtRow
  <2> HIDE DEF w
  <2>2. WellPlaced(w)
    BY <1>1, <2>1 DEF WellPlaced, AtRow, AtTarget, AtMerge
  <2> QED BY <2>1, <2>2 DEF w
<1>4. PICK o : /\ o \in Op /\ WellPlaced(o) /\ op' = [op EXCEPT ![r] = o]
  BY <1>2, <1>3 DEF OnItsWay, CheckRow, RejectRow, CheckDuplicates, RejectEmbedding,
                    StoreRowFails
<1> QED BY <1>1, <1>4, QuietStep
        DEF CheckRow, RejectRow, CheckDuplicates, RejectEmbedding, StoreRowFails

LEMMA StoreRowStep ==
    ASSUME CoreInv, NEW r \in Requests, StoreRow(r)
    PROVE  CoreInv'
<1> DEFINE row == Head(op[r].rows)
<1>1. op[r] \in Op /\ WellPlaced(op[r]) /\ op[r].pc = "insert" /\ row \in InputRow
  BY SlotTyped DEF StoreRow, CoreInv, AtRow
<1>2. Stored(row) \in Row
  BY <1>1 DEF Stored, Row, InputRow
<1>3. PICK e \in IF row.id = None THEN Fresh ELSE {row.id} :
        /\ entries' = [entries EXCEPT ![e] = Stored(row)]
        /\ op' = [op EXCEPT ![r].pc = "auditWrite", ![r].entry = e]
  BY DEF StoreRow, Insert
<1>4. e \in Entries
  BY <1>1 DEF Fresh, InputRow
<1> DEFINE o == [op[r] EXCEPT !.pc = "auditWrite", !.entry = e]
<1>5. op' = [op EXCEPT ![r] = o]
  BY <1>1, <1>3 DEF CoreInv, TypeOK
<1>6. o \in Op /\ o.pc = "auditWrite" /\ o.kind = op[r].kind /\ o.rows = op[r].rows
      /\ o.entry = e
  BY <1>1, <1>4 DEF Op, AtRow
<1> HIDE DEF o, row
<1>7. WellPlaced(o)
  BY <1>1, <1>4, <1>6 DEF WellPlaced, AtRow, AtTarget, AtMerge
<1>8. entries' \in [Entries -> Row] /\ op[r].pc \in SyncPoints
  BY <1>1, <1>2, <1>3 DEF CoreInv, TypeOK, AtRow, SyncPoints
<1> QED BY <1>5, <1>6, <1>7, <1>8, StepKeeps DEF StoreRow, CoreInv, TypeOK

\* The steps that add a row to the audit log.
LEMMA AuditSteps ==
    ASSUME CoreInv, NEW r \in Requests,
           AuditWrite(r) \/ AuditInternal(r) \/ AuditTarget(r) \/ AuditMerge(r)
    PROVE  CoreInv'
<1>1. /\ op[r] \in Op /\ WellPlaced(op[r])
      /\ op[r].pc \in {"auditWrite", "auditMarker", "auditSummary", "auditTarget",
                       "auditMerge"}
      /\ op[r].pc \in SyncPoints
  BY SlotTyped DEF AuditWrite, AuditInternal, AuditTarget, AuditMerge, CoreInv,
                   AtRow, AtTarget, AtMerge, SyncPoints
<1>2. audited' \in [Entries -> SUBSET AuditActions]
  <2>1. op[r].kind \in {"invalidate", "promote"} \/ op[r].pc # "auditTarget"
    BY <1>1 DEF WellPlaced, AtTarget
  <2>2. \E a \in AuditActions : \E e : audited' = [audited EXCEPT ![e] = @ \cup {a}]
    BY <1>1, <2>1 DEF AuditWrite, AuditInternal, AuditTarget, AuditMerge, AuditActions
  <2>3. audited \in [Entries -> SUBSET AuditActions]
    BY DEF CoreInv, TypeOK
  <2>4. PICK a \in AuditActions : \E e : audited' = [audited EXCEPT ![e] = @ \cup {a}]
    BY <2>2
  <2>5. PICK e : audited' = [audited EXCEPT ![e] = @ \cup {a}]
    BY <2>4
  <2> QED BY <2>3, <2>5
<1>3. PICK o : o \in Op /\ WellPlaced(o) /\ op' = [op EXCEPT ![r] = o]
  <2>1. CASE AuditWrite(r)
    BY <1>1, <2>1, AfterRowOk DEF AuditWrite, OnItsWay, AtRow
  <2>2. CASE AuditTarget(r)
    BY <1>1, <2>2, AfterTargetOk DEF AuditTarget, OnItsWay, AtTarget
  <2>3. CASE AuditMerge(r)
    BY <2>3, IdleOk DEF AuditMerge
  <2>4. CASE AuditInternal(r) /\ op[r].pc = "auditMarker"
    <3> DEFINE w == [op[r] EXCEPT !.pc = "auditTarget"]
    <3>1. op' = [op EXCEPT ![r] = w]
      BY <2>4 DEF AuditInternal, CoreInv, TypeOK
    <3>2. /\ w \in Op /\ w.pc = "auditTarget" /\ w.kind = op[r].kind /\ w.n = op[r].n
          /\ w.targets = op[r].targets /\ w.done = op[r].done /\ w.text = op[r].text
          /\ w.entry = op[r].entry
      BY <1>1 DEF Op, AtTarget, AtMerge
    <3> HIDE DEF w
    <3>3. WellPlaced(w)
      BY <1>1, <2>4, <3>2 DEF WellPlaced, AtRow, AtTarget, AtMerge
    <3> QED BY <3>1, <3>2, <3>3
  <2>5. CASE AuditInternal(r) /\ op[r].pc = "auditSummary"
    <3> DEFINE w == [op[r] EXCEPT !.pc = "auditMerge"]
    <3>1. op' = [op EXCEPT ![r] = w]
      BY <2>5 DEF AuditInternal, CoreInv, TypeOK
    <3>2. /\ w \in Op /\ w.pc = "auditMerge" /\ w.kind = op[r].kind /\ w.n = op[r].n
          /\ w.targets = op[r].targets /\ w.done = op[r].done /\ w.text = op[r].text
          /\ w.entry = op[r].entry
      BY <1>1 DEF Op, AtTarget, AtMerge
    <3> HIDE DEF w
    <3>3. WellPlaced(w)
      BY <1>1, <2>5, <3>2 DEF WellPlaced, AtRow, AtTarget, AtMerge
    <3> QED BY <3>1, <3>2, <3>3
  <2> QED BY <2>1, <2>2, <2>3, <2>4, <2>5 DEF AuditInternal
<1> QED BY <1>1, <1>2, <1>3, StepKeeps
        DEF AuditWrite, AuditInternal, AuditTarget, AuditMerge, CoreInv, TypeOK

LEMMA ReadTargetStep ==
    ASSUME CoreInv, NEW r \in Requests, ReadTarget(r)
    PROVE  CoreInv'
<1> DEFINE row == entries[Target(op[r])]
           w == [op[r] EXCEPT !.pc = "write", !.copy = row]
<1>1. op[r] \in Op /\ WellPlaced(op[r]) /\ op[r].pc = "read" /\ row \in Row
      /\ op[r].pc \in AtTarget /\ op[r].pc \in SyncPoints
  BY SlotTyped DEF ReadTarget, CoreInv, TypeOK, AtTarget, SyncPoints
<1>2. OnItsWay(AfterTarget(op[r]))
  BY <1>1, AfterTargetOk
<1>3. CASE Skipped(r, row)
  <2>1. op' = [op EXCEPT ![r] = AfterTarget(op[r])]
    BY <1>3 DEF ReadTarget
  <2> QED BY <1>1, <1>2, <2>1, QuietStep DEF ReadTarget, OnItsWay
<1>4. CASE ~Skipped(r, row)
  <2>1. op' = [op EXCEPT ![r] = w]
    BY <1>4 DEF ReadTarget
  <2>2. row.status # "absent"
    BY <1>4 DEF Skipped
  <2>3. w \in Op /\ w.pc = "write" /\ w.kind = op[r].kind /\ w.n = op[r].n
        /\ w.targets = op[r].targets /\ w.copy = row
    BY <1>1 DEF Op, AtTarget
  <2> HIDE DEF w, row
  <2>4. WellPlaced(w)
    BY <1>1, <2>2, <2>3 DEF WellPlaced, AtRow, AtTarget, AtMerge
  <2> QED BY <1>1, <2>1, <2>3, <2>4, QuietStep DEF ReadTarget
<1> QED BY <1>3, <1>4

LEMMA WriteTargetStep ==
    ASSUME CoreInv, NEW r \in Requests, WriteTarget(r)
    PROVE  CoreInv'
<1> DEFINE row == IF op[r].kind = "invalidate"
                  THEN [op[r].copy EXCEPT !.status = "invalidated"]
                  ELSE [op[r].copy EXCEPT !.promoted = TRUE]
           pc == IF op[r].kind = "invalidate" THEN "marker" ELSE "auditTarget"
           w == [op[r] EXCEPT !.pc = pc, !.done = @ \cup {Target(op[r])}]
<1>1. op[r] \in Op /\ WellPlaced(op[r]) /\ op[r].pc = "write" /\ Target(op[r]) \in Entries
      /\ op[r].pc \in SyncPoints
  BY SlotTyped DEF WriteTarget, CoreInv, AtTarget, SyncPoints
<1>2. row \in Row
  BY <1>1 DEF Op, Row
<1>3. entries' = [entries EXCEPT ![Target(op[r])] = row]
  BY DEF WriteTarget, Insert
<1>4. op' = [op EXCEPT ![r] = w]
  BY <1>1 DEF WriteTarget, CoreInv, TypeOK
<1>5. w \in Op /\ w.pc = pc /\ w.kind = op[r].kind /\ w.n = op[r].n
      /\ w.targets = op[r].targets /\ w.copy = op[r].copy
  BY <1>1 DEF Op, AtTarget
<1> HIDE DEF w, row
<1>6. WellPlaced(w)
  BY <1>1, <1>5 DEF WellPlaced, AtRow, AtTarget, AtMerge
<1>7. entries' \in [Entries -> Row]
  BY <1>2, <1>3 DEF CoreInv, TypeOK
<1> QED BY <1>1, <1>4, <1>5, <1>6, <1>7, StepKeeps DEF WriteTarget, CoreInv, TypeOK

LEMMA InternalStep ==
    ASSUME CoreInv, NEW r \in Requests, InsertMarker(r) \/ InsertSummary(r)
    PROVE  CoreInv'
<1> DEFINE o == op[r]
<1>1. o \in Op /\ WellPlaced(o) /\ o.pc \in {"marker", "merge"} /\ o.pc \in SyncPoints
      /\ (o.pc = "marker" => Target(o) \in Entries)
  BY SlotTyped DEF InsertMarker, InsertSummary, CoreInv, AtTarget, AtMerge, SyncPoints
<1>2. PICK row, pc :
        /\ InsertInternal(r, row, pc)
        /\ (pc = "auditMarker" /\ o.pc = "marker") \/ (pc = "auditSummary" /\ o.pc = "merge")
        /\ o.text # Blank => row \in Row
  <2>1. CASE InsertMarker(r)
    <3> DEFINE row == [NoRow EXCEPT !.status = "active", !.type = "invalidated",
                                    !.content = o.text, !.owner = o.copy.owner,
                                    !.promoted = TRUE, !.links = {Target(o)}]
    <3>1. InsertInternal(r, row, "auditMarker") /\ o.pc = "marker"
      BY <2>1 DEF InsertMarker
    <3>2. o.text # Blank => row \in Row
      BY <1>1, <3>1 DEF Op, Row, NoRow
    <3> QED BY <3>1, <3>2
  <2>2. CASE InsertSummary(r)
    <3> DEFINE row == [NoRow EXCEPT !.status = "active", !.content = o.text,
                                    !.promoted = TRUE, !.links = o.done]
    <3>1. InsertInternal(r, row, "auditSummary") /\ o.pc = "merge"
      BY <2>2 DEF InsertSummary
    <3>2. o.text # Blank => row \in Row
      BY <1>1, <3>1 DEF Op, Row, NoRow
    <3> QED BY <3>1, <3>2
  <2> QED BY <2>1, <2>2
<1>3. UNCHANGED <<audited, restarts>>
  BY DEF InsertMarker, InsertSummary
<1>4. CASE o.text = Blank
  <2>1. op' = [op EXCEPT ![r] = Idle] /\ UNCHANGED entries
    BY <1>2, <1>4 DEF InsertInternal, AcceptsInternal
  <2> QED BY <1>1, <1>3, <2>1, IdleOk, QuietStep DEF SyncPoints
<1>5. CASE o.text # Blank
  <2>1. PICK e \in Fresh : /\ entries' = [entries EXCEPT ![e] = row]
                           /\ op' = [op EXCEPT ![r].pc = pc, ![r].entry = e]
    BY <1>2, <1>5 DEF InsertInternal, AcceptsInternal, Insert
  <2>2. e \in Entries
    BY DEF Fresh
  <2> DEFINE w == [o EXCEPT !.pc = pc, !.entry = e]
  <2>3. op' = [op EXCEPT ![r] = w]
    BY <1>1, <2>1 DEF CoreInv, TypeOK
  <2>4. w \in Op /\ w.pc = pc /\ w.kind = o.kind /\ w.n = o.n /\ w.targets = o.targets
        /\ w.done = o.done /\ w.text = o.text /\ w.entry = e
    BY <1>1, <1>2, <2>2 DEF Op, AtTarget, AtMerge
  <2> HIDE DEF w
  <2>5. WellPlaced(w)
    BY <1>1, <1>2, <2>2, <2>4 DEF WellPlaced, AtRow, AtTarget, AtMerge
  <2>6. entries' \in [Entries -> Row]
    BY <1>2, <1>5, <2>1 DEF CoreInv, TypeOK
  <2> QED BY <1>1, <1>3, <2>3, <2>4, <2>5, <2>6, StepKeeps DEF CoreInv, TypeOK
<1> QED BY <1>4, <1>5

LEMMA RestartStep ==
    ASSUME CoreInv, NEW p \in Procs, Restart(p)
    PROVE  CoreInv'
<1>1. /\ \A q \in Requests : op'[q] = IF Home[q] = p THEN Idle ELSE op[q]
      /\ op' \in [Requests -> Op] /\ \A q \in Requests : WellPlaced(op'[q])
      /\ restarts' \in 0..MaxRestarts /\ UNCHANGED <<entries, audited>>
  BY IdleOk DEF Restart, CoreInv, TypeOK
<1>2. LoopExclusive'
  BY <1>1, IdleOk DEF CoreInv, LoopExclusive, SyncPoints, AtRow, AtTarget, AtMerge
<1> QED BY <1>1, <1>2 DEF CoreInv, TypeOK

LEMMA InitCore == Init => CoreInv
<1> SUFFICES ASSUME Init PROVE CoreInv
  OBVIOUS
<1>1. TypeOK
  BY IdleOk DEF Init, TypeOK, NoRow, Row, AuditActions
<1>2. LoopExclusive
  BY IdleOk DEF Init, LoopExclusive, SyncPoints, AtRow, AtTarget, AtMerge
<1> QED BY <1>1, <1>2 DEF CoreInv

RequestStep(r) == BeginWrite(r) \/ BeginGovernance(r) \/ WriteStep(r) \/ GovernanceStep(r)

LEMMA NextCore == CoreInv /\ [Next]_vars => CoreInv'
<1> SUFFICES ASSUME CoreInv, [Next]_vars PROVE CoreInv'
  OBVIOUS
<1>1. ASSUME NEW r \in Requests, RequestStep(r) PROVE CoreInv'
  BY <1>1, BeginSteps, WriteQuietSteps, StoreRowStep, AuditSteps, ReadTargetStep,
     WriteTargetStep, InternalStep DEF RequestStep, WriteStep, GovernanceStep
<1>2. ASSUME NEW p \in Procs, Restart(p) PROVE CoreInv'
  BY <1>2, RestartStep
<1>3. CASE UNCHANGED vars
  BY <1>3 DEF vars, CoreInv, TypeOK, LoopExclusive
<1> QED BY <1>1, <1>2, <1>3 DEF Next, RequestStep

\* Every variable keeps its type, and a request that writes has a row, a target
\* or an inserted entry at hand.
THEOREM TypeCorrect == Spec => []TypeOK
<1>1. CoreInv => TypeOK
  BY DEF CoreInv
<1> QED BY <1>1, InitCore, NextCore, PTL DEF Spec
----------------------------------------------------------------------------
(* One process: the copies of a governance call are fresh. *)

\* With one process a step of a request that was or becomes synchronous finds
\* every other request waiting or idle.
LEMMA OthersWait ==
    ASSUME OneHome, CoreInv, NEW r \in Requests, NEW q \in Requests, q # r,
           CanRun(r) \/ op[r].pc \in SyncPoints
    PROVE  op[q].pc \notin SyncPoints
BY DEF OneHome, CoreInv, LoopExclusive, CanRun

LEMMA RequestMoves ==
    ASSUME CoreInv, NEW r \in Requests, RequestStep(r)
    PROVE  /\ CanRun(r) \/ op[r].pc \in SyncPoints
           /\ \A q \in Requests \ {r} : op'[q] = op[q]
BY DEF RequestStep, WriteStep, GovernanceStep, BeginWrite, BeginGovernance, CheckRow,
       RejectRow, CheckDuplicates, RejectEmbedding, StoreRow, StoreRowFails, AuditWrite,
       ReadTarget, WriteTarget, InsertMarker, InsertInternal, AcceptsInternal, AuditInternal, AuditTarget,
       InsertSummary, AuditMerge, SyncPoints, AtRow, AtTarget, AtMerge, CoreInv, TypeOK

\* The steps that end at a point where a request holds nothing it has read.
LEMMA HoldsNothing ==
    ASSUME CoreInv, NEW r \in Requests, RequestStep(r),
           ~ReadTarget(r), ~CheckDuplicates(r)
    PROVE  op'[r].pc \notin {"write", "insert"}
<1> USE DEF CoreInv
<1>0. op[r] \in Op /\ WellPlaced(op[r]) /\ op \in [Requests -> Op] /\ Idle.pc = "idle"
  BY SlotTyped, IdleOk DEF TypeOK
<1>1. CASE BeginWrite(r) \/ BeginGovernance(r)
  <2>1. CASE BeginWrite(r)
    <3>1. PICK rows : op' = [op EXCEPT ![r] = [Idle EXCEPT !.pc = "row", !.kind = "write",
                                                           !.rows = rows]]
      BY <2>1 DEF BeginWrite
    <3> QED BY <1>0, <3>1 DEF Idle
  <2>2. CASE BeginGovernance(r)
    <3>1. PICK kind, targets, text :
            op' = [op EXCEPT ![r] = [Idle EXCEPT !.pc = "read", !.kind = kind,
                                                 !.targets = targets, !.text = text]]
      BY <2>2 DEF BeginGovernance
    <3> QED BY <1>0, <3>1 DEF Idle
  <2> QED BY <1>1, <2>1, <2>2
<1>2. ASSUME op[r].pc \in AtRow PROVE AfterRow(op[r]).pc \notin {"write", "insert"}
  BY <1>0, <1>2, AfterRowOk DEF OnItsWay
<1>3. ASSUME op[r].pc \in AtTarget PROVE AfterTarget(op[r]).pc \notin {"write", "insert"}
  BY <1>0, <1>3, AfterTargetOk DEF OnItsWay
<1>4. CASE CheckRow(r)
  <2>1. op'[r] \in {Idle, AfterRow(op[r]), [op[r] EXCEPT !.pc = "embed"]}
        /\ op[r].pc \in AtRow
    BY <1>0, <1>4 DEF CheckRow, AtRow
  <2>2. [op[r] EXCEPT !.pc = "embed"].pc = "embed"
    BY <1>0 DEF Op
  <2> QED BY <1>0, <1>2, <2>1, <2>2
<1>5. CASE RejectRow(r) \/ RejectEmbedding(r) \/ AuditWrite(r)
  <2>1. op'[r] = AfterRow(op[r]) /\ op[r].pc \in AtRow
    BY <1>0, <1>5 DEF RejectRow, RejectEmbedding, AuditWrite, AtRow
  <2> QED BY <1>2, <2>1
<1>6. CASE StoreRowFails(r) \/ AuditMerge(r)
  BY <1>0, <1>6 DEF StoreRowFails, AuditMerge
<1>7. CASE AuditTarget(r)
  <2>1. op'[r] = AfterTarget(op[r]) /\ op[r].pc \in AtTarget
    BY <1>0, <1>7 DEF AuditTarget, AtTarget
  <2> QED BY <1>3, <2>1
<1>8. CASE StoreRow(r) \/ WriteTarget(r) \/ AuditInternal(r)
  BY <1>0, <1>8 DEF StoreRow, WriteTarget, AuditInternal, Op
<1>9. CASE InsertMarker(r) \/ InsertSummary(r)
  BY <1>0, <1>9 DEF InsertMarker, InsertSummary, InsertInternal, AcceptsInternal, Op
<1> QED BY <1>1, <1>4, <1>5, <1>6, <1>7, <1>8, <1>9
        DEF RequestStep, WriteStep, GovernanceStep

\* The copy a slot is about to write back is fresh.
FreshSlot(o) == o.pc = "write" => /\ o.copy = entries[Target(o)]
                                  /\ o.kind = "promote" => o.copy.status = "active"

LEMMA ReadsFresh ==
    ASSUME CoreInv, NEW r \in Requests, ReadTarget(r)
    PROVE  FreshSlot(op[r])' /\ op'[r].pc # "insert"
<1> DEFINE row == entries[Target(op[r])]
           w == [op[r] EXCEPT !.pc = "write", !.copy = row]
<1>1. op[r] \in Op /\ WellPlaced(op[r]) /\ op[r].pc \in AtTarget /\ row \in Row
      /\ entries' = entries
  BY SlotTyped DEF ReadTarget, CoreInv, TypeOK, AtTarget
<1>2. AfterTarget(op[r]).pc \notin {"write", "insert"}
  BY <1>1, AfterTargetOk DEF OnItsWay
<1>3. op'[r] = IF Skipped(r, row) THEN AfterTarget(op[r]) ELSE w
  BY DEF ReadTarget, CoreInv, TypeOK
<1>4. w.pc = "write" /\ w.copy = row /\ w.kind = op[r].kind /\ w.n = op[r].n
      /\ w.targets = op[r].targets
  BY <1>1 DEF Op
<1>5. ~Skipped(r, row) => row.status # "absent"
                          /\ (op[r].kind = "promote" => row.status = "active")
  BY <1>1 DEF Skipped, Row
<1> HIDE DEF w
<1>6. CASE Skipped(r, row)
  BY <1>2, <1>3, <1>6 DEF FreshSlot
<1>7. CASE ~Skipped(r, row)
  <2>1. Target(w) = Target(op[r]) /\ op'[r] = w
    BY <1>3, <1>4, <1>7 DEF Target
  <2> QED BY <1>1, <1>4, <1>5, <1>7, <2>1 DEF FreshSlot
<1> QED BY <1>6, <1>7

\* The steps between the first and the last of a request keep what it is about.
Follows(w, o) == \/ w = Idle
                 \/ /\ w.kind = o.kind /\ w.done = o.done /\ w.text = o.text
                    /\ w.pc # "marker"

LEMMA AfterFollows ==
    ASSUME NEW o \in Op
    PROVE  Follows(AfterRow(o), o) /\ Follows(AfterTarget(o), o)
<1> DEFINE clean == [o EXCEPT !.copy = NoRow, !.entry = None]
<1>1. Follows(AfterRow(o), o)
  BY DEF AfterRow, Follows, Op
<1>2. clean.kind = o.kind /\ clean.done = o.done /\ clean.text = o.text /\ clean.n = o.n
      /\ DOMAIN clean = DOMAIN o
  BY DEF Op
<1>3. \/ AfterTarget(o) = Idle
      \/ AfterTarget(o) = [clean EXCEPT !.pc = "read", !.n = @ + 1]
      \/ AfterTarget(o) = [clean EXCEPT !.pc = "merge"]
  BY DEF AfterTarget
<1>4. Follows(AfterTarget(o), o)
  BY <1>3 DEF Follows, Op
<1> QED BY <1>1, <1>4

LEMMA StepFollows ==
    ASSUME CoreInv, NEW r \in Requests, WriteStep(r) \/ GovernanceStep(r), ~WriteTarget(r)
    PROVE  /\ Follows(op'[r], op[r])
           /\ \A e \in Entries : Exists(e) => entries'[e] = entries[e]
<1>0. op[r] \in Op /\ op \in [Requests -> Op] /\ entries \in [Entries -> Row]
  BY DEF CoreInv, TypeOK
<1>1. /\ Follows([op[r] EXCEPT !.pc = "embed"], op[r])
      /\ Follows([op[r] EXCEPT !.pc = "insert"], op[r])
      /\ Follows([op[r] EXCEPT !.pc = "auditTarget"], op[r])
      /\ Follows([op[r] EXCEPT !.pc = "auditMerge"], op[r])
  BY <1>0 DEF Follows, Op
<1>2. Follows(Idle, op[r])
  BY DEF Follows
<1>3. CASE CheckRow(r) \/ RejectRow(r) \/ CheckDuplicates(r) \/ RejectEmbedding(r)
           \/ StoreRowFails(r) \/ AuditWrite(r) \/ AuditTarget(r) \/ AuditMerge(r)
  <2>1. op'[r] \in {Idle, AfterRow(op[r]), AfterTarget(op[r]),
                    [op[r] EXCEPT !.pc = "embed"], [op[r] EXCEPT !.pc = "insert"]}
        /\ entries' = entries
    BY <1>0, <1>3 DEF CheckRow, RejectRow, CheckDuplicates, RejectEmbedding, StoreRowFails,
                      AuditWrite, AuditTarget, AuditMerge
  <2>2. Follows(AfterRow(op[r]), op[r]) /\ Follows(AfterTarget(op[r]), op[r])
    BY <1>0, AfterFollows
  <2>3. Follows(op'[r], op[r])
    BY <1>1, <1>2, <2>1, <2>2
  <2> QED BY <2>1, <2>3
<1>4. CASE ReadTarget(r)
  <2> DEFINE w == [op[r] EXCEPT !.pc = "write", !.copy = entries[Target(op[r])]]
  <2>1. op'[r] \in {AfterTarget(op[r]), w} /\ entries' = entries
    BY <1>0, <1>4 DEF ReadTarget
  <2>2. Follows(w, op[r])
    BY <1>0 DEF Follows, Op
  <2> QED BY <1>0, <2>1, <2>2, AfterFollows
<1>5. CASE AuditInternal(r)
  <2>1. op'[r] \in {[op[r] EXCEPT !.pc = "auditTarget"], [op[r] EXCEPT !.pc = "auditMerge"]}
        /\ entries' = entries
    BY <1>0, <1>5 DEF AuditInternal
  <2>2. Follows(op'[r], op[r])
    BY <1>1, <2>1
  <2> QED BY <2>1, <2>2
<1>6. CASE StoreRow(r)
  <2>1. PICK e : /\ ~Exists(e)
                 /\ entries' = [entries EXCEPT ![e] = Stored(Head(op[r].rows))]
                 /\ op' = [op EXCEPT ![r].pc = "auditWrite", ![r].entry = e]
    BY <1>6 DEF StoreRow, Insert
  <2> QED BY <1>0, <2>1 DEF Follows, Op
<1>7. CASE InsertMarker(r) \/ InsertSummary(r)
  <2>1. PICK row, pc : InsertInternal(r, row, pc) /\ pc # "marker"
    BY <1>7 DEF InsertMarker, InsertSummary
  <2>2. CASE op' = [op EXCEPT ![r] = Idle] /\ UNCHANGED entries
    BY <1>0, <2>2 DEF Follows
  <2>3. CASE \E e \in Fresh : /\ entries' = [entries EXCEPT ![e] = row]
                              /\ op' = [op EXCEPT ![r].pc = pc, ![r].entry = e]
    BY <1>0, <2>1, <2>3 DEF Fresh, Follows, Op
  <2> QED BY <2>1, <2>2, <2>3 DEF InsertInternal, Insert
<1> QED BY <1>3, <1>4, <1>5, <1>6, <1>7 DEF WriteStep, GovernanceStep

\* What a governance call has done to its targets holds while it runs.
HoldSlot(o) ==
    /\ o.kind = "invalidate" => o.text # None
    /\ o.pc = "marker" => /\ entries[Target(o)].status = "invalidated"
                          /\ entries[Target(o)].owner = o.copy.owner
    /\ o.kind = "promote" /\ o.pc # "idle" =>
          \A e \in o.done : entries[e].promoted /\ entries[e].status = "active"

LEMMA WriteTargetHolds ==
    ASSUME LoopInv, NEW r \in Requests, WriteTarget(r)
    PROVE  HoldSlot(op[r])'
<1> DEFINE t == Target(op[r])
           row == IF op[r].kind = "invalidate"
                  THEN [op[r].copy EXCEPT !.status = "invalidated"]
                  ELSE [op[r].copy EXCEPT !.promoted = TRUE]
           pc == IF op[r].kind = "invalidate" THEN "marker" ELSE "auditTarget"
           w == [op[r] EXCEPT !.pc = pc, !.done = @ \cup {t}]
<1>0. CoreInv /\ FreshCopies /\ HoldSlot(op[r])
  BY DEF LoopInv, CoreInv, TargetsHold, HoldSlot
<1>1. op[r] \in Op /\ WellPlaced(op[r]) /\ op[r].pc = "write" /\ t \in Entries
  BY <1>0, SlotTyped DEF WriteTarget, CoreInv, AtTarget
<1>2. op[r].copy \in Row /\ (op[r].kind = "promote" => op[r].copy.status = "active")
      /\ op[r].kind \in {"invalidate", "promote"}
  BY <1>0, <1>1 DEF FreshCopies, Op, WellPlaced, AtTarget
<1>3. op'[r] = w
  BY <1>0, <1>1 DEF WriteTarget, CoreInv, TypeOK
<1>4. w.pc = pc /\ w.kind = op[r].kind /\ w.text = op[r].text /\ w.copy = op[r].copy
      /\ w.targets = op[r].targets /\ w.n = op[r].n /\ w.done = op[r].done \cup {t}
  BY <1>1 DEF Op
<1>5. \A e \in Entries : entries'[e] = IF e = t THEN row ELSE entries[e]
  BY <1>0, <1>1 DEF WriteTarget, Insert, CoreInv, TypeOK
<1>6. op[r].done \subseteq Entries
  BY <1>1 DEF Op
<1>7. op[r].kind = "invalidate" => row.status = "invalidated" /\ row.owner = op[r].copy.owner
  BY <1>2 DEF Row
<1>8. op[r].kind = "promote" => row.promoted /\ row.status = "active"
  BY <1>2 DEF Row
<1>9. Target(w) = t
  BY <1>4 DEF Target
<1> HIDE DEF w, row, t
<1>10. op[r].kind = "promote" =>
          \A e \in w.done : entries'[e].promoted /\ entries'[e].status = "active"
  BY <1>0, <1>1, <1>4, <1>5, <1>6, <1>8 DEF HoldSlot
<1>11. w.pc = "marker" => /\ entries'[t].status = "invalidated"
                          /\ entries'[t].owner = w.copy.owner
  BY <1>1, <1>4, <1>5, <1>7
<1>12. w.kind = "invalidate" => w.text # None
  BY <1>0, <1>4 DEF HoldSlot
<1> QED BY <1>3, <1>4, <1>9, <1>10, <1>11, <1>12 DEF HoldSlot

LEMMA TargetsHoldStep ==
    ASSUME OneHome, LoopInv, Next
    PROVE  TargetsHold'
<1>0. CoreInv /\ \A q \in Requests : HoldSlot(op[q])
  BY DEF LoopInv, CoreInv, TargetsHold, HoldSlot
<1>1. ASSUME NEW r \in Requests, RequestStep(r) PROVE TargetsHold'
  <2>1. ASSUME NEW q \in Requests, q # r PROVE HoldSlot(op[q])'
    <3>1. op'[q] = op[q] /\ op[q].pc \notin SyncPoints
      BY <1>0, <1>1, <2>1, RequestMoves, OthersWait
    <3>2. op[q].pc \in {"idle", "embed"} /\ (op[q].pc = "embed" => op[q].kind = "write")
      BY <1>0, <3>1, SlotTyped DEF CoreInv, Op, WellPlaced, SyncPoints, AtRow
    <3> QED BY <1>0, <3>1, <3>2 DEF HoldSlot
  <2>2. HoldSlot(op[r])'
    <3>0. op[r] \in Op /\ WellPlaced(op[r]) /\ op[r].done \subseteq Entries
      BY <1>0, SlotTyped DEF CoreInv, Op
    <3>1. CASE WriteTarget(r)
      BY <3>1, WriteTargetHolds
    <3>2. CASE BeginWrite(r)
      <4>1. PICK rows : op' = [op EXCEPT ![r] = [Idle EXCEPT !.pc = "row", !.kind = "write",
                                                             !.rows = rows]]
        BY <3>2 DEF BeginWrite
      <4>2. op'[r].pc = "row" /\ op'[r].kind = "write"
        BY <1>0, <4>1 DEF CoreInv, TypeOK, Idle
      <4> QED BY <4>2 DEF HoldSlot
    <3>3. CASE BeginGovernance(r)
      <4>1. PICK kind, targets, text :
              /\ op' = [op EXCEPT ![r] = [Idle EXCEPT !.pc = "read", !.kind = kind,
                                                      !.targets = targets, !.text = text]]
              /\ kind = "invalidate" => text # None
        BY <3>3 DEF BeginGovernance
      <4>2. /\ op'[r].pc = "read" /\ op'[r].kind = kind /\ op'[r].text = text
            /\ op'[r].done = {}
        BY <1>0, <4>1 DEF CoreInv, TypeOK, Idle
      <4> QED BY <4>1, <4>2 DEF HoldSlot
    <3>4. CASE (WriteStep(r) \/ GovernanceStep(r)) /\ ~WriteTarget(r)
      <4>1. /\ Follows(op'[r], op[r])
            /\ \A e \in Entries : Exists(e) => entries'[e] = entries[e]
        BY <1>0, <3>4, StepFollows
      <4>2. op[r].pc # "idle"
        BY <3>4 DEF WriteStep, GovernanceStep, CheckRow, RejectRow, CheckDuplicates,
              RejectEmbedding, StoreRow, StoreRowFails, AuditWrite, ReadTarget, InsertMarker,
              AuditInternal, AuditTarget, InsertSummary, AuditMerge
      <4>3. CASE op'[r] = Idle
        BY <4>3, IdleOk DEF HoldSlot
      <4>4. CASE op'[r] # Idle
        <5>1. /\ op'[r].kind = op[r].kind /\ op'[r].done = op[r].done
              /\ op'[r].text = op[r].text /\ op'[r].pc # "marker"
          BY <4>1, <4>4 DEF Follows
        <5>2. op[r].kind = "promote" =>
                 \A e \in op[r].done : entries[e].promoted /\ entries[e].status = "active"
          BY <1>0, <4>2 DEF HoldSlot
        <5>3. op[r].kind = "promote" =>
                 \A e \in op[r].done : entries'[e].promoted /\ entries'[e].status = "active"
          BY <3>0, <4>1, <5>2 DEF Exists
        <5> QED BY <1>0, <5>1, <5>3 DEF HoldSlot
      <4> QED BY <4>3, <4>4
    <3> QED BY <1>1, <3>1, <3>2, <3>3, <3>4 DEF RequestStep
  <2> QED BY <2>1, <2>2 DEF TargetsHold, HoldSlot
<1>2. ASSUME NEW p \in Procs, Restart(p) PROVE TargetsHold'
  <2>1. \A q \in Requests : op'[q] = Idle \/ op'[q] = op[q]
    BY <1>2 DEF Restart
  <2>2. entries' = entries
    BY <1>2 DEF Restart
  <2> QED BY <1>0, <2>1, <2>2, IdleOk DEF TargetsHold, HoldSlot
<1> QED BY <1>1, <1>2 DEF Next, RequestStep

LEMMA NextLoopInv ==
    ASSUME OneHome
    PROVE  LoopInv /\ [Next]_vars => LoopInv'
<1> SUFFICES ASSUME LoopInv, [Next]_vars PROVE FreshCopies' /\ TargetsHold'
  BY NextCore DEF LoopInv, CoreInv
<1>0. CoreInv /\ FreshCopies
  BY DEF LoopInv, CoreInv
<1>1. ASSUME NEW r \in Requests, RequestStep(r) PROVE FreshCopies'
  <2>1. ASSUME NEW q \in Requests PROVE FreshSlot(op[q])'
    <3>1. CASE q = r /\ ~CheckDuplicates(r)
      BY <1>0, <1>1, <3>1, HoldsNothing, ReadsFresh DEF FreshSlot
    <3>2. CASE q = r /\ CheckDuplicates(r)
      <4>1. op[r] \in Op /\ WellPlaced(op[r]) /\ op[r].pc \in AtRow
        BY <1>0, <3>2, SlotTyped DEF CheckDuplicates, CoreInv, AtRow
      <4>2. op'[r] \in {AfterRow(op[r]), [op[r] EXCEPT !.pc = "insert"]}
        BY <1>0, <3>2 DEF CheckDuplicates, CoreInv, TypeOK
      <4>3. AfterRow(op[r]).pc # "write" /\ [op[r] EXCEPT !.pc = "insert"].pc = "insert"
        BY <4>1, AfterRowOk DEF OnItsWay, Op
      <4> QED BY <3>2, <4>2, <4>3 DEF FreshSlot
    <3>3. CASE q # r
      <4>1. op'[q] = op[q] /\ op[q].pc \notin SyncPoints
        BY <1>0, <1>1, <3>3, RequestMoves, OthersWait
      <4> QED BY <4>1 DEF FreshSlot, SyncPoints, AtTarget
    <3> QED BY <3>1, <3>2, <3>3
  <2> QED BY <2>1 DEF FreshCopies, FreshSlot
<1>2. ASSUME NEW p \in Procs, Restart(p) PROVE FreshCopies'
  <2>1. \A q \in Requests : op'[q] = Idle \/ (op'[q] = op[q] /\ entries' = entries)
    BY <1>2 DEF Restart
  <2> QED BY <1>0, <2>1, IdleOk DEF FreshCopies
<1>3. CASE UNCHANGED vars
  BY <1>0, <1>3 DEF vars, LoopInv, FreshCopies, TargetsHold
<1>4. CASE Next
  BY <1>1, <1>2, <1>4, TargetsHoldStep DEF Next, RequestStep
<1> QED BY <1>3, <1>4

LEMMA InitLoopInv == Init => LoopInv
BY InitCore, IdleOk DEF Init, LoopInv, CoreInv, FreshCopies, TargetsHold

\* What a step of one process does to the rows: it leaves them alone, fills an
\* absent one, or changes the status or the tier of one that exists, which it
\* never makes active.
Filled(row) == \/ row.status = "active" /\ ~(row.type = "fact" /\ row.vec)
               \/ \E r \in Requests : /\ op[r].pc = "insert"
                                      /\ row = Stored(Head(op[r].rows))

RowStep(e) ==
    \/ entries'[e] = entries[e]
    \/ entries[e].status = "absent" /\ Filled(entries'[e])
    \/ /\ entries[e].status # "absent"
       /\ entries'[e].status \in {entries[e].status, "invalidated"}
       /\ entries'[e].type = entries[e].type /\ entries'[e].vec = entries[e].vec
       /\ entries'[e].content = entries[e].content

LEMMA InternalRows ==
    ASSUME CoreInv, NEW r \in Requests, InsertMarker(r) \/ InsertSummary(r)
    PROVE  \A e \in Entries :
              entries'[e] = entries[e] \/ (entries[e].status = "absent"
                                           /\ entries'[e].status = "active"
                                           /\ ~(entries'[e].type = "fact" /\ entries'[e].vec))
<1>1. PICK row, pc : /\ InsertInternal(r, row, pc)
                     /\ row.status = "active" /\ ~(row.type = "fact" /\ row.vec)
  <2>1. CASE InsertMarker(r)
    <3> DEFINE row == [NoRow EXCEPT !.status = "active", !.type = "invalidated",
                                    !.content = op[r].text,
                                    !.owner = op[r].copy.owner,
                                    !.promoted = TRUE,
                                    !.links = {Target(op[r])}]
    <3>1. InsertInternal(r, row, "auditMarker")
      BY <2>1 DEF InsertMarker
    <3>2. row.status = "active" /\ row.type = "invalidated"
      BY DEF NoRow
    <3> QED BY <3>1, <3>2
  <2>2. CASE InsertSummary(r)
    <3> DEFINE row == [NoRow EXCEPT !.status = "active", !.content = op[r].text,
                                    !.promoted = TRUE, !.links = op[r].done]
    <3>1. InsertInternal(r, row, "auditSummary")
      BY <2>2 DEF InsertSummary
    <3>2. row.status = "active" /\ row.vec = FALSE
      BY DEF NoRow
    <3> QED BY <3>1, <3>2
  <2> QED BY <2>1, <2>2
<1>2. CASE UNCHANGED entries
  BY <1>2
<1>3. CASE \E e \in Fresh : entries' = [entries EXCEPT ![e] = row]
  BY <1>1, <1>3 DEF Fresh, Exists, CoreInv, TypeOK
<1> QED BY <1>1, <1>2, <1>3 DEF InsertInternal, AcceptsInternal, Insert

LEMMA StepOfRow ==
    ASSUME LoopInv, Next, NEW e \in Entries
    PROVE  RowStep(e)
<1>0. CoreInv /\ FreshCopies
  BY DEF LoopInv, CoreInv
<1>1. ASSUME entries' = entries PROVE RowStep(e)
  BY <1>1 DEF RowStep
<1>2. ASSUME NEW r \in Requests, StoreRow(r) PROVE RowStep(e)
  <2>1. PICK d : /\ ~Exists(d) /\ op[r].pc = "insert"
                 /\ entries' = [entries EXCEPT ![d] = Stored(Head(op[r].rows))]
    BY <1>2 DEF StoreRow, Insert
  <2> QED BY <1>0, <2>1 DEF RowStep, Filled, Exists, CoreInv, TypeOK
<1>3. ASSUME NEW r \in Requests, InsertMarker(r) \/ InsertSummary(r) PROVE RowStep(e)
  BY <1>0, <1>3, InternalRows DEF RowStep, Filled
<1>4. ASSUME NEW r \in Requests, WriteTarget(r) PROVE RowStep(e)
  <2> DEFINE t == Target(op[r])
             row == IF op[r].kind = "invalidate"
                    THEN [op[r].copy EXCEPT !.status = "invalidated"]
                    ELSE [op[r].copy EXCEPT !.promoted = TRUE]
  <2>1. op[r] \in Op /\ WellPlaced(op[r]) /\ op[r].pc = "write" /\ t \in Entries
    BY <1>0, <1>4, SlotTyped DEF WriteTarget, CoreInv, AtTarget
  <2>2. op[r].copy = entries[t] /\ op[r].copy.status # "absent" /\ op[r].copy \in Row
    BY <1>0, <2>1 DEF FreshCopies, WellPlaced, Op
  <2>3. entries' = [entries EXCEPT ![t] = row]
    BY <1>4 DEF WriteTarget, Insert
  <2>4. row.status \in {op[r].copy.status, "invalidated"} /\ row.type = op[r].copy.type
        /\ row.vec = op[r].copy.vec /\ row.content = op[r].copy.content
    BY <2>2 DEF Row
  <2> HIDE DEF row
  <2>5. entries'[e] = IF e = t THEN row ELSE entries[e]
    BY <1>0, <2>1, <2>3 DEF CoreInv, TypeOK
  <2> QED BY <2>2, <2>4, <2>5 DEF RowStep
<1>5. ASSUME NEW r \in Requests, RequestStep(r) PROVE RowStep(e)
  BY <1>1, <1>2, <1>3, <1>4, <1>5
     DEF RequestStep, WriteStep, GovernanceStep, BeginWrite, BeginGovernance, CheckRow,
         RejectRow, CheckDuplicates, RejectEmbedding, StoreRowFails, AuditWrite,
         ReadTarget, AuditInternal, AuditTarget, AuditMerge
<1>6. ASSUME NEW p \in Procs, Restart(p) PROVE RowStep(e)
  BY <1>1, <1>6 DEF Restart
<1> QED BY <1>5, <1>6 DEF Next, RequestStep

\* No step changes two rows.
LEMMA OneRowChanges ==
    ASSUME CoreInv, Next
    PROVE  \E x : \A g \in Entries : g # x => entries'[g] = entries[g]
<1>1. ASSUME entries' = entries
      PROVE  \E x : \A g \in Entries : g # x => entries'[g] = entries[g]
  BY <1>1
<1>2. ASSUME NEW x, NEW row, entries' = [entries EXCEPT ![x] = row]
      PROVE  \A g \in Entries : g # x => entries'[g] = entries[g]
  BY <1>2 DEF CoreInv, TypeOK
<1>3. \/ entries' = entries
      \/ \E x : \E row : entries' = [entries EXCEPT ![x] = row]
  <2>1. ASSUME NEW r \in Requests, RequestStep(r) PROVE <1>3!1 \/ <1>3!2
    BY <2>1
       DEF RequestStep, WriteStep, GovernanceStep, BeginWrite, BeginGovernance, CheckRow,
           RejectRow, CheckDuplicates, RejectEmbedding, StoreRowFails, AuditWrite,
           ReadTarget, AuditInternal, AuditTarget, AuditMerge, StoreRow, WriteTarget,
           InsertMarker, InsertSummary, InsertInternal, AcceptsInternal, Insert
  <2>2. ASSUME NEW q \in Procs, Restart(q) PROVE entries' = entries
    BY <2>2 DEF Restart
  <2> QED BY <2>1, <2>2 DEF Next, RequestStep
<1> QED BY <1>1, <1>2, <1>3

\* In one process an invalidated entry is never active again.
THEOREM OneProcessInvalidatedStays ==
    ASSUME OneHome
    PROVE  Spec => InvalidatedStaysInvalidated
<1>1. LoopInv /\ [Next]_vars =>
         [\A e \in Entries : entries[e].status = "invalidated"
                                => entries'[e].status = "invalidated"]_vars
  BY StepOfRow DEF RowStep
<1> QED BY <1>1, InitLoopInv, NextLoopInv, PTL DEF Spec, InvalidatedStaysInvalidated

----------------------------------------------------------------------------
(* One process that checks for semantic duplicates: what is stored is new. *)

LEMMA InsertsNewStep ==
    ASSUME OneHome, SemanticDedup, IInv, Next
    PROVE  InsertsNew'
<1> DEFINE NewSlot(o) == o.pc = "insert" => SemanticDuplicates(Head(o.rows).content) = {}
<1>0. CoreInv /\ InsertsNew
  BY DEF IInv, LoopInv, CoreInv
<1>1. ASSUME NEW r \in Requests, RequestStep(r) PROVE InsertsNew'
  <2>1. ASSUME NEW q \in Requests, op'[q].pc = "insert"
        PROVE  SemanticDuplicates(Head(op[q].rows).content)' = {}
    <3>1. CASE q # r
      <4>1. op'[q] = op[q] /\ op[q].pc \notin SyncPoints
        BY <1>0, <1>1, <3>1, RequestMoves, OthersWait
      <4> QED BY <2>1, <4>1 DEF SyncPoints, AtRow
    <3>2. CASE q = r
      <4>1. CheckDuplicates(r)
        BY <1>0, <1>1, <2>1, <3>2, HoldsNothing, ReadsFresh
      <4> DEFINE w == [op[r] EXCEPT !.pc = "insert"]
                 dups == SemanticDuplicates(Head(op[r].rows).content)
      <4>2. op[r] \in Op /\ WellPlaced(op[r]) /\ op[r].pc \in AtRow /\ entries' = entries
        BY <1>0, <4>1, SlotTyped DEF CheckDuplicates, CoreInv, AtRow
      <4>3. op'[r] = IF dups # {} THEN AfterRow(op[r]) ELSE w
        BY <1>0, <4>1 DEF CheckDuplicates, CoreInv, TypeOK
      <4>4. AfterRow(op[r]).pc # "insert" /\ w.rows = op[r].rows
        BY <4>2, AfterRowOk DEF OnItsWay, Op
      <4>5. dups = {} /\ op'[r].rows = op[r].rows
        BY <2>1, <3>2, <4>3, <4>4
      <4> QED BY <3>2, <4>2, <4>5 DEF SemanticDuplicates
    <3> QED BY <3>1, <3>2
  <2> QED BY <2>1 DEF InsertsNew
<1>2. ASSUME NEW p \in Procs, Restart(p) PROVE InsertsNew'
  <2>1. \A q \in Requests : op'[q] = Idle \/ op'[q] = op[q]
    BY <1>2 DEF Restart
  <2>2. entries' = entries
    BY <1>2 DEF Restart
  <2> QED BY <1>0, <2>1, <2>2, IdleOk DEF InsertsNew, SemanticDuplicates
<1> QED BY <1>1, <1>2 DEF Next, RequestStep

LEMMA FactsDifferStep ==
    ASSUME IInv, Next
    PROVE  FactsDiffer'
<1>0. LoopInv /\ InsertsNew /\ FactsDiffer
  BY DEF IInv
<1>1. \A e \in Entries : RowStep(e)
  BY <1>0, StepOfRow
<1>2. SUFFICES ASSUME NEW d \in Stores', NEW e \in Stores',
                      <<entries'[d].content, entries'[e].content>> \in Near, d # e
               PROVE  FALSE
  BY DEF FactsDiffer
<1>3. d \in Entries /\ e \in Entries
  BY DEF Stores
<1>4. ASSUME NEW g \in Entries, g \in Stores'
      PROVE  \/ g \in Stores /\ entries'[g].content = entries[g].content
             \/ \E r \in Requests : /\ op[r].pc = "insert"
                                    /\ entries'[g] = Stored(Head(op[r].rows))
                                    /\ entries[g].status = "absent"
  BY <1>1, <1>4 DEF Stores, RowStep, Filled
<1>5. PICK x : \A g \in Entries : g # x => entries'[g] = entries[g]
  BY <1>0, OneRowChanges DEF LoopInv, CoreInv
<1>6. \A g \in Entries : (g \in Stores' /\ g # x) => g \in Stores
  BY <1>5 DEF Stores
<1>7. ASSUME NEW g \in Entries, NEW h \in Entries, g \in Stores', h \in Stores',
             <<entries'[g].content, entries'[h].content>> \in Near, h # x
      PROVE  g = h
  <2>1. h \in Stores /\ entries'[h] = entries[h]
    BY <1>5, <1>6, <1>7
  <2>2. CASE g \in Stores /\ entries'[g].content = entries[g].content
    BY <1>0, <1>7, <2>1, <2>2 DEF FactsDiffer
  <2>3. CASE \E r \in Requests : /\ op[r].pc = "insert"
                                /\ entries'[g] = Stored(Head(op[r].rows))
    <3>1. PICK r \in Requests : /\ op[r].pc = "insert"
                                /\ entries'[g] = Stored(Head(op[r].rows))
      BY <2>3
    <3> DEFINE c == Head(op[r].rows).content
    <3>2. entries'[g].content = c
      BY <3>1 DEF Stored
    <3>3. SemanticDuplicates(c) = {}
      BY <1>0, <3>1 DEF InsertsNew
    <3>4. <<entries[h].content, c>> \in Near
      <4>1. <<c, entries[h].content>> \in Near
        BY <1>7, <2>1, <3>2
      <4>2. c \in Contents /\ entries[h].content \in Contents
        BY <4>1 DEF StrongAssumption
      <4> QED BY <4>1, <4>2 DEF StrongAssumption
    <3>5. h \in SemanticDuplicates(c)
      BY <1>7, <2>1, <3>4 DEF SemanticDuplicates, Stores
    <3> QED BY <3>3, <3>5
  <2> QED BY <1>4, <1>7, <2>2, <2>3
<1>8. <<entries'[e].content, entries'[d].content>> \in Near
  <2>1. entries'[d].content \in Contents /\ entries'[e].content \in Contents
    BY <1>2 DEF StrongAssumption
  <2> QED BY <1>2, <2>1 DEF StrongAssumption
<1> QED BY <1>2, <1>3, <1>7, <1>8

LEMMA NextIInv ==
    ASSUME OneHome, SemanticDedup
    PROVE  IInv /\ [Next]_vars => IInv'
<1> SUFFICES ASSUME IInv, [Next]_vars PROVE IInv'
  OBVIOUS
<1>1. LoopInv'
  BY NextLoopInv DEF IInv
<1>2. CASE Next
  BY <1>1, <1>2, InsertsNewStep, FactsDifferStep DEF IInv
<1>3. CASE UNCHANGED vars
  <2>1. InsertsNew' /\ FactsDiffer'
    BY <1>3 DEF vars, IInv, InsertsNew, SemanticDuplicates, FactsDiffer, Stores
  <2> QED BY <1>1, <2>1 DEF IInv
<1> QED BY <1>2, <1>3

LEMMA InitIInv == Init => IInv
<1> SUFFICES ASSUME Init PROVE IInv
  OBVIOUS
<1>1. InsertsNew
  BY IdleOk DEF Init, InsertsNew
<1>2. FactsDiffer
  BY DEF Init, FactsDiffer, Stores, NoRow
<1> QED BY <1>1, <1>2, InitLoopInv DEF IInv

\* One process with the semantic check stores no two facts that are near each
\* other, however many writes of near contents overlap at their embeddings.
THEOREM OneProcessFactsDiffer ==
    ASSUME OneHome, SemanticDedup
    PROVE  Spec => []FactsDiffer
<1>1. IInv => FactsDiffer
  BY DEF IInv
<1> QED BY <1>1, InitIInv, NextIInv, PTL DEF Spec

\* With one process a merge consolidates promoted, active entries.
THEOREM OneProcessSummaryCovers ==
    ASSUME OneHome
    PROVE  Spec => SummaryCoversPromoted
<1>1. LoopInv /\ [Next]_vars =>
         [\A r \in Requests :
             InsertSummary(r) =>
                \A e \in op[r].done : entries[e].promoted /\ entries[e].status = "active"]_vars
  <2>1. ASSUME LoopInv, NEW r \in Requests, op[r].pc = "merge"
        PROVE  \A e \in op[r].done : entries[e].promoted /\ entries[e].status = "active"
    BY <2>1 DEF LoopInv, TypeOK, WellPlaced, AtMerge, TargetsHold
  <2> QED BY <2>1 DEF InsertSummary
<1> QED BY <1>1, InitLoopInv, NextLoopInv, PTL DEF Spec, SummaryCoversPromoted

----------------------------------------------------------------------------
(* One process that checks for semantic duplicates implements the promise. *)

LEMMA StorePromised ==
    ASSUME IInv, NEW r \in Requests, StoreRow(r)
    PROVE  \E e \in Entries : Promise!Store(e)
<1> DEFINE row == Head(op[r].rows)
<1>1. PICK e : /\ e \in IF row.id = None THEN Fresh ELSE {row.id}
               /\ ~Exists(e)
               /\ entries' = [entries EXCEPT ![e] = Stored(row)]
  BY DEF StoreRow, Insert
<1>2. TypeOK /\ InsertsNew /\ op[r].pc = "insert"
  BY DEF IInv, LoopInv, StoreRow
<1>3. row \in InputRow
  BY <1>2, SlotTyped DEF AtRow
<1>4. e \in Entries
  BY <1>1, <1>3 DEF Fresh, InputRow
<1>5. Promise!Novel(row.content)
  BY <1>2 DEF InsertsNew, SemanticDuplicates, Promise!Novel, Promise!Active
<1>6. /\ row.content \in Contents /\ row.status \in {"active", "invalidated"}
      /\ row.type \in {"fact", "invalidated"} /\ row.owner \in Agents \cup {None}
      /\ row.promoted \in BOOLEAN
  BY <1>3 DEF InputRow
<1>7. Promise!Absent(e)
  BY <1>1 DEF Exists, Promise!Absent
<1> HIDE DEF row
<1>8. entries' = [entries EXCEPT ![e] =
                    [status |-> row.status, type |-> row.type, content |-> row.content,
                     owner |-> row.owner, promoted |-> row.promoted, vec |-> TRUE,
                     links |-> {}]]
  BY <1>1 DEF Stored
<1>9. Promise!Store(e)
  <2>1. \E status \in {"active", "invalidated"}, type \in {"fact", "invalidated"},
           owner \in Agents \cup {None}, promoted \in BOOLEAN :
           entries' = [entries EXCEPT ![e] =
                         [status |-> status, type |-> type, content |-> row.content,
                          owner |-> owner, promoted |-> promoted, vec |-> TRUE,
                          links |-> {}]]
    <3> USE <1>6
    <3> WITNESS row.status \in {"active", "invalidated"},
                row.type \in {"fact", "invalidated"},
                row.owner \in Agents \cup {None}, row.promoted \in BOOLEAN
    <3> QED BY <1>8
  <2> QED BY <1>5, <1>6, <1>7, <2>1 DEF Promise!Store
<1> QED BY <1>4, <1>9

LEMMA TargetPromised ==
    ASSUME IInv, NEW r \in Requests, WriteTarget(r)
    PROVE  \E e \in Entries : Promise!Invalidate(e) \/ Promise!Promote(e)
<1> DEFINE t == Target(op[r])
<1>1. TypeOK /\ FreshCopies /\ op[r].pc = "write"
  BY DEF IInv, LoopInv, WriteTarget
<1>2. op[r] \in Op /\ WellPlaced(op[r]) /\ t \in Entries
  BY <1>1, SlotTyped DEF AtTarget
<1>3. /\ op[r].copy = entries[t] /\ op[r].copy.status # "absent"
      /\ op[r].kind = "promote" => op[r].copy.status = "active"
      /\ op[r].kind \in {"invalidate", "promote"}
  BY <1>1, <1>2 DEF FreshCopies, WellPlaced, AtTarget
<1>4. CASE op[r].kind = "invalidate"
  <2>1. entries' = [entries EXCEPT ![t] = [entries[t] EXCEPT !.status = "invalidated"]]
    BY <1>3, <1>4 DEF WriteTarget, Insert
  <2>2. Promise!Invalidate(t)
    BY <1>3, <2>1 DEF Promise!Invalidate, Promise!Absent
  <2> QED BY <1>2, <2>2
<1>5. CASE op[r].kind = "promote"
  <2>1. entries' = [entries EXCEPT ![t] = [entries[t] EXCEPT !.promoted = TRUE]]
    BY <1>3, <1>5 DEF WriteTarget, Insert
  <2>2. Promise!Promote(t)
    BY <1>3, <1>5, <2>1 DEF Promise!Promote, Promise!Active
  <2> QED BY <1>2, <2>2
<1> QED BY <1>3, <1>4, <1>5

LEMMA MarkerPromised ==
    ASSUME IInv, NEW r \in Requests, InsertMarker(r)
    PROVE  entries' = entries \/ \E m, e \in Entries : Promise!Mark(m, e)
<1> DEFINE t == Target(op[r])
           Row0(text, owner) == [NoRow EXCEPT !.status = "active", !.type = "invalidated",
                                              !.content = text, !.owner = owner,
                                              !.promoted = TRUE, !.links = {t}]
<1>1. TypeOK /\ TargetsHold /\ op[r].pc = "marker"
  BY DEF IInv, LoopInv, InsertMarker
<1>2. op[r] \in Op /\ WellPlaced(op[r]) /\ t \in Entries /\ op[r].kind = "invalidate"
  BY <1>1, SlotTyped DEF AtTarget, WellPlaced
<1>3. /\ op[r].text # None /\ entries[t].status = "invalidated"
      /\ entries[t].owner = op[r].copy.owner
  BY <1>1, <1>2 DEF TargetsHold
<1>4. CASE op[r].text = Blank
  BY <1>4 DEF InsertMarker, InsertInternal, AcceptsInternal
<1>5. CASE op[r].text # Blank
  <2>1. PICK m \in Fresh :
          entries' = [entries EXCEPT ![m] = Row0(op[r].text, op[r].copy.owner)]
    BY <1>5 DEF InsertMarker, InsertInternal, AcceptsInternal, Insert
  <2>2. op[r].text \in Contents
    BY <1>2, <1>3, <1>5 DEF Op
  <2>3. entries' = [entries EXCEPT ![m] = Row0(op[r].text, entries[t].owner)]
    BY <1>3, <2>1
  <2>4. m \in Entries /\ Promise!Absent(m)
    BY <2>1 DEF Fresh, Exists, Promise!Absent
  <2>5. Promise!Mark(m, t)
    BY <1>3, <2>2, <2>3, <2>4 DEF Promise!Mark, Promise!Empty, NoRow
  <2> QED BY <1>2, <2>4, <2>5
<1> QED BY <1>4, <1>5

LEMMA SummaryPromised ==
    ASSUME IInv, NEW r \in Requests, InsertSummary(r)
    PROVE  entries' = entries \/ \E m \in Entries : Promise!Summarise(m)
<1>1. TypeOK /\ TargetsHold /\ op[r].pc = "merge"
  BY DEF IInv, LoopInv, InsertSummary
<1>2. /\ op[r] \in Op /\ op[r].kind = "promote" /\ op[r].done # {} /\ op[r].text # None
      /\ op[r].done \subseteq Entries
  BY <1>1, SlotTyped DEF WellPlaced, AtMerge, Op
<1>3. /\ op[r].done \in SUBSET {e \in Entries : Promise!Active(e)}
      /\ \A e \in op[r].done : entries[e].promoted
  BY <1>1, <1>2 DEF TargetsHold, Promise!Active
<1>4. CASE op[r].text = Blank
  BY <1>4 DEF InsertSummary, InsertInternal, AcceptsInternal
<1>5. CASE op[r].text # Blank
  <2>1. PICK m \in Fresh :
          entries' = [entries EXCEPT ![m] =
                        [NoRow EXCEPT !.status = "active", !.content = op[r].text,
                                      !.promoted = TRUE, !.links = op[r].done]]
    BY <1>5 DEF InsertSummary, InsertInternal, AcceptsInternal, Insert
  <2>2. op[r].text \in Contents
    BY <1>2, <1>5 DEF Op
  <2>3. m \in Entries /\ Promise!Absent(m)
    BY <2>1 DEF Fresh, Exists, Promise!Absent
  <2>4. Promise!Summarise(m)
    BY <1>2, <1>3, <2>1, <2>2, <2>3 DEF Promise!Summarise, Promise!Empty, NoRow
  <2> QED BY <2>3, <2>4
<1> QED BY <1>4, <1>5

LEMMA StepPromised ==
    ASSUME IInv, [Next]_vars
    PROVE  [Promise!Next]_entries
<1>1. ASSUME NEW r \in Requests, RequestStep(r), entries' # entries
      PROVE  Promise!Next
  <2>1. StoreRow(r) \/ WriteTarget(r) \/ InsertMarker(r) \/ InsertSummary(r)
    BY <1>1 DEF RequestStep, WriteStep, GovernanceStep, BeginWrite, BeginGovernance, CheckRow,
                RejectRow, CheckDuplicates, RejectEmbedding, StoreRowFails, AuditWrite,
                ReadTarget, AuditInternal, AuditTarget, AuditMerge
  <2> QED BY <1>1, <2>1, StorePromised, TargetPromised, MarkerPromised, SummaryPromised
          DEF Promise!Next
<1>2. ASSUME NEW p \in Procs, Restart(p) PROVE entries' = entries
  BY <1>2 DEF Restart
<1>3. CASE UNCHANGED vars
  BY <1>3 DEF vars
<1> QED BY <1>1, <1>2, <1>3 DEF Next, RequestStep

\* With one process and the semantic check, everything add, import, invalidate
\* and promote do to the entries over their awaits, copies and crashes is a
\* behaviour of GovernedMemory.
THEOREM OneProcessImplements ==
    ASSUME OneHome, SemanticDedup
    PROVE  Spec => ImplementsPromise
<1>1. Init => Promise!Init
  BY DEF Init, NoRow, Promise!Init, Promise!Empty
<1> QED BY <1>1, InitIInv, NextIInv, StepPromised, PTL
        DEF Spec, ImplementsPromise, Promise!Spec
----------------------------------------------------------------------------
(* Any processes: what an invalidation leaves behind. *)

\* Everything a row is but its status and its tier stays.
SameLinks(e) == /\ Exists(e)'
                /\ entries'[e].type = entries[e].type /\ entries'[e].links = entries[e].links

LEMMA LinksStay ==
    ASSUME CoreInv, CopiesKeepLinks, NEW r \in Requests, RequestStep(r),
           NEW e \in Entries, Exists(e)
    PROVE  SameLinks(e)
<1>1. CASE WriteTarget(r)
  <2> DEFINE t == Target(op[r])
             row == IF op[r].kind = "invalidate"
                    THEN [op[r].copy EXCEPT !.status = "invalidated"]
                    ELSE [op[r].copy EXCEPT !.promoted = TRUE]
  <2>1. op[r] \in Op /\ WellPlaced(op[r]) /\ op[r].pc = "write" /\ t \in Entries
    BY <1>1, SlotTyped DEF WriteTarget, CoreInv, AtTarget
  <2>2. op[r].copy \in Row /\ op[r].copy.status # "absent"
        /\ op[r].copy.type = entries[t].type /\ op[r].copy.links = entries[t].links
    BY <2>1 DEF CopiesKeepLinks, WellPlaced, Op
  <2>3. row.status # "absent" /\ row.type = op[r].copy.type /\ row.links = op[r].copy.links
    BY <2>2 DEF Row
  <2>4. entries' = [entries EXCEPT ![t] = row]
    BY <1>1 DEF WriteTarget, Insert
  <2> HIDE DEF row
  <2>5. entries'[e] = IF e = t THEN row ELSE entries[e]
    BY <2>1, <2>4 DEF CoreInv, TypeOK
  <2> QED BY <2>2, <2>3, <2>5 DEF SameLinks, Exists
<1>2. CASE (WriteStep(r) \/ GovernanceStep(r)) /\ ~WriteTarget(r)
  BY <1>2, StepFollows DEF SameLinks, Exists
<1>3. CASE BeginWrite(r) \/ BeginGovernance(r)
  BY <1>3 DEF BeginWrite, BeginGovernance, SameLinks, Exists
<1> QED BY <1>1, <1>2, <1>3 DEF RequestStep

LEMMA AuditStays ==
    ASSUME CoreInv, NEW r \in Requests, RequestStep(r), NEW e \in Entries
    PROVE  audited[e] \subseteq audited'[e]
<1>1. \/ audited' = audited
      \/ \E a, d : audited' = [audited EXCEPT ![d] = @ \cup {a}]
  BY DEF RequestStep, WriteStep, GovernanceStep, BeginWrite, BeginGovernance, CheckRow,
         RejectRow, CheckDuplicates, RejectEmbedding, StoreRow, StoreRowFails, AuditWrite,
         ReadTarget, WriteTarget, InsertMarker, AuditInternal, AuditTarget, InsertSummary,
         AuditMerge
<1>2. audited \in [Entries -> SUBSET AuditActions]
  BY DEF CoreInv, TypeOK
<1> QED BY <1>1, <1>2

\* What is marked or traced stays so.
LEMMA TracesStay ==
    ASSUME CoreInv, CopiesKeepLinks, NEW r \in Requests, RequestStep(r), NEW e \in Entries
    PROVE  (Marked(e) => Marked(e)') /\ (Traced(e) => Traced(e)')
<1>1. ASSUME Marked(e) PROVE Marked(e)'
  <2>1. PICK m \in Entries : Exists(m) /\ entries[m].type = "invalidated"
                                       /\ e \in entries[m].links
    BY <1>1 DEF Marked
  <2>2. SameLinks(m)
    BY <2>1, LinksStay
  <2> QED BY <2>1, <2>2 DEF Marked, SameLinks
<1>2. audited[e] \subseteq audited'[e]
  BY AuditStays
<1> QED BY <1>1, <1>2 DEF Traced

LEMMA CopiesKeepLinksStep ==
    ASSUME CoreInv, CopiesKeepLinks, NEW r \in Requests, RequestStep(r)
    PROVE  CopiesKeepLinks'
<1>0. CoreInv'
  BY NextCore DEF Next, RequestStep
<1> DEFINE Keeps(o) == o.pc = "write" =>
                          LET row == entries[Target(o)] IN
                          /\ row.status # "absent"
                          /\ o.copy.type = row.type /\ o.copy.links = row.links
                          /\ o.kind = "promote" => o.copy.status = "active"
<1>1. ASSUME NEW q \in Requests, q # r PROVE Keeps(op[q])'
  <2>1. op'[q] = op[q]
    BY <1>1, RequestMoves
  <2>2. CASE op[q].pc # "write"
    BY <2>1, <2>2
  <2>3. CASE op[q].pc = "write"
    <3>1. Target(op[q]) \in Entries /\ Keeps(op[q])
      BY <2>3, SlotTyped DEF CopiesKeepLinks, CoreInv, AtTarget
    <3>2. Exists(Target(op[q]))
      BY <2>3, <3>1 DEF Exists
    <3>3. SameLinks(Target(op[q]))
      BY <3>1, <3>2, LinksStay
    <3> QED BY <2>1, <2>3, <3>1, <3>3 DEF SameLinks, Exists
  <2> QED BY <2>2, <2>3
<1>2. Keeps(op[r])'
  <2>1. CASE ReadTarget(r)
    <3>1. FreshSlot(op[r])'
      BY <2>1, ReadsFresh
    <3>2. op'[r].pc = "write" => op'[r].copy.status # "absent"
      BY <1>0 DEF CoreInv, TypeOK, WellPlaced
    <3> QED BY <3>1, <3>2 DEF FreshSlot
  <2>2. CASE CheckDuplicates(r)
    <3>1. op[r] \in Op /\ WellPlaced(op[r]) /\ op[r].pc \in AtRow
      BY <2>2, SlotTyped DEF CheckDuplicates, CoreInv, AtRow
    <3>2. op'[r] \in {AfterRow(op[r]), [op[r] EXCEPT !.pc = "insert"]}
      BY <2>2 DEF CheckDuplicates, CoreInv, TypeOK
    <3>3. AfterRow(op[r]).pc # "write" /\ [op[r] EXCEPT !.pc = "insert"].pc = "insert"
      BY <3>1, AfterRowOk DEF OnItsWay, Op
    <3> QED BY <3>2, <3>3
  <2>3. CASE ~ReadTarget(r) /\ ~CheckDuplicates(r)
    BY <2>3, HoldsNothing
  <2> QED BY <2>1, <2>2, <2>3
<1> QED BY <1>1, <1>2 DEF CopiesKeepLinks

\* The rows a write has still to write are rows of its file.
LEMMA RowsFollow ==
    ASSUME CoreInv, NEW r \in Requests, WriteStep(r) \/ GovernanceStep(r)
    PROVE  \/ op'[r].rows = <<>> \/ op'[r].rows = op[r].rows
           \/ op[r].rows # <<>> /\ op'[r].rows = Tail(op[r].rows)
<1>0. op[r] \in Op /\ WellPlaced(op[r]) /\ op \in [Requests -> Op] /\ Idle.rows = <<>>
  BY SlotTyped DEF CoreInv, TypeOK, Idle
<1>1. op[r].pc \in AtRow => op[r].rows # <<>>
  BY <1>0 DEF WellPlaced
<1>2. \/ AfterRow(op[r]) = Idle
      \/ AfterRow(op[r]).rows = Tail(op[r].rows)
  BY <1>0 DEF AfterRow, Op
<1>3. AfterTarget(op[r]) = Idle \/ AfterTarget(op[r]).rows = op[r].rows
  <2> DEFINE clean == [op[r] EXCEPT !.copy = NoRow, !.entry = None]
  <2>1. DOMAIN clean = DOMAIN op[r] /\ clean.rows = op[r].rows
    BY <1>0 DEF Op
  <2>2. \/ AfterTarget(op[r]) = Idle
        \/ AfterTarget(op[r]) = [clean EXCEPT !.pc = "read", !.n = @ + 1]
        \/ AfterTarget(op[r]) = [clean EXCEPT !.pc = "merge"]
    BY DEF AfterTarget
  <2> HIDE DEF clean
  <2>3. /\ [clean EXCEPT !.pc = "read", !.n = @ + 1].rows = clean.rows
        /\ [clean EXCEPT !.pc = "merge"].rows = clean.rows
    OBVIOUS
  <2> QED BY <2>1, <2>2, <2>3
<1>4. CASE CheckRow(r) \/ RejectRow(r) \/ CheckDuplicates(r) \/ RejectEmbedding(r)
           \/ StoreRowFails(r) \/ AuditWrite(r)
  <2>1. /\ op'[r] \in {Idle, AfterRow(op[r]), [op[r] EXCEPT !.pc = "embed"],
                       [op[r] EXCEPT !.pc = "insert"]}
        /\ op[r].pc \in AtRow
    BY <1>0, <1>4 DEF CheckRow, RejectRow, CheckDuplicates, RejectEmbedding, StoreRowFails,
                      AuditWrite, AtRow
  <2>2. /\ [op[r] EXCEPT !.pc = "embed"].rows = op[r].rows
        /\ [op[r] EXCEPT !.pc = "insert"].rows = op[r].rows
    BY <1>0 DEF Op
  <2> QED BY <1>0, <1>1, <1>2, <2>1, <2>2
<1>5. CASE AuditTarget(r) \/ AuditMerge(r)
  BY <1>0, <1>3, <1>5 DEF AuditTarget, AuditMerge
<1>6. CASE ReadTarget(r)
  <2>1. op'[r] \in {AfterTarget(op[r]),
                    [op[r] EXCEPT !.pc = "write", !.copy = entries[Target(op[r])]]}
    BY <1>0, <1>6 DEF ReadTarget
  <2>2. [op[r] EXCEPT !.pc = "write", !.copy = entries[Target(op[r])]].rows = op[r].rows
    BY <1>0 DEF Op
  <2> QED BY <1>0, <1>3, <2>1, <2>2
<1>7. CASE StoreRow(r) \/ WriteTarget(r) \/ AuditInternal(r) \/ InsertMarker(r)
           \/ InsertSummary(r)
  BY <1>0, <1>7 DEF StoreRow, WriteTarget, AuditInternal, InsertMarker, InsertSummary,
                    InsertInternal, Op
<1> QED BY <1>4, <1>5, <1>6, <1>7 DEF WriteStep, GovernanceStep

LEMMA RowsAsFiledStep ==
    ASSUME CoreInv, RowsAsFiled, NEW r \in Requests, RequestStep(r)
    PROVE  RowsAsFiled'
<1> DEFINE Filed1(rows) == \A i \in DOMAIN rows :
                              rows[i].status = "invalidated" => rows[i].id \in BroughtIn
<1>1. ASSUME NEW q \in Requests, q # r PROVE Filed1(op'[q].rows)
  BY <1>1, RequestMoves DEF RowsAsFiled
<1>2. Filed1(op'[r].rows)
  <2>0. op[r].rows \in Seq(InputRow) /\ op \in [Requests -> Op]
    BY DEF CoreInv, TypeOK, Op
  <2>1. CASE WriteStep(r) \/ GovernanceStep(r)
    <3>1. Filed1(<<>>) /\ Filed1(op[r].rows)
      BY DEF RowsAsFiled
    <3>2. ASSUME op[r].rows # <<>> PROVE Filed1(Tail(op[r].rows))
      BY <2>0, <3>1, <3>2
    <3> HIDE DEF Filed1
    <3> QED BY <2>1, <3>1, <3>2, RowsFollow
  <2>2. CASE BeginGovernance(r)
    <3>1. op'[r].rows = <<>>
      BY <2>0, <2>2 DEF BeginGovernance, Idle
    <3> QED BY <3>1
  <2>3. CASE BeginWrite(r)
    <3>1. PICK rows \in Files \cup NewRows :
            op' = [op EXCEPT ![r] = [Idle EXCEPT !.pc = "row", !.kind = "write",
                                                 !.rows = rows]]
      BY <2>3 DEF BeginWrite
    <3>2. op'[r].rows = rows
      BY <2>0, <3>1 DEF Idle
    <3>3. CASE rows \in Files
      BY <3>2, <3>3 DEF BroughtIn, FileRows
    <3>4. CASE rows \in NewRows
      <4>1. PICK c, w : rows = <<[id |-> None, type |-> "fact", status |-> "active",
                                  content |-> c, owner |-> w, promoted |-> FALSE]>>
        BY <3>4 DEF NewRows
      <4> QED BY <3>2, <4>1
    <3> QED BY <3>1, <3>3, <3>4
  <2> QED BY <2>1, <2>2, <2>3 DEF RequestStep
<1> QED BY <1>1, <1>2 DEF RowsAsFiled

\* A target of an invalidation is traced, or it is the one at hand.
TraceSlot(o) ==
    o.kind = "invalidate" =>
        /\ o.text # Blank
        /\ \A e \in o.done :
              \/ Traced(e)
              \/ e = Target(o) /\ o.pc = "marker"
              \/ e = Target(o) /\ o.pc \in {"auditMarker", "auditTarget"} /\ Marked(e)

LEMMA MarkerMarks ==
    ASSUME CoreInv, NEW r \in Requests, InsertMarker(r), op[r].text # Blank
    PROVE  /\ Marked(Target(op[r]))'
           /\ op'[r].pc = "auditMarker" /\ op'[r].kind = op[r].kind
           /\ op'[r].done = op[r].done /\ op'[r].text = op[r].text
           /\ Target(op'[r]) = Target(op[r])
<1> DEFINE row == [NoRow EXCEPT !.status = "active", !.type = "invalidated",
                                !.content = op[r].text, !.owner = op[r].copy.owner,
                                !.promoted = TRUE, !.links = {Target(op[r])}]
<1>1. PICK m \in Fresh : /\ entries' = [entries EXCEPT ![m] = row]
                         /\ op' = [op EXCEPT ![r].pc = "auditMarker", ![r].entry = m]
  BY DEF InsertMarker, InsertInternal, AcceptsInternal, Insert
<1>2. row.status = "active" /\ row.type = "invalidated" /\ Target(op[r]) \in row.links
  BY DEF NoRow
<1> HIDE DEF row
<1>3. m \in Entries /\ entries'[m] = row
  BY <1>1 DEF Fresh, CoreInv, TypeOK
<1>4. Marked(Target(op[r]))'
  <2>1. \A t : entries'[m].status # "absent" /\ entries'[m].type = "invalidated"
               /\ t \in entries'[m].links => \E x \in Entries :
                     entries'[x].status # "absent" /\ entries'[x].type = "invalidated"
                     /\ t \in entries'[x].links
    BY <1>3
  <2>2. Target(op'[r]) = Target(op[r])
    BY <1>1 DEF CoreInv, TypeOK, Op, Target
  <2> QED BY <1>2, <1>3, <2>1, <2>2 DEF Marked, Exists
<1> QED BY <1>1, <1>4 DEF CoreInv, TypeOK, Op, Target

LEMMA TraceSlotStep ==
    ASSUME WellFormedCalls, CoreInv, CopiesKeepLinks, TracedSoFar,
           NEW r \in Requests, RequestStep(r)
    PROVE  TraceSlot(op[r])'
<1>0. /\ op[r] \in Op /\ WellPlaced(op[r]) /\ op \in [Requests -> Op] /\ TraceSlot(op[r])
      /\ op[r].done \subseteq Entries
  BY SlotTyped DEF CoreInv, TypeOK, TracedSoFar, TraceSlot, Op
<1>1. \A e \in Entries : (Marked(e) => Marked(e)') /\ (Traced(e) => Traced(e)')
  BY TracesStay
\* Where nothing is at hand, all that is done is traced and stays so.
<1>2. ASSUME op[r].pc \notin {"marker", "auditMarker", "auditTarget"}, Follows(op'[r], op[r])
      PROVE  TraceSlot(op[r])'
  BY <1>0, <1>1, <1>2, IdleOk DEF TraceSlot, Follows
<1>3. CASE BeginWrite(r)
  <2>1. PICK rows : op' = [op EXCEPT ![r] = [Idle EXCEPT !.pc = "row", !.kind = "write",
                                                         !.rows = rows]]
    BY <1>3 DEF BeginWrite
  <2>2. op'[r].kind = "write"
    BY <1>0, <2>1 DEF Idle
  <2> QED BY <2>2 DEF TraceSlot
<1>4. CASE BeginGovernance(r)
  <2>1. PICK kind \in {"invalidate", "promote"}, targets \in TargetLists, text \in Texts :
          op' = [op EXCEPT ![r] = [Idle EXCEPT !.pc = "read", !.kind = kind,
                                               !.targets = targets, !.text = text]]
    BY <1>4 DEF BeginGovernance
  <2>2. op'[r].done = {} /\ op'[r].text = text
    BY <1>0, <2>1 DEF Idle
  <2> QED BY <2>1, <2>2 DEF TraceSlot, WellFormedCalls
<1>5. CASE WriteStep(r) \/ ReadTarget(r) \/ InsertSummary(r) \/ AuditMerge(r)
  <2>1. op[r].pc \notin {"marker", "auditMarker", "auditTarget"} /\ ~WriteTarget(r)
    BY <1>5 DEF WriteStep, CheckRow, RejectRow, CheckDuplicates, RejectEmbedding, StoreRow,
                StoreRowFails, AuditWrite, ReadTarget, InsertSummary, AuditMerge, WriteTarget
  <2> QED BY <1>2, <1>5, <2>1, StepFollows DEF GovernanceStep
<1>6. CASE WriteTarget(r)
  <2> DEFINE t == Target(op[r])
             pc == IF op[r].kind = "invalidate" THEN "marker" ELSE "auditTarget"
             w == [op[r] EXCEPT !.pc = pc, !.done = @ \cup {t}]
  <2>1. op'[r] = w /\ op[r].pc = "write"
    BY <1>0, <1>6 DEF WriteTarget
  <2>2. /\ w.pc = pc /\ w.kind = op[r].kind /\ w.text = op[r].text
        /\ w.targets = op[r].targets /\ w.n = op[r].n /\ w.done = op[r].done \cup {t}
    BY <1>0 DEF Op
  <2>3. Target(w) = t
    BY <2>2 DEF Target
  <2> HIDE DEF w, t
  <2> QED BY <1>0, <1>1, <2>1, <2>2, <2>3 DEF TraceSlot
<1>7. CASE InsertMarker(r)
  <2>1. op[r].kind = "invalidate" /\ op[r].pc = "marker"
    BY <1>0, <1>7 DEF InsertMarker, WellPlaced
  <2>2. op[r].text # Blank
    BY <1>0, <2>1 DEF TraceSlot
  <2> QED BY <1>0, <1>1, <1>7, <2>1, <2>2, MarkerMarks DEF TraceSlot
<1>8. CASE AuditInternal(r)
  <2>1. CASE op[r].pc = "auditMarker"
    <3> DEFINE w == [op[r] EXCEPT !.pc = "auditTarget"]
    <3>1. op'[r] = w
      BY <1>0, <1>8, <2>1 DEF AuditInternal
    <3>2. /\ w.pc = "auditTarget" /\ w.kind = op[r].kind /\ w.text = op[r].text
          /\ w.targets = op[r].targets /\ w.n = op[r].n /\ w.done = op[r].done
      BY <1>0 DEF Op
    <3>3. Target(w) = Target(op[r])
      BY <3>2 DEF Target
    <3> HIDE DEF w
    <3> QED BY <1>0, <1>1, <2>1, <3>1, <3>2, <3>3 DEF TraceSlot
  <2>2. CASE op[r].pc = "auditSummary"
    <3>1. ~WriteTarget(r)
      BY <2>2 DEF WriteTarget
    <3> QED BY <1>2, <1>8, <2>2, <3>1, StepFollows DEF GovernanceStep
  <2> QED BY <1>8, <2>1, <2>2 DEF AuditInternal
<1>9. CASE AuditTarget(r)
  <2>1. Follows(op'[r], op[r]) /\ op[r].pc = "auditTarget"
    <3>1. ~WriteTarget(r)
      BY <1>9 DEF AuditTarget, WriteTarget
    <3> QED BY <1>9, <3>1, StepFollows DEF GovernanceStep, AuditTarget
  <2>2. Target(op[r]) \in Entries
    BY <2>1, SlotTyped DEF CoreInv, AtTarget
  <2>3. op[r].kind \in audited'[Target(op[r])]
    BY <1>9, <2>2 DEF AuditTarget, CoreInv, TypeOK
  <2>4. op[r].kind = "invalidate" => \A e \in op[r].done : Traced(e)'
    BY <1>0, <1>1, <2>1, <2>3 DEF TraceSlot, Traced
  <2> QED BY <1>0, <2>1, <2>4, IdleOk DEF TraceSlot, Follows
<1> QED BY <1>3, <1>4, <1>5, <1>6, <1>7, <1>8, <1>9 DEF RequestStep, GovernanceStep

LEMMA TracedSoFarStep ==
    ASSUME WellFormedCalls, CoreInv, CopiesKeepLinks, TracedSoFar,
           NEW r \in Requests, RequestStep(r)
    PROVE  TracedSoFar'
<1>1. ASSUME NEW q \in Requests, q # r PROVE TraceSlot(op[q])'
  <2>1. op'[q] = op[q] /\ TraceSlot(op[q]) /\ op[q].done \subseteq Entries
    BY <1>1, RequestMoves DEF TracedSoFar, TraceSlot, CoreInv, TypeOK, Op
  <2>2. \A e \in Entries : (Marked(e) => Marked(e)') /\ (Traced(e) => Traced(e)')
    BY TracesStay
  <2> QED BY <2>1, <2>2 DEF TraceSlot
<1> QED BY <1>1, TraceSlotStep DEF TracedSoFar, TraceSlot

\* A request that has invalidated an entry goes on, or has left it traced.
LEMMA InvalidationEnds ==
    ASSUME WellFormedCalls, CoreInv, CopiesKeepLinks, TracedSoFar,
           NEW r \in Requests, RequestStep(r), op[r].kind = "invalidate",
           NEW e \in op[r].done
    PROVE  \/ op'[r].kind = "invalidate" /\ e \in op'[r].done
           \/ Traced(e)'
<1>0. op[r] \in Op /\ WellPlaced(op[r]) /\ op \in [Requests -> Op] /\ TraceSlot(op[r])
      /\ e \in Entries
  BY SlotTyped DEF CoreInv, TypeOK, TracedSoFar, TraceSlot, Op
<1>1. Traced(e) => Traced(e)'
  BY <1>0, TracesStay
<1>2. CASE op[r].pc \notin {"marker", "auditMarker", "auditTarget"}
  BY <1>0, <1>1, <1>2 DEF TraceSlot
<1>3. CASE op[r].pc = "marker"
  <2>1. InsertMarker(r) /\ op[r].text # Blank
    BY <1>0, <1>3 DEF RequestStep, WriteStep, GovernanceStep, BeginWrite, BeginGovernance,
          CheckRow, RejectRow, CheckDuplicates, RejectEmbedding, StoreRow, StoreRowFails,
          AuditWrite, ReadTarget, WriteTarget, AuditInternal, AuditTarget, InsertSummary,
          AuditMerge, TraceSlot
  <2> QED BY <2>1, MarkerMarks
<1>4. CASE op[r].pc = "auditMarker"
  <2>1. AuditInternal(r)
    BY <1>4 DEF RequestStep, WriteStep, GovernanceStep, BeginWrite, BeginGovernance,
          CheckRow, RejectRow, CheckDuplicates, RejectEmbedding, StoreRow, StoreRowFails,
          AuditWrite, ReadTarget, WriteTarget, InsertMarker, AuditTarget, InsertSummary,
          AuditMerge
  <2> QED BY <1>0, <1>4, <2>1 DEF AuditInternal, Op
<1>5. CASE op[r].pc = "auditTarget"
  <2>1. AuditTarget(r)
    BY <1>5 DEF RequestStep, WriteStep, GovernanceStep, BeginWrite, BeginGovernance,
          CheckRow, RejectRow, CheckDuplicates, RejectEmbedding, StoreRow, StoreRowFails,
          AuditWrite, ReadTarget, WriteTarget, InsertMarker, AuditInternal, InsertSummary,
          AuditMerge
  <2>2. Target(op[r]) \in Entries
    BY <1>5, SlotTyped DEF CoreInv, AtTarget
  <2>3. op[r].kind \in audited'[Target(op[r])]
    BY <2>1, <2>2 DEF AuditTarget, CoreInv, TypeOK
  <2>4. Marked(e) => Marked(e)'
    BY <1>0, TracesStay
  <2> QED BY <1>0, <1>1, <1>5, <2>3, <2>4 DEF TraceSlot, Traced
<1> QED BY <1>2, <1>3, <1>4, <1>5

\* Only an invalidation, or the import of such a row, makes an entry invalidated.
LEMMA BecomesInvalidated ==
    ASSUME WellFormedCalls, CoreInv, CopiesKeepLinks, RowsAsFiled,
           NEW r \in Requests, RequestStep(r), NEW e \in Entries \ BroughtIn,
           entries[e].status # "invalidated", entries'[e].status = "invalidated"
    PROVE  op'[r].kind = "invalidate" /\ e \in op'[r].done
<1>1. ~InsertMarker(r) /\ ~InsertSummary(r)
  BY InternalRows
<1>2. ~StoreRow(r)
  <2> SUFFICES ASSUME StoreRow(r) PROVE FALSE
    OBVIOUS
  <2> DEFINE row == Head(op[r].rows)
  <2>1. op[r].rows \in Seq(InputRow) /\ op[r].rows # <<>> /\ op[r].pc = "insert"
    BY SlotTyped DEF StoreRow, CoreInv, Op, WellPlaced, AtRow
  <2>2. row.status = "invalidated" => row.id \in BroughtIn
    <3>1. 1 \in DOMAIN op[r].rows /\ row = op[r].rows[1]
      BY <2>1
    <3> QED BY <3>1 DEF RowsAsFiled
  <2>3. PICK d \in IF row.id = None THEN Fresh ELSE {row.id} :
          entries' = [entries EXCEPT ![d] = Stored(row)]
    BY DEF StoreRow, Insert
  <2> HIDE DEF row
  <2>4. d = e /\ row.status = "invalidated"
    BY <2>3 DEF CoreInv, TypeOK, Stored
  <2> QED BY <2>2, <2>3, <2>4 DEF WellFormedCalls
<1>3. WriteTarget(r)
  BY <1>1, <1>2
     DEF RequestStep, WriteStep, GovernanceStep, BeginWrite, BeginGovernance, CheckRow,
         RejectRow, CheckDuplicates, RejectEmbedding, StoreRowFails, AuditWrite,
         ReadTarget, AuditInternal, AuditTarget, AuditMerge
<1>4. op[r] \in Op /\ WellPlaced(op[r]) /\ op[r].pc = "write" /\ Target(op[r]) \in Entries
  BY <1>3, SlotTyped DEF WriteTarget, CoreInv, AtTarget
<1>5. entries' = [entries EXCEPT ![Target(op[r])] =
                     IF op[r].kind = "invalidate"
                     THEN [op[r].copy EXCEPT !.status = "invalidated"]
                     ELSE [op[r].copy EXCEPT !.promoted = TRUE]]
  BY <1>3 DEF WriteTarget, Insert
<1>6. e = Target(op[r])
  BY <1>4, <1>5 DEF CoreInv, TypeOK
<1>7. op[r].kind = "invalidate"
  <2> SUFFICES ASSUME op[r].kind # "invalidate" PROVE FALSE
    OBVIOUS
  <2>1. op[r].kind = "promote" /\ op[r].copy \in Row
    BY <1>4 DEF WellPlaced, AtTarget, Op
  <2>2. op[r].copy.status = "active"
    BY <1>4, <2>1 DEF CopiesKeepLinks
  <2>3. entries'[e] = [op[r].copy EXCEPT !.promoted = TRUE]
    BY <1>4, <1>5, <1>6, <2>1 DEF CoreInv, TypeOK
  <2> QED BY <2>1, <2>2, <2>3 DEF Row
<1>8. op'[r].kind = op[r].kind /\ op'[r].done = op[r].done \cup {Target(op[r])}
  BY <1>3, <1>4 DEF WriteTarget, CoreInv, TypeOK, Op
<1> QED BY <1>6, <1>7, <1>8

LEMMA InvalidatedByCallStep ==
    ASSUME WellFormedCalls, CoreInv, TraceInv, NEW r \in Requests, RequestStep(r)
    PROVE  InvalidatedByCall'
<1> USE DEF TraceInv
<1>1. restarts' = restarts
  BY DEF RequestStep, WriteStep, GovernanceStep, BeginWrite, BeginGovernance, CheckRow,
         RejectRow, CheckDuplicates, RejectEmbedding, StoreRow, StoreRowFails, AuditWrite,
         ReadTarget, WriteTarget, InsertMarker, AuditInternal, AuditTarget, InsertSummary,
         AuditMerge
<1> SUFFICES ASSUME restarts = 0, NEW e \in Entries \ BroughtIn,
                    entries'[e].status = "invalidated"
             PROVE  \/ Traced(e)'
                    \/ \E q \in Requests : op'[q].kind = "invalidate" /\ e \in op'[q].done
  BY <1>1 DEF InvalidatedByCall
<1>2. CASE entries[e].status # "invalidated"
  BY <1>2, BecomesInvalidated
<1>3. CASE entries[e].status = "invalidated"
  <2>1. CASE Traced(e)
    BY <2>1, TracesStay
  <2>2. ASSUME NEW q \in Requests, op[q].kind = "invalidate", e \in op[q].done
        PROVE  \/ Traced(e)'
               \/ op'[q].kind = "invalidate" /\ e \in op'[q].done
    BY <2>2, InvalidationEnds, RequestMoves
  <2> QED BY <1>3, <2>1, <2>2 DEF InvalidatedByCall
<1> QED BY <1>2, <1>3

LEMMA NextTraceInv ==
    ASSUME WellFormedCalls
    PROVE  CoreInv /\ TraceInv /\ [Next]_vars => TraceInv'
<1> SUFFICES ASSUME CoreInv, TraceInv, [Next]_vars PROVE TraceInv'
  OBVIOUS
<1>1. ASSUME NEW r \in Requests, RequestStep(r) PROVE TraceInv'
  BY <1>1, CopiesKeepLinksStep, RowsAsFiledStep, TracedSoFarStep, InvalidatedByCallStep
     DEF TraceInv
<1>2. ASSUME NEW p \in Procs, Restart(p) PROVE TraceInv'
  <2>1. /\ \A q \in Requests : op'[q] = Idle \/ op'[q] = op[q]
        /\ entries' = entries /\ audited' = audited /\ restarts' # 0
    BY <1>2 DEF Restart, CoreInv, TypeOK
  <2>2. Idle.rows = <<>>
    BY DEF Idle
  <2>3. CopiesKeepLinks'
    BY <2>1, IdleOk DEF TraceInv, CopiesKeepLinks, Target
  <2>4. RowsAsFiled'
    BY <2>1, <2>2 DEF TraceInv, RowsAsFiled
  <2>5. TracedSoFar'
    BY <2>1, IdleOk DEF TraceInv, TracedSoFar, Traced, Marked, Exists, Target
  <2> QED BY <2>1, <2>3, <2>4, <2>5 DEF TraceInv, InvalidatedByCall
<1>3. CASE UNCHANGED vars
  BY <1>3 DEF vars, TraceInv, CopiesKeepLinks, RowsAsFiled, TracedSoFar, InvalidatedByCall,
              Traced, Marked, Exists, Target
<1> QED BY <1>1, <1>2, <1>3 DEF Next, RequestStep

LEMMA InitTraceInv == Init => TraceInv
<1> SUFFICES ASSUME Init PROVE TraceInv
  OBVIOUS
<1>1. \A r \in Requests : op[r] = Idle
  BY DEF Init
<1>2. Idle.rows = <<>>
  BY DEF Idle
<1> QED BY <1>1, <1>2, IdleOk DEF Init, TraceInv, CopiesKeepLinks, RowsAsFiled, TracedSoFar,
           InvalidatedByCall, NoRow

\* As long as no process has died, what memory.invalidate took out is marked and
\* audited when its request is over, in any number of processes, if every call
\* gives a reason.
THEOREM InvalidationsTraced ==
    ASSUME WellFormedCalls
    PROVE  Spec => []InvalidationTraced
<1>1. TraceInv => InvalidationTraced
  BY DEF TraceInv, InvalidatedByCall, InvalidationTraced
<1> QED BY <1>1, InitCore, NextCore, InitTraceInv, NextTraceInv, PTL DEF Spec
=============================================================================
