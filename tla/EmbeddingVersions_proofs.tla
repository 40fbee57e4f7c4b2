---------------------- MODULE EmbeddingVersions_proofs ----------------------
(***************************************************************************)
(* The safety invariants of EmbeddingVersions, for any number of models,   *)
(* entries, processes and requests, any batch size and any number of       *)
(* restarts: IInv is inductive and contains them.  The action properties:  *)
(* with one process SwitchInv is inductive too.                            *)
(***************************************************************************)
EXTENDS EmbeddingVersions, FiniteSetTheorems, TLAPS

USE ConstantsAssumption

LEMMA IdleOk == Idle \in Op /\ Versioned(Idle) /\ Idle.pc = "idle"
BY DEF Idle, Op, Versioned, SyncPoints, AwaitPoints

LEMMA NoEntryOk == NoEntry \in Entry /\ \A v \in Models : NoEntry.vec[v] = None
BY DEF NoEntry, Entry, Kinds

\* Everything the invariant says about one request slot.
SlotOk(r, o) ==
    /\ o \in Op
    /\ Versioned(o)
    /\ o.pc = "register" => o.version = provider[Home[r]]
    /\ o.pc \in AwaitPoints \cup {"list", "upsert"} => o.model = o.version

\* A request that moves its slot to o keeps the slot invariants, if it held
\* the event loop or could take it.
LEMMA SlotStep ==
    ASSUME TypeOK, LoopExclusive, VersionOfProvider,
           NEW r \in Requests, NEW o, SlotOk(r, o),
           op' = [op EXCEPT ![r] = o],
           provider' = provider,
           o.pc \in SyncPoints => CanRun(r) \/ op[r].pc \in SyncPoints
    PROVE  /\ op' \in [Requests -> Op]
           /\ \A q \in Requests : Versioned(op'[q])
           /\ LoopExclusive'
           /\ VersionOfProvider'
<1>1. op' \in [Requests -> Op]
  BY DEF TypeOK, SlotOk
<1>2. \A q \in Requests : op'[q] = IF q = r THEN o ELSE op[q]
  BY DEF TypeOK
<1>3. \A q \in Requests : Versioned(op'[q])
  BY <1>2 DEF TypeOK, SlotOk
<1>4. LoopExclusive'
  BY <1>2 DEF LoopExclusive, CanRun
<1>5. VersionOfProvider'
  BY <1>2 DEF VersionOfProvider, SlotOk
<1> QED BY <1>1, <1>3, <1>4, <1>5

LEMMA UpsertedOk ==
    ASSUME TypeOK, AtMostOneActive, NEW v \in Models, NEW activate \in BOOLEAN,
           versions' = Upserted(v, activate)
    PROVE  versions' \in [Models -> RowStates] /\ AtMostOneActive'
BY DEF TypeOK, Upserted, RowStates, AtMostOneActive, Active

\* Steps that move one slot and nothing else.
LEMMA SlotOnly ==
    ASSUME IInv, NEW r \in Requests, NEW o, SlotOk(r, o),
           op' = [op EXCEPT ![r] = o],
           UNCHANGED <<versions, provider, entries, restarts>>,
           o.pc \in SyncPoints => CanRun(r) \/ op[r].pc \in SyncPoints,
           o.pc = "write" => \A e \in o.todo :
                                o.tag # None => entries[e].vec[o.tag] # None
    PROVE  IInv'
<1>1. /\ op' \in [Requests -> Op]
      /\ \A q \in Requests : Versioned(op'[q])
      /\ LoopExclusive'
      /\ VersionOfProvider'
  BY SlotStep DEF IInv
<1>2. TypeOK'
  BY <1>1 DEF IInv, TypeOK
<1>3. AtMostOneActive' /\ TaggedByProducer' /\ TagHasVector'
  BY DEF IInv, AtMostOneActive, Active, TaggedByProducer, TagHasVector
<1>4. CopiedTagHasVector'
  <2>1. \A q \in Requests : op'[q] = IF q = r THEN o ELSE op[q]
    BY DEF IInv, TypeOK
  <2> QED BY <2>1 DEF IInv, CopiedTagHasVector
<1> QED BY <1>1, <1>2, <1>3, <1>4 DEF IInv

LEMMA InitIInv == Init => IInv
<1> SUFFICES ASSUME Init PROVE IInv
  OBVIOUS
<1>1. TypeOK
  BY IdleOk, NoEntryOk DEF Init, TypeOK, RowStates
<1>2. AtMostOneActive
  BY DEF Init, AtMostOneActive, Active
<1>3. TaggedByProducer /\ TagHasVector
  BY DEF Init, TaggedByProducer, TagHasVector, NoEntry
<1>4. LoopExclusive /\ VersionOfProvider /\ CopiedTagHasVector
  BY DEF Init, LoopExclusive, VersionOfProvider, CopiedTagHasVector, Idle,
         SyncPoints, AwaitPoints
<1> QED BY <1>1, <1>2, <1>3, <1>4 DEF IInv

----------------------------------------------------------------------------
(* The steps that change only their request slot. *)

LEMMA ReadActiveSlot ==
    ASSUME TypeOK, NEW r \in Requests, NEW kind \in {"add", "search"},
           ReadActive(r, kind)
    PROVE  \E o : /\ SlotOk(r, o) /\ op' = [op EXCEPT ![r] = o]
                  /\ o.pc = "register"
<1> DEFINE o == [Idle EXCEPT !.pc = "register", !.kind = kind,
                             !.version = provider[Home[r]],
                             !.activate = NoDrift(Home[r])]
<1>1. NoDrift(Home[r]) \in BOOLEAN /\ provider[Home[r]] \in Models
  BY DEF NoDrift, TypeOK
<1>2. SlotOk(r, o)
  BY <1>1 DEF SlotOk, Op, Idle, Versioned, SyncPoints, AwaitPoints
<1>3. op' = [op EXCEPT ![r] = o] /\ o.pc = "register"
  BY DEF ReadActive, Idle
<1> QED BY <1>2, <1>3

LEMMA SlotSteps ==
    ASSUME IInv, NEW r \in Requests,
           \/ BeginWrite(r) \/ BeginSearch(r) \/ RecheckSearch(r) \/ Return(r)
           \/ BeginReembed(r) \/ NextBatch(r) \/ ReturnVectors(r)
           \/ AbortReembed(r) \/ ReadRow(r) \/ SkipInsert(r)
    PROVE  IInv'
<1> USE DEF IInv
<1>0. op[r] \in Op /\ Versioned(op[r]) /\ SlotOk(r, Idle)
  BY IdleOk DEF TypeOK, SlotOk, SyncPoints, AwaitPoints
<1>1. CASE BeginWrite(r)
  <2>1. PICK o : /\ SlotOk(r, o) /\ op' = [op EXCEPT ![r] = o]
                 /\ o.pc = "register"
    BY <1>1, ReadActiveSlot DEF BeginWrite
  <2> QED BY <1>1, <2>1, SlotOnly DEF BeginWrite
<1>2. CASE BeginSearch(r)
  <2> DEFINE o == [Idle EXCEPT !.pc = "recheck", !.kind = "search"]
  <2>1. SlotOk(r, o) /\ o.pc = "recheck"
    BY DEF SlotOk, Op, Idle, Versioned, SyncPoints, AwaitPoints
  <2> QED BY <1>2, <2>1, SlotOnly DEF BeginSearch
<1>3. CASE RecheckSearch(r)
  <2>1. PICK o : /\ SlotOk(r, o) /\ op' = [op EXCEPT ![r] = o]
                 /\ o.pc = "register"
    BY <1>3, ReadActiveSlot DEF RecheckSearch
  <2> QED BY <1>3, <2>1, SlotOnly DEF RecheckSearch, SyncPoints
<1>4. CASE Return(r) \/ AbortReembed(r) \/ SkipInsert(r)
  BY <1>0, <1>4, IdleOk, SlotOnly DEF Return, AbortReembed, SkipInsert, SyncPoints
<1>5. CASE BeginReembed(r)
  <2>1. PICK m \in Models, activate \in BOOLEAN :
          op' = [op EXCEPT ![r] = [Idle EXCEPT !.pc = "prepare", !.kind = "reembed",
                                               !.version = m, !.model = m,
                                               !.activate = activate]]
    BY <1>5 DEF BeginReembed
  <2> DEFINE o == [Idle EXCEPT !.pc = "prepare", !.kind = "reembed",
                               !.version = m, !.model = m, !.activate = activate]
  <2>2. SlotOk(r, o) /\ o.pc = "prepare"
    BY DEF SlotOk, Op, Idle, Versioned, SyncPoints, AwaitPoints
  <2> QED BY <1>5, <2>1, <2>2, SlotOnly DEF BeginReembed, SyncPoints
<1>6. CASE NextBatch(r)
  <2>1. PICK b \in Batches(op[r].version, op[r].failed) :
          op' = [op EXCEPT ![r].pc = "embed", ![r].todo = b]
    BY <1>6 DEF NextBatch
  <2>2. b \subseteq Entries
    BY DEF Batches, Missing
  <2> DEFINE o == [op[r] EXCEPT !.pc = "embed", !.todo = b]
  <2>3. op' = [op EXCEPT ![r] = o]
    BY <2>1 DEF TypeOK
  <2>4. SlotOk(r, o) /\ o.pc = "embed"
    BY <1>0, <1>6, <2>2 DEF NextBatch, SlotOk, Op, Versioned, AwaitPoints,
                             VersionOfProvider
  <2> QED BY <1>6, <2>3, <2>4, SlotOnly DEF NextBatch, SyncPoints
<1>7. CASE ReturnVectors(r)
  <2>1. PICK usable \in SUBSET op[r].todo :
          op' = [op EXCEPT ![r].pc = IF usable = {} THEN "list" ELSE "upsert",
                           ![r].todo = usable,
                           ![r].failed = @ \cup (op[r].todo \ usable)]
    BY <1>7 DEF ReturnVectors
  <2> DEFINE o == [op[r] EXCEPT !.pc = IF usable = {} THEN "list" ELSE "upsert",
                                !.todo = usable,
                                !.failed = @ \cup (op[r].todo \ usable)]
  <2>2. op' = [op EXCEPT ![r] = o]
    BY <2>1 DEF TypeOK
  <2>3. SlotOk(r, o) /\ o.pc \in {"list", "upsert"}
    BY <1>0, <1>7 DEF ReturnVectors, SlotOk, Op, Versioned, SyncPoints,
                      AwaitPoints, VersionOfProvider
  <2> QED BY <1>7, <2>2, <2>3, SlotOnly DEF ReturnVectors, SyncPoints
<1>8. CASE ReadRow(r)
  <2>1. PICK e \in Entries, kind \in {"invalidate", "promote"} :
          op' = [op EXCEPT ![r] = [Idle EXCEPT !.pc = "write", !.kind = kind,
                                               !.todo = {e},
                                               !.tag = entries[e].tag]]
    BY <1>8 DEF ReadRow
  <2> DEFINE o == [Idle EXCEPT !.pc = "write", !.kind = kind, !.todo = {e},
                               !.tag = entries[e].tag]
  <2>2. SlotOk(r, o) /\ o.pc = "write" /\ o.todo = {e} /\ o.tag = entries[e].tag
    BY DEF SlotOk, Op, Idle, Versioned, SyncPoints, AwaitPoints, TypeOK, Entry
  <2>3. \A d \in o.todo : o.tag # None => entries[d].vec[o.tag] # None
    BY <2>2 DEF TagHasVector
  <2> QED BY <1>8, <2>1, <2>2, <2>3, SlotOnly DEF ReadRow, SyncPoints
<1> QED BY <1>1, <1>2, <1>3, <1>4, <1>5, <1>6, <1>7, <1>8

----------------------------------------------------------------------------
(* The steps that change a version row, an entry or a provider. *)

\* A row that takes the place of another keeps the invariants of the table,
\* and no vector is lost.
RowOk(row) ==
    /\ row \in Entry
    /\ \A v \in Models : row.vec[v] \in {None, v}
    /\ row.tag # None => row.vec[row.tag] # None

VectorsKept == \A e \in Entries, v \in Models :
                  entries[e].vec[v] # None => entries'[e].vec[v] # None

LEMMA RowStep ==
    ASSUME TypeOK, TaggedByProducer, TagHasVector,
           NEW e \in Entries, NEW row, RowOk(row),
           \A v \in Models : entries[e].vec[v] # None => row.vec[v] # None,
           entries' = [entries EXCEPT ![e] = row]
    PROVE  /\ entries' \in [Entries -> Entry]
           /\ TaggedByProducer' /\ TagHasVector' /\ VectorsKept
<1>1. \A d \in Entries : entries'[d] = IF d = e THEN row ELSE entries[d]
  BY DEF TypeOK
<1>2. entries' \in [Entries -> Entry]
  BY DEF TypeOK, RowOk
<1>3. TaggedByProducer' /\ TagHasVector' /\ VectorsKept
  BY <1>1 DEF TaggedByProducer, TagHasVector, RowOk, VectorsKept
<1> QED BY <1>2, <1>3

LEMMA WithVectorOk ==
    ASSUME NEW row, RowOk(row), NEW v \in Models
    PROVE  /\ RowOk(WithVector(row, v, v))
           /\ \A w \in Models : row.vec[w] # None => WithVector(row, v, v).vec[w] # None
BY DEF RowOk, WithVector, Entry

\* Copies of rows stay good when their vectors stay and only r's slot moves.
LEMMA CopiesKept ==
    ASSUME TypeOK, CopiedTagHasVector, VectorsKept,
           NEW r \in Requests, NEW o, o \in Op, o.pc # "write",
           op' = [op EXCEPT ![r] = o]
    PROVE  CopiedTagHasVector'
<1>1. \A q \in Requests : op'[q] = IF q = r THEN o ELSE op[q]
  BY DEF TypeOK
<1>2. \A q \in Requests : op[q].tag \in Models \cup {None}
  BY DEF TypeOK, Op
<1> QED BY <1>1, <1>2 DEF CopiedTagHasVector, VectorsKept

\* A step that replaces one row and moves one slot.
LEMMA TableStep ==
    ASSUME IInv, NEW r \in Requests, NEW o, SlotOk(r, o), o.pc # "write",
           o.pc \in SyncPoints => CanRun(r) \/ op[r].pc \in SyncPoints,
           op' = [op EXCEPT ![r] = o],
           NEW e \in Entries, NEW row, RowOk(row),
           \A v \in Models : entries[e].vec[v] # None => row.vec[v] # None,
           entries' = [entries EXCEPT ![e] = row],
           UNCHANGED <<versions, provider, restarts>>
    PROVE  IInv'
<1> USE DEF IInv
<1>1. /\ op' \in [Requests -> Op]
      /\ \A q \in Requests : Versioned(op'[q])
      /\ LoopExclusive' /\ VersionOfProvider'
  BY SlotStep
<1>2. /\ entries' \in [Entries -> Entry]
      /\ TaggedByProducer' /\ TagHasVector' /\ VectorsKept
  BY RowStep
<1>3. TypeOK'
  BY <1>1, <1>2 DEF TypeOK
<1>4. AtMostOneActive'
  BY DEF AtMostOneActive, Active
<1>5. CopiedTagHasVector'
  BY <1>2, CopiesKept DEF SlotOk
<1> QED BY <1>1, <1>2, <1>3, <1>4, <1>5

\* A step that upserts a version row and moves one slot.
LEMMA VersionStep ==
    ASSUME IInv, NEW r \in Requests, NEW o, SlotOk(r, o), o.pc # "write",
           o.pc \in SyncPoints => CanRun(r) \/ op[r].pc \in SyncPoints,
           op' = [op EXCEPT ![r] = o],
           op[r].version \in Models,
           versions' = Upserted(op[r].version, op[r].activate),
           UNCHANGED <<provider, entries, restarts>>
    PROVE  IInv'
<1> USE DEF IInv
<1>1. /\ op' \in [Requests -> Op]
      /\ \A q \in Requests : Versioned(op'[q])
      /\ LoopExclusive' /\ VersionOfProvider'
  BY SlotStep
<1>2. op[r].activate \in BOOLEAN
  BY DEF TypeOK, Op
<1>3. versions' \in [Models -> RowStates] /\ AtMostOneActive'
  BY <1>2, UpsertedOk
<1>4. TypeOK'
  BY <1>1, <1>3 DEF TypeOK
<1>5. TaggedByProducer' /\ TagHasVector'
  BY DEF TaggedByProducer, TagHasVector
<1>6. CopiedTagHasVector'
  BY CopiesKept DEF SlotOk, VectorsKept
<1> QED BY <1>1, <1>3, <1>4, <1>5, <1>6

LEMMA DataSteps ==
    ASSUME IInv, NEW r \in Requests,
           \/ Register(r) \/ RegisterReembed(r) \/ StoreWrite(r)
           \/ UpsertVector(r) \/ WriteRow(r) \/ InsertUnembedded(r)
    PROVE  IInv'
<1> USE DEF IInv
<1>0. /\ op[r] \in Op /\ Versioned(op[r]) /\ SlotOk(r, Idle)
      /\ Idle.pc # "write" /\ Idle.pc \notin SyncPoints
  BY IdleOk DEF TypeOK, SlotOk, SyncPoints, AwaitPoints
<1>1. \A e \in Entries : RowOk(entries[e])
  BY DEF RowOk, TypeOK, TaggedByProducer, TagHasVector
<1>2. RowOk([NoEntry EXCEPT !.status = "active"])
  BY NoEntryOk DEF RowOk, Entry, NoEntry
<1>3. CASE Register(r)
  <2> DEFINE o == [op[r] EXCEPT !.pc = "embed", !.model = provider[Home[r]]]
  <2>1. op[r].version \in Models /\ op[r].version = provider[Home[r]]
    BY <1>0, <1>3 DEF Register, Versioned, VersionOfProvider
  <2>2. SlotOk(r, o) /\ o.pc = "embed"
    BY <1>0, <2>1 DEF SlotOk, Op, Versioned, AwaitPoints
  <2>3. op' = [op EXCEPT ![r] = o]
    BY <1>3 DEF Register, TypeOK
  <2> QED BY <1>3, <2>1, <2>2, <2>3, VersionStep DEF Register, SyncPoints
<1>4. CASE RegisterReembed(r)
  <2> DEFINE o == [op[r] EXCEPT !.pc = "list"]
  <2>1. op[r].version \in Models /\ op[r].model = op[r].version
    BY <1>0, <1>4 DEF RegisterReembed, Versioned, VersionOfProvider, AwaitPoints
  <2>2. SlotOk(r, o) /\ o.pc = "list"
    BY <1>0, <2>1 DEF SlotOk, Op, Versioned, SyncPoints, AwaitPoints
  <2>3. op' = [op EXCEPT ![r] = o]
    BY <1>4 DEF RegisterReembed, TypeOK
  <2> QED BY <1>4, <2>1, <2>2, <2>3, VersionStep DEF RegisterReembed
<1>5. CASE StoreWrite(r)
  <2> DEFINE new == [NoEntry EXCEPT !.status = "active"]
  <2>1. op[r].version \in Models /\ op[r].model = op[r].version
    BY <1>0, <1>5 DEF StoreWrite, Versioned, VersionOfProvider, AwaitPoints
  <2>2. PICK e \in Fresh :
          entries' = [entries EXCEPT ![e] = WithVector(new, op[r].version, op[r].version)]
    BY <1>5, <2>1 DEF StoreWrite
  <2> DEFINE row == WithVector(new, op[r].version, op[r].version)
  <2>3. RowOk(row)
    BY <1>2, <2>1, WithVectorOk
  <2>4. e \in Entries /\ \A v \in Models : entries[e].vec[v] = None
    BY NoEntryOk DEF Fresh
  <2> HIDE DEF row
  <2> QED BY <1>0, <1>5, <2>2, <2>3, <2>4, TableStep DEF StoreWrite, row
<1>6. CASE UpsertVector(r)
  <2>1. op[r].version \in Models /\ op[r].model = op[r].version
    BY <1>0, <1>6 DEF UpsertVector, Versioned, VersionOfProvider
  <2>2. PICK e \in op[r].todo :
          /\ entries' = [entries EXCEPT ![e] =
                            WithVector(entries[e], op[r].version, op[r].version)]
          /\ op' = [op EXCEPT ![r].pc = IF op[r].todo = {e} THEN "list" ELSE "upsert",
                              ![r].todo = @ \ {e}]
    BY <1>6, <2>1 DEF UpsertVector
  <2>3. e \in Entries
    BY <1>0 DEF Op
  <2> DEFINE o == [op[r] EXCEPT !.pc = IF op[r].todo = {e} THEN "list" ELSE "upsert",
                                !.todo = @ \ {e}]
             row == WithVector(entries[e], op[r].version, op[r].version)
  <2>4. RowOk(row) /\ \A v \in Models : entries[e].vec[v] # None => row.vec[v] # None
    BY <1>1, <2>1, <2>3, WithVectorOk
  <2>5. SlotOk(r, o) /\ o.pc \in {"list", "upsert"}
    BY <1>0, <2>1 DEF SlotOk, Op, Versioned, SyncPoints, AwaitPoints
  <2>6. op' = [op EXCEPT ![r] = o] /\ entries' = [entries EXCEPT ![e] = row]
    BY <2>2 DEF TypeOK
  <2>7. op[r].pc \in SyncPoints /\ UNCHANGED <<versions, provider, restarts>>
    BY <1>6 DEF UpsertVector, SyncPoints
  <2> HIDE DEF o, row
  <2> QED BY <2>3, <2>4, <2>5, <2>6, <2>7, TableStep
<1>7. CASE InsertUnembedded(r)
  <2>1. PICK e \in Fresh : entries' = [entries EXCEPT ![e] =
                       [NoEntry EXCEPT !.status = "active",
                                       !.kind = IF op[r].kind = "invalidate"
                                                THEN "marker" ELSE "summary"]]
    BY <1>7 DEF InsertUnembedded
  <2> DEFINE row == [NoEntry EXCEPT !.status = "active",
                                    !.kind = IF op[r].kind = "invalidate"
                                             THEN "marker" ELSE "summary"]
  <2>2. RowOk(row)
    BY NoEntryOk DEF RowOk, Entry, NoEntry, Kinds
  <2>3. e \in Entries /\ \A v \in Models : entries[e].vec[v] = None
    BY NoEntryOk DEF Fresh
  <2>4. entries' = [entries EXCEPT ![e] = row]
    BY <2>1
  <2> HIDE DEF row
  <2> QED BY <1>0, <1>7, <2>2, <2>3, <2>4, TableStep DEF InsertUnembedded
<1>8. CASE WriteRow(r)
  <2> DEFINE status == IF op[r].kind = "invalidate" THEN "invalidated" ELSE "active"
             o == [op[r] EXCEPT !.pc = "internal", !.todo = {}]
  <2>1. /\ entries' = [e \in Entries |->
                          IF e \in op[r].todo
                          THEN [entries[e] EXCEPT !.status = status, !.tag = op[r].tag]
                          ELSE entries[e]]
        /\ op[r].pc = "write" /\ UNCHANGED <<versions, provider, restarts>>
    BY <1>8 DEF WriteRow
  <2>2. op' = [op EXCEPT ![r] = o]
    BY <1>8 DEF WriteRow, TypeOK
  <2>3. SlotOk(r, o) /\ o.pc = "internal" /\ op[r].pc \in SyncPoints
    BY <1>0, <2>1 DEF SlotOk, Op, Versioned, SyncPoints, AwaitPoints
  <2>4. /\ op' \in [Requests -> Op]
        /\ \A q \in Requests : Versioned(op'[q])
        /\ LoopExclusive' /\ VersionOfProvider'
    BY <2>1, <2>2, <2>3, SlotStep
  <2>5. \A e \in Entries : entries'[e].vec = entries[e].vec
    BY <2>1 DEF TypeOK, Entry
  <2>6. op[r].tag \in Models \cup {None} /\ status \in {"active", "invalidated"}
    BY <1>0 DEF Op
  <2>7. entries' \in [Entries -> Entry]
    <3> HIDE DEF status
    <3>1. \A e \in Entries :
            /\ entries[e] \in Entry
            /\ [entries[e] EXCEPT !.status = status, !.tag = op[r].tag] \in Entry
      BY <2>6 DEF TypeOK, Entry
    <3> QED BY <2>1, <3>1
  <2>8. \A e \in Entries : entries'[e].tag # None
                               => entries'[e].vec[entries'[e].tag] # None
    <3> TAKE e \in Entries
    <3>1. CASE e \in op[r].todo
      <4>1. entries'[e].tag = op[r].tag
        BY <2>1, <3>1 DEF TypeOK, Entry
      <4> QED BY <2>1, <2>5, <3>1, <4>1 DEF CopiedTagHasVector
    <3>2. CASE e \notin op[r].todo
      BY <2>1, <3>2 DEF TagHasVector
    <3> QED BY <3>1, <3>2
  <2>9. TaggedByProducer' /\ TagHasVector'
    BY <2>5, <2>8 DEF TaggedByProducer, TagHasVector
  <2>10. VectorsKept
    BY <2>5 DEF VectorsKept
  <2>11. CopiedTagHasVector'
    BY <2>2, <2>3, <2>10, CopiesKept DEF SlotOk
  <2>12. TypeOK' /\ AtMostOneActive'
    BY <2>1, <2>4, <2>7 DEF TypeOK, AtMostOneActive, Active
  <2> QED BY <2>4, <2>9, <2>11, <2>12
<1> QED BY <1>3, <1>4, <1>5, <1>6, <1>7, <1>8

----------------------------------------------------------------------------
(* The steps that change the provider of a process. *)

LEMMA FinishReembedStep ==
    ASSUME IInv, NEW r \in Requests, FinishReembed(r)
    PROVE  IInv'
<1> USE DEF IInv
<1>1. /\ op[r].pc = "list" /\ op' = [op EXCEPT ![r] = Idle]
      /\ UNCHANGED <<versions, entries, restarts>>
  BY DEF FinishReembed
<1>2. op[r].version \in Models /\ op[r].model = op[r].version
  BY <1>1 DEF TypeOK, Versioned, VersionOfProvider
<1>3. /\ provider' \in [Procs -> Models]
      /\ \A p \in Procs : p # Home[r] => provider'[p] = provider[p]
  BY <1>2 DEF FinishReembed, TypeOK
<1>4. \A q \in Requests : op'[q] = IF q = r THEN Idle ELSE op[q]
  BY <1>1 DEF TypeOK
<1>5. op' \in [Requests -> Op] /\ \A q \in Requests : Versioned(op'[q])
  BY <1>1, <1>4, IdleOk DEF TypeOK
<1>6. LoopExclusive'
  BY <1>4, IdleOk DEF LoopExclusive, SyncPoints
<1>7. VersionOfProvider'
  \* A request that has chosen its version and not yet called embed holds the
  \* event loop, so it is not in the process whose provider changes.
  <2>1. ASSUME NEW q \in Requests, op'[q].pc = "register"
        PROVE  op'[q].version = provider'[Home[q]]
    <3>1. q # r /\ op'[q] = op[q]
      BY <1>4, <2>1, IdleOk
    <3>2. Home[q] # Home[r]
      BY <1>1, <2>1, <3>1 DEF LoopExclusive, SyncPoints
    <3> QED BY <1>3, <2>1, <3>1, <3>2 DEF VersionOfProvider
  <2>2. ASSUME NEW q \in Requests, op'[q].pc \in AwaitPoints \cup {"list", "upsert"}
        PROVE  op'[q].model = op'[q].version
    BY <1>4, <2>2, IdleOk DEF VersionOfProvider, AwaitPoints
  <2> QED BY <2>1, <2>2 DEF VersionOfProvider
<1>8. CopiedTagHasVector'
  BY <1>1, IdleOk, CopiesKept DEF VectorsKept
<1>9. TypeOK' /\ AtMostOneActive' /\ TaggedByProducer' /\ TagHasVector'
  BY <1>1, <1>3, <1>5 DEF TypeOK, AtMostOneActive, Active, TaggedByProducer,
                          TagHasVector
<1> QED BY <1>5, <1>6, <1>7, <1>8, <1>9

LEMMA RestartStep ==
    ASSUME IInv, NEW p \in Procs, Restart(p)
    PROVE  IInv'
<1> USE DEF IInv
<1>1. /\ provider' \in [Procs -> Models]
      /\ \A q \in Procs : q # p => provider'[q] = provider[q]
      /\ restarts' \in 0..MaxRestarts
      /\ UNCHANGED <<versions, entries>>
  BY DEF Restart, TypeOK
<1>2. \A r \in Requests : op'[r] = IF Home[r] = p THEN Idle ELSE op[r]
  BY DEF Restart
<1>3. op' \in [Requests -> Op] /\ \A q \in Requests : Versioned(op'[q])
  BY IdleOk DEF Restart, TypeOK
<1>4. LoopExclusive'
  BY <1>2, IdleOk DEF LoopExclusive, SyncPoints
<1>5. VersionOfProvider'
  BY <1>1, <1>2, IdleOk DEF VersionOfProvider, AwaitPoints
<1>6. CopiedTagHasVector'
  BY <1>1, <1>2, IdleOk DEF CopiedTagHasVector
<1>7. TypeOK' /\ AtMostOneActive' /\ TaggedByProducer' /\ TagHasVector'
  BY <1>1, <1>3 DEF TypeOK, AtMostOneActive, Active, TaggedByProducer, TagHasVector
<1> QED BY <1>3, <1>4, <1>5, <1>6, <1>7

LEMMA NextIInv == IInv /\ [Next]_vars => IInv'
<1> SUFFICES ASSUME IInv, [Next]_vars PROVE IInv'
  OBVIOUS
<1>1. ASSUME NEW r \in Requests, Begin(r) \/ RequestStep(r) \/ AbortReembed(r)
      PROVE  IInv'
  BY <1>1, SlotSteps, DataSteps, FinishReembedStep DEF Begin, RequestStep, ReembedStep
<1>2. ASSUME NEW p \in Procs, Restart(p) PROVE IInv'
  BY <1>2, RestartStep
<1>3. CASE UNCHANGED vars
  BY <1>3 DEF vars, IInv, TypeOK, AtMostOneActive, Active, TaggedByProducer,
              TagHasVector, LoopExclusive, VersionOfProvider, CopiedTagHasVector
<1> QED BY <1>1, <1>2, <1>3 DEF Next

----------------------------------------------------------------------------
(* The theorems *)

\* The inductive invariant of the embedding life cycle.
THEOREM InductiveInvariant == Spec => []IInv
<1> QED BY InitIInv, NextIInv, PTL DEF Spec

\* Every variable keeps its type, and a request that embeds knows its version.
THEOREM TypeCorrect == Spec => []TypeOK
<1>1. IInv => TypeOK
  BY DEF IInv
<1> QED BY <1>1, InductiveInvariant, PTL

\* upsert_embedding_version never leaves two active rows, whatever the
\* interleaving of the processes on the database.
THEOREM OneActiveVersion == Spec => []AtMostOneActive
<1>1. IInv => AtMostOneActive
  BY DEF IInv
<1> QED BY <1>1, InductiveInvariant, PTL

\* No vector is filed under a version other than the one of the model that
\* computed it, across awaits, provider switches, restarts and processes.
THEOREM VectorsTaggedByProducer == Spec => []TaggedByProducer
<1>1. IInv => TaggedByProducer
  BY DEF IInv
<1> QED BY <1>1, InductiveInvariant, PTL

\* A stale copy of a row written back by invalidate or promote never leaves an
\* entry that names a version without a vector.
THEOREM NamedVersionHasVector == Spec => []TagHasVector
<1>1. IInv => TagHasVector
  BY DEF IInv
<1> QED BY <1>1, InductiveInvariant, PTL

----------------------------------------------------------------------------
(* One process: what a request reads of the active version stays true while *)
(* it has the event loop, and what a reembed activates stays active.        *)

SwitchedInv == IInv /\ SwitchInv

LEMMA RequestMoves ==
    ASSUME IInv, NEW r \in Requests, Begin(r) \/ RequestStep(r) \/ AbortReembed(r)
    PROVE  /\ CanRun(r) \/ op[r].pc \in SyncPoints
           /\ \A q \in Requests \ {r} : op'[q] = op[q]
<1>1. op \in [Requests -> Op]
  BY DEF IInv, TypeOK
<1> QED BY <1>1
        DEF Begin, RequestStep, ReembedStep, AbortReembed, BeginWrite, BeginSearch,
            BeginReembed, ReadRow, ReadActive, RecheckSearch, Register, StoreWrite, Return,
            RegisterReembed, NextBatch, FinishReembed, ReturnVectors, UpsertVector, WriteRow,
            InsertUnembedded, SkipInsert, SyncPoints

LEMMA OthersWait ==
    ASSUME OneHome, IInv, NEW r \in Requests, NEW q \in Requests, q # r,
           CanRun(r) \/ op[r].pc \in SyncPoints
    PROVE  op[q].pc \notin SyncPoints
BY DEF OneHome, IInv, LoopExclusive, CanRun

\* The version a request registers with its flag is the active one afterwards,
\* and registering one without it leaves an active version alone.
LEMMA RegisterActive ==
    ASSUME SwitchedInv, NEW r \in Requests, Register(r)
    PROVE  /\ op[r].activate => Active' = {op[r].version}
           /\ Active # {} => Active' = Active
<1>1. /\ versions \in [Models -> RowStates] /\ op[r].version \in Models
      /\ op[r].pc = "register" /\ op[r].activate \in BOOLEAN
  BY DEF SwitchedInv, IInv, TypeOK, Versioned, Register, Op
<1>2. /\ op[r].version = provider[Home[r]]
      /\ op[r].activate <=> (Active \subseteq {op[r].version})
  BY <1>1 DEF SwitchedInv, SwitchInv, ReadsHold, ReadHolds, IInv, VersionOfProvider
<1>3. \A v \in Models : versions'[v] =
         IF v = op[r].version THEN (IF op[r].activate THEN "active" ELSE "inactive")
         ELSE IF op[r].activate /\ versions[v] = "active" THEN "inactive"
         ELSE versions[v]
  BY <1>1 DEF Register, Upserted
<1>4. Active' = {v \in Models : versions'[v] = "active"}
  BY DEF Active
<1>5. op[r].activate => Active' = {op[r].version}
  BY <1>1, <1>3, <1>4
<1>6. CASE op[r].activate /\ Active # {}
  BY <1>2, <1>5, <1>6
<1>7. CASE ~op[r].activate
  <2>1. op[r].version \notin Active
    BY <1>2, <1>7 DEF SwitchedInv, IInv, AtMostOneActive
  <2> QED BY <1>3, <1>4, <1>5, <1>7, <2>1 DEF Active
<1> QED BY <1>5, <1>6, <1>7

\* The versions change in two steps only.
LEMMA VersionsChange ==
    ASSUME NEW r \in Requests, Begin(r) \/ RequestStep(r) \/ AbortReembed(r),
           ~Register(r), ~RegisterReembed(r)
    PROVE  versions' = versions /\ Active' = Active
<1>1. versions' = versions
  BY DEF Begin, RequestStep, ReembedStep, AbortReembed, BeginWrite, BeginSearch,
         BeginReembed, ReadRow, RecheckSearch, StoreWrite, Return, NextBatch, FinishReembed,
         ReturnVectors, UpsertVector, WriteRow, InsertUnembedded, SkipInsert
<1> QED BY <1>1 DEF Active

LEMMA IdleHolds ==
    ASSUME NEW r, NEW own, NEW active
    PROVE  ReadHolds(Idle, own, active) /\ ActivationHolds(r, Idle, active)
BY DEF Idle, ReadHolds, ActivationHolds

\* What a request leaves in its slot.
LEMMA MoverHolds ==
    ASSUME SwitchedInv, NEW r \in Requests,
           Begin(r) \/ RequestStep(r) \/ AbortReembed(r)
    PROVE  /\ ReadHolds(op'[r], provider'[Home[r]], Active')
           /\ ActivationHolds(r, op'[r], Active')
<1> DEFINE own == provider[Home[r]]
<1>0. /\ op \in [Requests -> Op] /\ op[r] \in Op
      /\ ReadHolds(op[r], own, Active) /\ ActivationHolds(r, op[r], Active)
      /\ op[r].pc \in {"register", "list"} => op[r].version \in Models
  BY DEF SwitchedInv, SwitchInv, ReadsHold, ActivationsHold, IInv, TypeOK, Versioned
<1>1. ASSUME op'[r] = Idle
      PROVE  /\ ReadHolds(op'[r], provider'[Home[r]], Active')
             /\ ActivationHolds(r, op'[r], Active')
  BY <1>1, IdleHolds
<1>2. CASE \/ StoreWrite(r) \/ Return(r) \/ FinishReembed(r) \/ AbortReembed(r)
           \/ InsertUnembedded(r) \/ SkipInsert(r)
  <2>1. op'[r] = Idle
    BY <1>0, <1>2 DEF StoreWrite, Return, FinishReembed, AbortReembed, InsertUnembedded,
                      SkipInsert
  <2> QED BY <1>1, <2>1
<1>3. CASE BeginWrite(r) \/ RecheckSearch(r)
  <2>1. PICK kind \in {"add", "search"} :
           /\ op'[r] = [Idle EXCEPT !.pc = "register", !.kind = kind, !.version = own,
                                    !.activate = NoDrift(Home[r])]
           /\ kind = "search" => op[r].pc = "recheck"
           /\ UNCHANGED <<versions, provider>>
    BY <1>0, <1>3 DEF BeginWrite, RecheckSearch, ReadActive
  <2>2. /\ op'[r].pc = "register" /\ op'[r].kind = kind
        /\ op'[r].activate = (Active \subseteq {own})
    BY <2>1 DEF Idle, NoDrift
  <2>3. kind = "search" => Active \subseteq {own}
    BY <1>0, <2>1 DEF ReadHolds
  <2>4. Active' = Active /\ provider'[Home[r]] = own
    BY <2>1 DEF Active
  <2> HIDE DEF own
  <2> QED BY <2>2, <2>3, <2>4 DEF ReadHolds, ActivationHolds
<1>4. CASE BeginSearch(r)
  <2>1. /\ op'[r] = [Idle EXCEPT !.pc = "recheck", !.kind = "search"]
        /\ Active \subseteq {own} /\ UNCHANGED <<versions, provider>>
    BY <1>0, <1>4 DEF BeginSearch, NoDrift
  <2>2. op'[r].pc = "recheck" /\ op'[r].kind = "search"
    BY <2>1 DEF Idle
  <2>3. Active' = Active /\ provider'[Home[r]] = own
    BY <2>1 DEF Active
  <2> QED BY <2>1, <2>2, <2>3 DEF ReadHolds, ActivationHolds
<1>5. CASE BeginReembed(r)
  <2>1. PICK m \in Models, activate \in BOOLEAN :
           op'[r] = [Idle EXCEPT !.pc = "prepare", !.kind = "reembed", !.version = m,
                                 !.model = m, !.activate = activate]
    BY <1>0, <1>5 DEF BeginReembed
  <2>2. op'[r].pc = "prepare" /\ op'[r].kind = "reembed" /\ r \in Reembedders
    BY <1>5, <2>1 DEF Idle, BeginReembed
  <2> QED BY <2>2 DEF ReadHolds, ActivationHolds
<1>6. CASE ReadRow(r)
  <2>1. PICK e \in Entries \ Fresh, kind \in {"invalidate", "promote"} :
           op'[r] = [Idle EXCEPT !.pc = "write", !.kind = kind, !.todo = {e},
                                 !.tag = entries[e].tag]
    BY <1>0, <1>6 DEF ReadRow
  <2>2. op'[r].pc = "write" /\ op'[r].kind \in {"invalidate", "promote"}
    BY <2>1 DEF Idle
  <2> QED BY <2>2 DEF ReadHolds, ActivationHolds
<1>7. CASE Register(r)
  <2>1. /\ op[r].pc = "register"
        /\ op' = [op EXCEPT ![r].pc = "embed", ![r].model = provider[Home[r]]]
    BY <1>7 DEF Register
  <2>2. op'[r].pc = "embed" /\ op'[r].kind = op[r].kind
    BY <1>0, <2>1 DEF Op
  <2>3. op[r].kind \in {"add", "search"}
    BY <1>0, <2>1 DEF ReadHolds
  <2> QED BY <2>2, <2>3 DEF ReadHolds, ActivationHolds
<1>8. CASE RegisterReembed(r)
  <2>1. /\ op[r].pc = "prepare" /\ versions' = Upserted(op[r].version, op[r].activate)
        /\ op' = [op EXCEPT ![r].pc = "list"]
    BY <1>8 DEF RegisterReembed
  <2>2. /\ op'[r].pc = "list" /\ op'[r].kind = op[r].kind /\ op'[r].activate = op[r].activate
        /\ op'[r].version = op[r].version
    BY <1>0, <2>1 DEF Op
  <2>3. op[r].kind = "reembed" /\ r \in Reembedders
    BY <1>0, <2>1 DEF ReadHolds, ActivationHolds
  <2>4. op[r].version \in Models /\ versions \in [Models -> RowStates]
    BY <2>1 DEF SwitchedInv, IInv, TypeOK, Versioned, AwaitPoints
  <2>5. op[r].activate => Active' = {op[r].version}
    BY <2>1, <2>4 DEF Active, Upserted
  <2> QED BY <2>2, <2>3, <2>5 DEF ReadHolds, ActivationHolds
<1>9. CASE NextBatch(r) \/ ReturnVectors(r) \/ UpsertVector(r)
  <2>1. /\ op'[r].pc \in {"list", "embed", "upsert"} /\ op'[r].kind = op[r].kind
        /\ op'[r].activate = op[r].activate /\ op'[r].version = op[r].version
        /\ UNCHANGED <<versions, provider>>
    <3>1. CASE NextBatch(r)
      BY <1>0, <3>1 DEF NextBatch, Op
    <3>2. CASE ReturnVectors(r)
      <4>1. PICK usable \in SUBSET op[r].todo :
               op' = [op EXCEPT ![r].pc = IF usable = {} THEN "list" ELSE "upsert",
                                ![r].todo = usable,
                                ![r].failed = @ \cup (op[r].todo \ usable)]
        BY <3>2 DEF ReturnVectors
      <4>2. PICK pc \in {"list", "upsert"} :
               op' = [op EXCEPT ![r].pc = pc, ![r].todo = usable,
                                ![r].failed = @ \cup (op[r].todo \ usable)]
        BY <4>1
      <4>3. op'[r] = [op[r] EXCEPT !.pc = pc, !.todo = usable,
                                   !.failed = @ \cup (op[r].todo \ usable)]
        BY <1>0, <4>2
      <4> QED BY <1>0, <3>2, <4>3 DEF ReturnVectors, Op
    <3>3. CASE UpsertVector(r)
      BY <1>0, <3>3 DEF UpsertVector, Op
    <3> QED BY <1>9, <3>1, <3>2, <3>3
  <2>2. op[r].kind = "reembed" /\ op[r].pc \in {"list", "embed", "upsert"}
    BY <1>0, <1>9 DEF NextBatch, ReturnVectors, UpsertVector, ReadHolds
  <2>3. Active' = Active
    BY <2>1 DEF Active
  <2> QED BY <1>0, <2>1, <2>2, <2>3 DEF ReadHolds, ActivationHolds
<1>10. CASE WriteRow(r)
  <2>1. /\ op[r].pc = "write" /\ op' = [op EXCEPT ![r].pc = "internal", ![r].todo = {}]
        /\ UNCHANGED <<versions, provider>>
    BY <1>10 DEF WriteRow
  <2>2. op'[r].pc = "internal" /\ op'[r].kind = op[r].kind
    BY <1>0, <2>1 DEF Op
  <2> QED BY <1>0, <2>2 DEF ReadHolds, ActivationHolds
<1> QED BY <1>2, <1>3, <1>4, <1>5, <1>6, <1>7, <1>8, <1>9, <1>10
        DEF Begin, RequestStep, ReembedStep

\* With one process the step of a request leaves what the others wait with.
LEMMA WaiterHolds ==
    ASSUME OneHome, SwitchedInv, NEW r \in Requests,
           Begin(r) \/ RequestStep(r) \/ AbortReembed(r), NEW q \in Requests, q # r
    PROVE  /\ ReadHolds(op'[q], provider'[Home[q]], Active')
           /\ ActivationHolds(q, op'[q], Active')
<1>1. op'[q] = op[q] /\ op[q].pc \notin SyncPoints
  BY RequestMoves, OthersWait DEF SwitchedInv
<1>2. /\ ReadHolds(op[q], provider[Home[q]], Active) /\ ActivationHolds(q, op[q], Active)
      /\ ReadHolds(op[r], provider[Home[r]], Active) /\ ActivationHolds(r, op[r], Active)
  BY DEF SwitchedInv, SwitchInv, ReadsHold, ActivationsHold
<1>3. ReadHolds(op'[q], provider'[Home[q]], Active')
  BY <1>1, <1>2 DEF ReadHolds, SyncPoints
<1>4. CASE Register(r)
  BY <1>1, <1>2, <1>3, <1>4, RegisterActive DEF ActivationHolds
<1>5. CASE RegisterReembed(r)
  <2>1. op[r].kind = "reembed" /\ r \in Reembedders
    BY <1>2, <1>5 DEF RegisterReembed, ReadHolds, ActivationHolds
  <2>2. OneReembedder => op[q].kind # "reembed"
    BY <1>2, <2>1 DEF OneReembedder, ActivationHolds
  <2> QED BY <1>1, <1>2, <1>3, <2>2 DEF ActivationHolds
<1>6. CASE ~Register(r) /\ ~RegisterReembed(r)
  BY <1>1, <1>2, <1>3, <1>6, VersionsChange
<1> QED BY <1>4, <1>5, <1>6

LEMMA NextSwitchedInv ==
    ASSUME OneHome
    PROVE  SwitchedInv /\ [Next]_vars => SwitchedInv'
<1> SUFFICES ASSUME SwitchedInv, [Next]_vars PROVE SwitchInv'
  BY NextIInv DEF SwitchedInv
<1>1. SwitchInv' <=> \A q \in Requests : /\ ReadHolds(op'[q], provider'[Home[q]], Active')
                                         /\ ActivationHolds(q, op'[q], Active')
  BY DEF SwitchInv, ReadsHold, ReadHolds, ActivationsHold, ActivationHolds
<1>2. \A q \in Requests : /\ ReadHolds(op[q], provider[Home[q]], Active)
                          /\ ActivationHolds(q, op[q], Active)
  BY DEF SwitchedInv, SwitchInv, ReadsHold, ActivationsHold
<1>3. ASSUME NEW r \in Requests, Begin(r) \/ RequestStep(r) \/ AbortReembed(r) PROVE SwitchInv'
  BY <1>1, <1>3, MoverHolds, WaiterHolds
<1>4. ASSUME NEW p \in Procs, Restart(p) PROVE SwitchInv'
  <2>1. \A q \in Requests : op'[q] = IF Home[q] = p THEN Idle ELSE op[q]
    BY <1>4 DEF Restart
  <2>2. \A q \in Requests : Home[q] # p => provider'[Home[q]] = provider[Home[q]]
    BY <1>4 DEF Restart, SwitchedInv, IInv, TypeOK
  <2>3. Active' = Active
    BY <1>4 DEF Restart, Active
  <2> QED BY <1>1, <1>2, <2>1, <2>2, <2>3, IdleHolds
<1>5. CASE UNCHANGED vars
  <2>1. Active' = Active /\ op' = op /\ provider' = provider
    BY <1>5 DEF vars, Active
  <2> QED BY <1>1, <1>2, <2>1
<1> QED BY <1>3, <1>4, <1>5 DEF Next

LEMMA InitSwitchedInv == Init => SwitchedInv
<1> SUFFICES ASSUME Init PROVE SwitchedInv
  OBVIOUS
<1>1. \A r \in Requests : op[r] = Idle
  BY DEF Init
<1> QED BY <1>1, InitIInv, IdleHolds DEF SwitchedInv, SwitchInv, ReadsHold, ActivationsHold

\* In one process a search that was not refused embeds its query for the one
\* active version, although its checks and its upsert are transactions apart.
THEOREM OneProcessSearchesActive ==
    ASSUME OneHome
    PROVE  Spec => SearchUsesActiveVersion
<1>1. SwitchedInv /\ [Next]_vars =>
         [\A r \in Requests :
             (op[r].kind = "search" /\ Register(r)) => Active' = {op[r].version}]_vars
  <2> SUFFICES ASSUME SwitchedInv, NEW r \in Requests, op[r].kind = "search", Register(r)
               PROVE  Active' = {op[r].version}
    OBVIOUS
  <2>1. op[r].activate
    BY DEF SwitchedInv, SwitchInv, ReadsHold, ReadHolds, Register
  <2> QED BY <2>1, RegisterActive
<1> QED BY <1>1, InitSwitchedInv, NextSwitchedInv, PTL DEF Spec, SearchUsesActiveVersion

\* In one process a write never moves the active version, however reembeds,
\* restarts with other models and other writes go on around its await.
THEOREM OneProcessWritesKeep ==
    ASSUME OneHome
    PROVE  Spec => WritesKeepActiveVersion
<1>1. SwitchedInv /\ [Next]_vars =>
         [\A r \in Requests :
             (op[r].kind = "add" /\ Register(r) /\ Active # {}) => Active' = Active]_vars
  BY RegisterActive
<1> QED BY <1>1, InitSwitchedInv, NextSwitchedInv, PTL DEF Spec, WritesKeepActiveVersion

\* In one process, if one client calls memory.reembed, what it activates before
\* its first batch is active when it switches the provider: the mismatch ends.
THEOREM OneProcessReembedResolves ==
    ASSUME OneHome, OneReembedder
    PROVE  Spec => ReembedResolvesMismatch
<1>1. SwitchedInv /\ [Next]_vars =>
         [\A r \in Requests :
             (/\ FinishReembed(r) /\ op[r].activate
              /\ \A q \in Requests \ {r} : op[q].kind # "reembed")
                 => Active' = {provider'[Home[r]]}]_vars
  <2> SUFFICES ASSUME SwitchedInv, NEW r \in Requests, FinishReembed(r), op[r].activate
               PROVE  Active' = {provider'[Home[r]]}
    OBVIOUS
  <2>1. op[r].pc = "list" /\ op[r].kind = "reembed"
    BY DEF FinishReembed, SwitchedInv, SwitchInv, ReadsHold, ReadHolds
  <2>2. Active = {op[r].version} /\ Active' = Active
    BY <2>1 DEF SwitchedInv, SwitchInv, ActivationsHold, ActivationHolds, FinishReembed, Active
  <2>3. op[r].model = op[r].version
    BY <2>1 DEF SwitchedInv, IInv, VersionOfProvider
  <2>4. provider'[Home[r]] = op[r].model
    BY DEF FinishReembed, SwitchedInv, IInv, TypeOK
  <2> QED BY <2>2, <2>3, <2>4
<1> QED BY <1>1, InitSwitchedInv, NextSwitchedInv, PTL DEF Spec, ReembedResolvesMismatch

----------------------------------------------------------------------------
(* The batches of a reembed. *)

\* A query that leaves nothing to embed has returned every missing entry: the
\* failed ones are fewer than its limit.
LEMMA EmptyBatch ==
    ASSUME IsFiniteSet(Entries), NEW v \in Models, NEW failed \in SUBSET Entries,
           {} \in Batches(v, failed)
    PROVE  Missing(v) \subseteq failed
<1> DEFINE missing == Missing(v)
           limit == Smaller(FetchLimit(failed), Cardinality(missing))
<1>1. PICK c \in SUBSET missing :
         /\ Cardinality(c) = limit
         /\ Cardinality({}) = Smaller(BatchSize, Cardinality(c \ failed))
  BY DEF Batches
<1>2. /\ IsFiniteSet(missing) /\ IsFiniteSet(failed) /\ IsFiniteSet(c)
      /\ IsFiniteSet(c \ failed)
  <2>1. missing \in SUBSET Entries /\ c \in SUBSET Entries /\ c \ failed \in SUBSET Entries
    BY DEF Missing
  <2> QED BY <2>1, FS_Subset
<1>3. /\ Cardinality(missing) \in Nat /\ Cardinality(failed) \in Nat
      /\ Cardinality(c \ failed) \in Nat
  BY <1>2, FS_CardinalityType
<1>4. c \ failed = {}
  <2>1. Cardinality({}) = 0
    BY FS_EmptySet
  <2>2. Cardinality(c \ failed) = 0
    BY <1>1, <1>3, <2>1 DEF Smaller
  <2> QED BY <1>2, <2>2, FS_EmptySet
<1>5. Cardinality(c) <= Cardinality(failed)
  BY <1>2, <1>4, FS_Subset
<1>6. Cardinality(c) = Cardinality(missing)
  BY <1>1, <1>3, <1>5 DEF Smaller, FetchLimit
<1>7. c = missing
  BY <1>2, <1>6, FS_Subset
<1> QED BY <1>4, <1>7

\* When a reembed finishes, the entries still without a vector are the ones it
\* tried and could not embed, in any number of processes and for any batch size.
THEOREM ReembedsMissNothing ==
    ASSUME IsFiniteSet(Entries)
    PROVE  Spec => ReembedLeavesOnlyFailures
<1>1. IInv /\ [Next]_vars =>
         [\A r \in Requests :
             FinishReembed(r) => Missing(op[r].version) \subseteq op[r].failed]_vars
  <2> SUFFICES ASSUME IInv, NEW r \in Requests, FinishReembed(r)
               PROVE  Missing(op[r].version) \subseteq op[r].failed
    OBVIOUS
  <2>1. op[r].version \in Models /\ op[r].failed \in SUBSET Entries
    BY DEF IInv, TypeOK, Versioned, FinishReembed, Op
  <2> QED BY <2>1, EmptyBatch DEF FinishReembed
<1> QED BY <1>1, InductiveInvariant, InitIInv, NextIInv, PTL DEF Spec, ReembedLeavesOnlyFailures
\* Of a finite set there are subsets of every size up to its own.
LEMMA SubsetOfSize ==
    ASSUME NEW S, IsFiniteSet(S), NEW n \in Nat, n <= Cardinality(S)
    PROVE  \E T \in SUBSET S : Cardinality(T) = n
<1>1. PICK f \in [1..Cardinality(S) -> S] : /\ \A x \in S : \E k \in 1..Cardinality(S) : f[k] = x
                                            /\ \A k, l \in 1..Cardinality(S) : f[k] = f[l] => k = l
  BY FS_CardinalityType DEF ExistsBijection, Bijection, Injection, Surjection, IsInjective
<1> DEFINE T == {f[k] : k \in 1..n}
           g == [k \in 1..n |-> f[k]]
<1>2. Cardinality(S) \in Nat /\ 1..n \subseteq 1..Cardinality(S)
  BY FS_CardinalityType
<1>3. g \in Bijection(1..n, T)
  BY <1>1, <1>2 DEF Bijection, Injection, Surjection, IsInjective
<1>4. Cardinality(T) = n
  BY <1>3, FS_CountingElements DEF ExistsBijection
<1>5. T \in SUBSET S
  BY <1>1, <1>2
<1> QED BY <1>4, <1>5

\* Between two batches a reembed can go on or end, whatever is missing and has
\* failed, and another batch has only entries that it has not tried in vain.
THEOREM ReembedsFindBatches ==
    ASSUME IsFiniteSet(Entries), NEW v \in Models, NEW failed \in SUBSET Entries
    PROVE  /\ Batches(v, failed) # {}
           /\ \A b \in Batches(v, failed) : b \subseteq Missing(v) \ failed
<1> DEFINE missing == Missing(v)
<1>1. IsFiniteSet(missing) /\ IsFiniteSet(failed)
  <2>1. missing \subseteq Entries
    BY DEF Missing
  <2> QED BY <2>1, FS_Subset
<1> HIDE DEF missing
<1>2. Cardinality(missing) \in Nat /\ Cardinality(failed) \in Nat
  BY <1>1, FS_CardinalityType
<1>3. FetchLimit(failed) \in Nat
  BY <1>2 DEF FetchLimit
<1>4. /\ Smaller(FetchLimit(failed), Cardinality(missing)) \in Nat
      /\ Smaller(FetchLimit(failed), Cardinality(missing)) <= Cardinality(missing)
  BY <1>2, <1>3 DEF Smaller
<1>5. PICK c \in SUBSET missing : Cardinality(c) = Smaller(FetchLimit(failed), Cardinality(missing))
  BY <1>1, <1>4, SubsetOfSize
<1>6. IsFiniteSet(c \ failed)
  BY <1>1, FS_Subset
<1>7. Cardinality(c \ failed) \in Nat
  BY <1>6, FS_CardinalityType
<1>8. /\ Smaller(BatchSize, Cardinality(c \ failed)) \in Nat
      /\ Smaller(BatchSize, Cardinality(c \ failed)) <= Cardinality(c \ failed)
  BY <1>7 DEF Smaller
<1>9. PICK b \in SUBSET (c \ failed) : Cardinality(b) = Smaller(BatchSize, Cardinality(c \ failed))
  BY <1>6, <1>8, SubsetOfSize
<1> DEFINE Rest(d) == {x \in SUBSET (d \ failed) : Cardinality(x) = Smaller(BatchSize, Cardinality(d \ failed))}
           fetched == {d \in SUBSET missing : Cardinality(d) = Smaller(FetchLimit(failed), Cardinality(missing))}
<1>10. Batches(v, failed) = UNION {Rest(d) : d \in fetched}
  BY DEF Batches, missing
<1>11. b \in Rest(c) /\ c \in fetched
  BY <1>5, <1>9
<1>12. \A d \in fetched : \A x \in Rest(d) : x \subseteq missing \ failed
  OBVIOUS
<1> HIDE DEF Rest, fetched
<1> QED BY <1>10, <1>11, <1>12 DEF missing

\* A vector that is stored stays.
LEMMA VectorsStay ==
    ASSUME IInv, [Next]_vars
    PROVE  VectorsKept
<1>1. entries \in [Entries -> Entry]
  BY DEF IInv, TypeOK
<1>2. \A e \in Entries : entries[e] = NoEntry => \A v \in Models : entries[e].vec[v] = None
  BY NoEntryOk
<1>3. \A e \in Entries : \A row :
         /\ entries' = [entries EXCEPT ![e] = row]
         /\ \A v \in Models : entries[e].vec[v] # None => row.vec[v] # None
         => VectorsKept
  BY <1>1 DEF VectorsKept
<1>4. ASSUME entries' = entries
      PROVE  VectorsKept
  BY <1>4 DEF VectorsKept
<1>5. ASSUME NEW r \in Requests, StoreWrite(r) \/ InsertUnembedded(r)
      PROVE  VectorsKept
  <2>1. \E e \in Fresh : \E row : entries' = [entries EXCEPT ![e] = row]
    BY <1>5 DEF StoreWrite, InsertUnembedded
  <2>2. PICK e \in Entries : /\ entries[e] = NoEntry
                             /\ \E row : entries' = [entries EXCEPT ![e] = row]
    BY <2>1 DEF Fresh
  <2>3. PICK row : entries' = [entries EXCEPT ![e] = row]
    BY <2>2
  <2>4. \A v \in Models : entries[e].vec[v] = None
    BY <1>2, <2>2
  <2> QED BY <1>3, <2>2, <2>3, <2>4
<1>6. ASSUME NEW r \in Requests, UpsertVector(r)
      PROVE  VectorsKept
  <2>1. op[r] \in Op /\ op[r].pc = "upsert"
    BY <1>6 DEF IInv, TypeOK, UpsertVector
  <2>2. op[r].version \in Models /\ op[r].model = op[r].version
    BY <1>6, <2>1 DEF IInv, TypeOK, Versioned, VersionOfProvider
  <2>3. PICK e \in op[r].todo : entries' = [entries EXCEPT ![e] = WithVector(@, op[r].version, op[r].model)]
    BY <1>6 DEF UpsertVector
  <2>4. e \in Entries /\ entries[e] \in Entry
    BY <1>1, <2>1, <2>3 DEF Op
  <2> DEFINE row == WithVector(entries[e], op[r].version, op[r].model)
  <2>5. \A v \in Models : entries[e].vec[v] # None => row.vec[v] # None
    BY <2>2, <2>4 DEF WithVector, Entry
  <2>6. entries' = [entries EXCEPT ![e] = row]
    BY <1>1, <2>3, <2>4
  <2> HIDE DEF row
  <2>7. \A d \in Entries : entries'[d] = IF d = e THEN row ELSE entries[d]
    BY <1>1, <2>6
  <2> QED BY <2>5, <2>7 DEF VectorsKept
<1>7. ASSUME NEW r \in Requests, WriteRow(r)
      PROVE  VectorsKept
  BY <1>1, <1>7 DEF WriteRow, VectorsKept, Entry
<1>8. CASE UNCHANGED vars
  BY <1>4, <1>8 DEF vars
<1>9. ASSUME NEW r \in Requests, Begin(r) \/ RequestStep(r) \/ AbortReembed(r)
      PROVE  VectorsKept
  <2>1. \/ entries' = entries
        \/ StoreWrite(r) \/ InsertUnembedded(r) \/ UpsertVector(r) \/ WriteRow(r)
    BY <1>9 DEF Begin, RequestStep, ReembedStep, AbortReembed, BeginWrite, BeginSearch,
                BeginReembed, ReadRow, RecheckSearch, Register, Return, RegisterReembed,
                NextBatch, FinishReembed, ReturnVectors, SkipInsert
  <2> QED BY <1>4, <1>5, <1>6, <1>7, <2>1
<1>10. ASSUME NEW p \in Procs, Restart(p)
       PROVE  VectorsKept
  BY <1>4, <1>10 DEF Restart
<1> QED BY <1>8, <1>9, <1>10 DEF Next

LEMMA InitBatches == Init => BatchesHold
BY DEF Init, Idle, BatchesHold, BatchHolds, Stage

\* What a step of a reembed does to its slot.
LEMMA ReembedMoves ==
    ASSUME IInv, NEW r \in Requests, ReembedStep(r)
    PROVE  \/ op'[r] = Idle
           \/ /\ op'[r].kind = op[r].kind /\ op'[r].version = op[r].version
              /\ \/ /\ op[r].pc = "prepare" /\ op'[r].pc = "list"
                    /\ op'[r].todo = op[r].todo /\ op'[r].failed = op[r].failed
                 \/ /\ op[r].pc = "list" /\ op'[r].pc = "embed" /\ op'[r].failed = op[r].failed
                    /\ op'[r].todo \in Batches(op[r].version, op[r].failed) \ {{}}
                 \/ /\ op[r].pc = "embed" /\ op[r].kind = "reembed"
                    /\ op'[r].pc = (IF op'[r].todo = {} THEN "list" ELSE "upsert")
                    /\ op'[r].todo \subseteq op[r].todo
                    /\ op'[r].failed = op[r].failed \cup (op[r].todo \ op'[r].todo)
                 \/ /\ op[r].pc = "upsert" /\ op'[r].failed = op[r].failed
                    /\ op'[r].pc = (IF op'[r].todo = {} THEN "list" ELSE "upsert")
                    /\ \E e \in op[r].todo :
                         /\ op'[r].todo = op[r].todo \ {e}
                         /\ entries' = [entries EXCEPT ![e] =
                                          WithVector(@, op[r].version, op[r].model)]
<1>1. op \in [Requests -> Op] /\ op[r] \in Op
  BY DEF IInv, TypeOK
<1>2. CASE RegisterReembed(r)
  BY <1>1, <1>2 DEF RegisterReembed, Op
<1>3. CASE NextBatch(r)
  <2>1. PICK b \in Batches(op[r].version, op[r].failed) :
           /\ b # {} /\ op[r].pc = "list"
           /\ op' = [op EXCEPT ![r].pc = "embed", ![r].todo = b]
    BY <1>3 DEF NextBatch
  <2>2. /\ op'[r].kind = op[r].kind /\ op'[r].version = op[r].version /\ op'[r].failed = op[r].failed
        /\ op'[r].pc = "embed" /\ op'[r].todo = b
    BY <1>1, <2>1 DEF Op
  <2> QED BY <2>1, <2>2
<1>4. CASE FinishReembed(r)
  BY <1>1, <1>4 DEF FinishReembed
<1>5. CASE ReturnVectors(r)
  <2>1. PICK usable \in SUBSET op[r].todo :
           /\ op[r].pc = "embed" /\ op[r].kind = "reembed"
           /\ op' = [op EXCEPT ![r].pc = IF usable = {} THEN "list" ELSE "upsert",
                               ![r].todo = usable,
                               ![r].failed = @ \cup (op[r].todo \ usable)]
    BY <1>5 DEF ReturnVectors
  <2>2. /\ op'[r].kind = op[r].kind /\ op'[r].version = op[r].version
        /\ op'[r].failed = op[r].failed \cup (op[r].todo \ usable)
        /\ op'[r].pc = (IF usable = {} THEN "list" ELSE "upsert") /\ op'[r].todo = usable
    BY <1>1, <2>1 DEF Op
  <2> QED BY <2>1, <2>2
<1>6. CASE UpsertVector(r)
  <2>1. PICK e \in op[r].todo :
           /\ op[r].pc = "upsert"
           /\ entries' = [entries EXCEPT ![e] = WithVector(@, op[r].version, op[r].model)]
           /\ op' = [op EXCEPT ![r].pc = IF op[r].todo = {e} THEN "list" ELSE "upsert",
                               ![r].todo = @ \ {e}]
    BY <1>6 DEF UpsertVector
  <2>2. /\ op'[r].kind = op[r].kind /\ op'[r].version = op[r].version /\ op'[r].failed = op[r].failed
        /\ op'[r].pc = (IF op[r].todo = {e} THEN "list" ELSE "upsert")
        /\ op'[r].todo = op[r].todo \ {e}
    BY <1>1, <2>1 DEF Op
  <2>3. op[r].todo = {e} <=> op[r].todo \ {e} = {}
    OBVIOUS
  <2> QED BY <2>1, <2>2, <2>3
<1> QED BY <1>2, <1>3, <1>4, <1>5, <1>6 DEF ReembedStep

\* What the other steps of a request leave in its slot.
LEMMA OtherMoves ==
    ASSUME IInv, BatchesHold, NEW r \in Requests, Begin(r) \/ RequestStep(r) \/ AbortReembed(r),
           ~ReembedStep(r)
    PROVE  \/ op'[r] = Idle
           \/ op'[r].kind = "reembed" /\ op'[r].pc = "prepare" /\ op[r].pc = "idle"
           \/ op'[r].kind # "reembed" /\ op'[r].pc \notin {"prepare", "list", "upsert"}
<1>1. op \in [Requests -> Op] /\ op[r] \in Op /\ BatchHolds(op[r])
  BY DEF IInv, TypeOK, BatchesHold
<1>2. CASE \/ StoreWrite(r) \/ Return(r) \/ AbortReembed(r) \/ InsertUnembedded(r) \/ SkipInsert(r)
  BY <1>1, <1>2 DEF StoreWrite, Return, AbortReembed, InsertUnembedded, SkipInsert
<1>3. CASE BeginWrite(r) \/ RecheckSearch(r)
  <2>1. PICK kind \in {"add", "search"} : ReadActive(r, kind)
    BY <1>3 DEF BeginWrite, RecheckSearch
  <2>2. op'[r].kind = kind /\ op'[r].pc = "register"
    BY <1>1, <2>1 DEF ReadActive, Idle
  <2> QED BY <2>2
<1>4. CASE BeginSearch(r)
  BY <1>1, <1>4 DEF BeginSearch, Idle
<1>5. CASE BeginReembed(r)
  BY <1>1, <1>5 DEF BeginReembed, Idle
<1>6. CASE ReadRow(r)
  <2>1. PICK e \in Entries, kind \in {"invalidate", "promote"} :
           op' = [op EXCEPT ![r] = [Idle EXCEPT !.pc = "write", !.kind = kind, !.todo = {e},
                                                !.tag = entries[e].tag]]
    BY <1>6 DEF ReadRow
  <2>2. op'[r].kind = kind /\ op'[r].pc = "write"
    BY <1>1, <2>1 DEF Idle
  <2> QED BY <2>2
<1>7. CASE Register(r) \/ WriteRow(r)
  <2>1. op[r].pc \in {"register", "write"}
    BY <1>7 DEF Register, WriteRow
  <2>2. op[r].kind # "reembed"
    BY <1>1, <2>1 DEF BatchHolds, Stage
  <2>3. Register(r) => op'[r].kind = op[r].kind /\ op'[r].pc = "embed"
    BY <1>1 DEF Register, Op
  <2>4. ASSUME WriteRow(r)
        PROVE  op'[r].kind = op[r].kind /\ op'[r].pc = "internal"
    <3>1. op' = [op EXCEPT ![r].pc = "internal", ![r].todo = {}]
      BY <2>4 DEF WriteRow
    <3>2. op'[r] = [op[r] EXCEPT !.pc = "internal", !.todo = {}]
      BY <1>1, <3>1
    <3> QED BY <1>1, <3>2 DEF Op
  <2> QED BY <1>7, <2>2, <2>3, <2>4
<1> QED BY <1>2, <1>3, <1>4, <1>5, <1>6, <1>7 DEF Begin, RequestStep

LEMMA NextBatches == IInv /\ BatchesHold /\ [Next]_vars => BatchesHold'
<1> SUFFICES ASSUME IInv, BatchesHold, [Next]_vars PROVE BatchesHold'
  OBVIOUS
<1>1. op \in [Requests -> Op] /\ \A q \in Requests : BatchHolds(op[q])
  BY DEF IInv, TypeOK, BatchesHold
<1>2. BatchHolds(Idle)
  BY DEF BatchHolds, Idle, Stage
<1>3. BatchesHold' <=> \A q \in Requests : BatchHolds(op'[q])
  BY DEF BatchesHold, BatchHolds
<1>4. ASSUME NEW r \in Requests, Begin(r) \/ RequestStep(r) \/ AbortReembed(r)
      PROVE  BatchHolds(op'[r])
  <2>1. CASE ReembedStep(r)
    <3>1. BatchHolds(op[r])
      BY <1>1
    <3> QED BY <1>2, <2>1, <3>1, ReembedMoves DEF BatchHolds, Stage
  <2>2. CASE ~ReembedStep(r)
    BY <1>2, <1>4, <2>2, OtherMoves DEF BatchHolds, Stage
  <2> QED BY <2>1, <2>2
<1>5. ASSUME NEW r \in Requests, Begin(r) \/ RequestStep(r) \/ AbortReembed(r)
      PROVE  BatchesHold'
  BY <1>1, <1>3, <1>4, <1>5, RequestMoves
<1>6. ASSUME NEW p \in Procs, Restart(p)
      PROVE  BatchesHold'
  BY <1>1, <1>2, <1>3, <1>6 DEF Restart
<1>7. CASE UNCHANGED vars
  BY <1>1, <1>3, <1>7 DEF vars
<1> QED BY <1>5, <1>6, <1>7 DEF Next

\* What a reembed has ahead of it becomes less with every vector that comes.
LEMMA AheadShrinks ==
    ASSUME IInv, BatchesHold, IsFiniteSet(Entries), [Next]_vars, NEW r \in Requests,
           op[r].kind = "reembed", op'[r].kind = "reembed"
    PROVE  /\ op[r].pc \in DOMAIN Stage /\ op'[r].pc \in DOMAIN Stage
           /\ Ahead(r)' \subseteq Ahead(r)
           /\ \/ op'[r] = op[r]
              \/ Stage[op'[r].pc] < Stage[op[r].pc]
              \/ Ahead(r)' # Ahead(r) /\ op[r].pc \in {"embed", "upsert"} /\ op'[r].pc \in {"list", "upsert"}
<1> DEFINE o == op[r]
           n == op'[r]
           Open(e) == entries[e].vec[o.version] = None
<1>1. /\ op \in [Requests -> Op] /\ o \in Op /\ BatchHolds(o) /\ Versioned(o)
      /\ o.pc \in {"list", "upsert"} \cup AwaitPoints
  BY DEF IInv, TypeOK, BatchesHold, BatchHolds, Stage, AwaitPoints
<1>2. o.version \in Models /\ o.model = o.version /\ o.todo \subseteq Entries /\ o.failed \subseteq Entries
  BY <1>1 DEF Versioned, IInv, VersionOfProvider, Op
<1>3. VectorsKept
  BY VectorsStay
<1>4. Ahead(r) = o.todo \cup {e \in Entries : Open(e) /\ e \notin o.failed}
  BY DEF Ahead
<1>5. ASSUME n.version = o.version
      PROVE  \A e \in Ahead(r)' : \/ e \in n.todo
                                  \/ e \in Entries /\ Open(e) /\ e \notin n.failed /\ entries'[e].vec[o.version] = None
  BY <1>2, <1>3, <1>5 DEF Ahead, VectorsKept
<1>6. BatchHolds(n)
  BY NextBatches DEF BatchesHold, BatchHolds
<1>7. o.pc \in DOMAIN Stage /\ n.pc \in DOMAIN Stage
  BY <1>1, <1>6 DEF BatchHolds
<1> DEFINE Goal == /\ Ahead(r)' \subseteq Ahead(r)
                   /\ \/ n = o
                      \/ Stage[n.pc] < Stage[o.pc]
                      \/ Ahead(r)' # Ahead(r) /\ o.pc \in {"embed", "upsert"} /\ n.pc \in {"list", "upsert"}
<1>8. ASSUME n = o
      PROVE  Goal
  BY <1>4, <1>5, <1>8
<1>9. ASSUME n.version = o.version, o.pc = "prepare", n.pc = "list", n.todo = o.todo, n.failed = o.failed
      PROVE  Goal
  BY <1>4, <1>5, <1>9 DEF Stage
<1>10. ASSUME n.version = o.version, o.pc = "list", n.pc = "embed", n.failed = o.failed,
              n.todo \in Batches(o.version, o.failed)
       PROVE  Goal
  <2>1. n.todo \subseteq Missing(o.version) \ o.failed
    BY <1>2, <1>10, ReembedsFindBatches
  <2>2. \A e \in n.todo : e \in Entries /\ Open(e) /\ e \notin o.failed
    BY <2>1 DEF Missing
  <2> QED BY <1>4, <1>5, <1>10, <2>2 DEF Stage
<1>11. ASSUME n.version = o.version, o.pc = "embed", n.pc = (IF n.todo = {} THEN "list" ELSE "upsert"),
              n.todo \subseteq o.todo, n.failed = o.failed \cup (o.todo \ n.todo)
       PROVE  Goal
  <2>1. Ahead(r)' \subseteq Ahead(r)
    BY <1>4, <1>5, <1>11
  <2>2. CASE n.todo = {}
    <3>1. PICK e \in o.todo : TRUE
      BY <1>1, <1>11 DEF BatchHolds
    <3>2. e \in Ahead(r) /\ e \notin Ahead(r)'
      BY <1>4, <1>5, <1>11, <2>2, <3>1
    <3> QED BY <1>11, <2>1, <2>2, <3>2
  <2>3. CASE n.todo # {}
    BY <1>11, <2>1, <2>3 DEF Stage
  <2> QED BY <2>2, <2>3
<1>12. ASSUME n.version = o.version, o.pc = "upsert", n.pc \in {"list", "upsert"}, n.failed = o.failed,
              NEW e \in o.todo, n.todo = o.todo \ {e},
              entries' = [entries EXCEPT ![e] = WithVector(@, o.version, o.model)]
       PROVE  Goal
  <2>1. Ahead(r)' \subseteq Ahead(r)
    BY <1>4, <1>5, <1>12
  <2>2. entries \in [Entries -> Entry] /\ e \in Entries /\ o.version # None
    BY <1>2, <1>12 DEF IInv, TypeOK
  <2>3. entries'[e].vec[o.version] = o.version
    BY <1>2, <1>12, <2>2 DEF WithVector, Entry
  <2>4. e \in Ahead(r) /\ e \notin Ahead(r)'
    BY <1>4, <1>5, <1>12, <2>2, <2>3
  <2> QED BY <1>12, <2>1, <2>4
<1>13. ASSUME ReembedStep(r)
       PROVE  Goal
  <2>1. n # Idle
    BY DEF Idle
  <2> HIDE DEF Goal
  <2> QED BY <1>9, <1>10, <1>11, <1>12, <1>13, <2>1, ReembedMoves
<1>14. n = o \/ ReembedStep(r)
  <2>1. ASSUME NEW q \in Requests, Begin(q) \/ RequestStep(q) \/ AbortReembed(q)
        PROVE  n = o \/ ReembedStep(r)
    <3>1. CASE q # r
      BY <2>1, <3>1, RequestMoves
    <3>2. CASE q = r
      <4>1. n # Idle /\ o.pc # "idle"
        BY <1>7 DEF Idle, Stage
      <4> QED BY <1>1, <2>1, <3>2, <4>1, OtherMoves
    <3> QED BY <3>1, <3>2
  <2>2. ASSUME NEW p \in Procs, Restart(p)
        PROVE  n = o
    BY <2>2 DEF Restart, Idle
  <2>3. UNCHANGED vars => n = o
    BY DEF vars
  <2> QED BY <2>1, <2>2, <2>3 DEF Next
<1>15. Goal
  BY <1>8, <1>13, <1>14
<1> QED BY <1>7, <1>15

\* With finitely many entries every step of a reembed leaves it less to do, and
\* nothing that others do leaves it more, in any number of processes: the loop
\* of memory.reembed has at most four steps for each entry, and three more.
THEOREM ReembedsAdvance ==
    ASSUME IsFiniteSet(Entries)
    PROVE  Spec => ReembedAdvances
<1> DEFINE Step == \A r \in Requests :
                      (op[r].kind = "reembed" /\ op'[r].kind = "reembed") =>
                         /\ Work(r)' <= Work(r)
                         /\ op'[r] # op[r] => Work(r)' < Work(r)
<1>1. IInv /\ BatchesHold /\ [Next]_vars => Step
  <2> SUFFICES ASSUME IInv, BatchesHold, [Next]_vars, NEW r \in Requests,
                      op[r].kind = "reembed", op'[r].kind = "reembed"
               PROVE  /\ Work(r)' <= Work(r)
                      /\ op'[r] # op[r] => Work(r)' < Work(r)
    OBVIOUS
  <2> DEFINE before == Ahead(r)
             after == Ahead(r)'
             s == Stage[op[r].pc]
             t == Stage[op'[r].pc]
  <2>1. /\ op[r].pc \in DOMAIN Stage /\ op'[r].pc \in DOMAIN Stage
        /\ after \subseteq before
        /\ \/ op'[r] = op[r]
           \/ t < s
           \/ after # before /\ op[r].pc \in {"embed", "upsert"} /\ op'[r].pc \in {"list", "upsert"}
    BY AheadShrinks
  <2>2. s \in 0..3 /\ t \in 0..3
    BY <2>1 DEF Stage
  <2>3. op'[r].pc \in {"list", "upsert"} => t <= 2
    BY DEF Stage
  <2>4. before \subseteq Entries
    BY DEF IInv, TypeOK, Op, Ahead
  <2>5. Work(r) = 4 * Cardinality(before) + s /\ Work(r)' = 4 * Cardinality(after) + t
    BY DEF Work
  <2> HIDE DEF before, after, s, t
  <2>6. IsFiniteSet(before) /\ IsFiniteSet(after)
    BY <2>1, <2>4, FS_Subset
  <2>7. /\ Cardinality(before) \in Nat /\ Cardinality(after) \in Nat
        /\ Cardinality(after) <= Cardinality(before)
        /\ after # before => Cardinality(after) < Cardinality(before)
    <3>1. Cardinality(before) \in Nat /\ Cardinality(after) \in Nat
      BY <2>6, FS_CardinalityType
    <3>2. Cardinality(after) <= Cardinality(before) /\ (Cardinality(before) = Cardinality(after) => before = after)
      BY <2>1, <2>6, FS_Subset
    <3> QED BY <3>1, <3>2
  <2>8. op'[r] = op[r] => t = s
    BY DEF t, s
  <2> QED BY <2>1, <2>2, <2>3, <2>5, <2>7, <2>8
<1>2. ReembedAdvances <=> [][Step]_vars
  BY DEF ReembedAdvances
<1> HIDE DEF Step
<1> QED BY <1>1, <1>2, InitIInv, NextIInv, InitBatches, NextBatches, PTL DEF Spec
=============================================================================
