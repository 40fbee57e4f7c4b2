-------------------------- MODULE FastMemory_proofs --------------------------
(***************************************************************************)
(* The safety invariants of FastMemory, for any number of entries, runs,   *)
(* processes and requests and any plans: IInv is inductive and contains    *)
(* TargetIsOwn.  AuditInv is about the events in the trails of rows and of  *)
(* their copies.  With one process, FreshCopies is inductive too, and gives *)
(* what the awaits of an apply cannot disturb; with one request at a time,  *)
(* TrailInv says what its copy and its audit records have in common.        *)
(***************************************************************************)
EXTENDS FastMemory, TLAPS

USE FastAssumption

LEMMA IdleOk == /\ Idle \in Op /\ WellPlaced(Idle) /\ Idle.pc = "idle"
                /\ Idle.dry = FALSE
<1>1. NoRow \in Row /\ NoRun \in Run
  BY DEF NoRow, Row, NoRun, Run
<1>2. <<>> \in Plans
  BY DEF Plans
<1> QED BY <1>1, <1>2 DEF Idle, Op, WellPlaced, AtSource, SyncPoints

\* Every plan a request executes is a list of decisions.
LEMMA PlansAreDecisions ==
    ASSUME NEW p \in Plans
    PROVE  p \in Seq(Decision)
<1>1. CASE p \in DirectPlans
  <2>1. PICK d \in [action : Actions \ {"review"}, sources : {<<f>> : f \in Fast},
                    resolved : ResolvedArgs] : p = <<d>>
    BY <1>1 DEF DirectPlans
  <2>2. d.sources \in Seq(Fast) \ {<<>>}
    <3>1. PICK f \in Fast : d.sources = <<f>>
      BY <2>1
    <3> QED BY <3>1
  <2>3. d \in Decision
    BY <2>1, <2>2 DEF Decision
  <2> QED BY <2>1, <2>3
<1>2. CASE p \in Payloads
  BY <1>2
<1>3. CASE p = <<>>
  BY <1>3
<1> QED BY <1>1, <1>2, <1>3 DEF Plans

\* A decision under way has sources, and they are fast entries.
LEMMA DecisionOk ==
    ASSUME NEW o \in Op, o.n \in DOMAIN o.plan
    PROVE  /\ o.plan \in Seq(Decision) /\ o.plan[o.n] \in Decision
           /\ o.n \in 1..Len(o.plan)
           /\ o.plan[o.n].sources \in Seq(Fast)
           /\ 1 \in DOMAIN o.plan[o.n].sources
<1>1. o.plan \in Seq(Decision)
  BY PlansAreDecisions DEF Op
<1>2. o.plan[o.n] \in Decision
  BY <1>1
<1>3. o.plan[o.n].sources \in Seq(Fast) /\ o.plan[o.n].sources # <<>>
  BY <1>2 DEF Decision
<1> QED BY <1>1, <1>2, <1>3

LEMMA SourceOk ==
    ASSUME NEW o \in Op, WellPlaced(o), o.pc \in AtSource
    PROVE  Source(o) \in Fast
<1>1. o.n \in DOMAIN o.plan /\ o.k \in DOMAIN o.plan[o.n].sources
  BY DEF WellPlaced
<1> QED BY <1>1, DecisionOk DEF Source

LEMMA UpdatedOp ==
    ASSUME NEW o \in Op
    PROVE  /\ \A pc \in {"idle", "embed"} \cup SyncPoints : [o EXCEPT !.pc = pc] \in Op
           /\ \A n \in Nat : [o EXCEPT !.n = n] \in Op /\ [o EXCEPT !.k = n] \in Op
BY DEF Op

\* What is done to a source is an action of the trail, or the strong entry.
LEMMA AuditedEvent ==
    ASSUME NEW o \in Op, WellPlaced(o), o.pc \in {"mark", "audit"}
    PROVE  (IF ActionOn(o) = "promote" THEN o.strong ELSE ActionOn(o)) \in Events
<1>1. o.plan[o.n] \in Decision /\ o.plan[o.n].action # "review"
  BY DecisionOk DEF WellPlaced, AtSource
<1>2. o.plan[o.n].action \in {"summarize", "discard", "promote"}
  BY <1>1 DEF Decision, Actions
<1>3. ActionOn(o) \in {"summarize", "discard", "promote"}
  BY <1>2 DEF ActionOn
<1>4. ActionOn(o) = "promote" => o.strong \in Strong
  BY DEF WellPlaced, Op
<1> QED BY <1>3, <1>4 DEF Events

\* The request after a decision or a source is well placed again, holds no
\* strong entry to record, and is at a point that reads before it writes.
OnItsWay(o) == /\ o \in Op /\ WellPlaced(o)
               /\ o.pc \in {"idle", "resolve", "finish", "call"}

LEMMA AfterDecisionOk ==
    ASSUME NEW o \in Op, o.n \in DOMAIN o.plan
    PROVE  /\ OnItsWay(AfterDecision(o))
           /\ AfterDecision(o).pc \in {"idle", "resolve", "finish"}
           /\ AfterDecision(o).dry => /\ o.dry /\ AfterDecision(o).copy = o.copy
                                     /\ AfterDecision(o).run = o.run
                                     /\ AfterDecision(o).pc # "idle"
<1>1. CASE o.run = None
  BY <1>1, IdleOk DEF AfterDecision, OnItsWay
<1>2. CASE o.run # None /\ o.n < Len(o.plan)
  <2> DEFINE w == [o EXCEPT !.pc = "resolve", !.n = @ + 1, !.k = 1]
  <2>1. AfterDecision(o) = w
    BY <1>2 DEF AfterDecision
  <2>2. o.n \in 1..Len(o.plan) /\ o.plan \in Seq(Decision)
    BY DecisionOk
  <2>3. w.n = o.n + 1 /\ w.k = 1 /\ w.plan = o.plan /\ w.pc = "resolve" /\ w.run = o.run
        /\ w.dry = o.dry /\ w.copy = o.copy
    BY DEF Op
  <2>4. w \in Op
    <3>1. o.n + 1 \in Nat /\ 1 \in Nat
      BY DEF Op
    <3>2. "resolve" \in {"idle", "embed"} \cup SyncPoints
      BY DEF SyncPoints
    <3>3. [o EXCEPT !.pc = "resolve"] \in Op
      BY <3>2, UpdatedOp
    <3>4. [[o EXCEPT !.pc = "resolve"] EXCEPT !.n = o.n + 1] \in Op
      BY <3>1, <3>3, UpdatedOp
    <3> QED BY <3>1, <3>4, UpdatedOp
  <2>5. w.n \in DOMAIN w.plan
    BY <1>2, <2>2, <2>3
  <2>6. WellPlaced(w)
    BY <1>2, <2>3, <2>5 DEF WellPlaced, AtSource
  <2> QED BY <2>1, <2>3, <2>4, <2>6 DEF OnItsWay
<1>3. CASE o.run # None /\ ~(o.n < Len(o.plan))
  <2> DEFINE w == [o EXCEPT !.pc = "finish"]
  <2>1. AfterDecision(o) = w
    BY <1>3 DEF AfterDecision
  <2>2. w \in Op /\ w.pc = "finish" /\ w.run = o.run /\ w.dry = o.dry /\ w.copy = o.copy
    BY DEF Op, SyncPoints
  <2>3. WellPlaced(w)
    BY <1>3, <2>2 DEF WellPlaced, AtSource
  <2> QED BY <2>1, <2>2, <2>3 DEF OnItsWay
<1> QED BY <1>1, <1>2, <1>3

LEMMA AfterSourceOk ==
    ASSUME NEW o \in Op, WellPlaced(o), o.pc \in AtSource
    PROVE  /\ OnItsWay(AfterSource(o))
           /\ AfterSource(o).dry => o.dry
<1> DEFINE clean == [o EXCEPT !.row = NoRow, !.strong = None]
<1>1. /\ o.n \in DOMAIN o.plan /\ o.k \in DOMAIN o.plan[o.n].sources
      /\ o.plan[o.n].action # "review"
  BY DEF WellPlaced
<1>2. NoRow \in Row
  BY DEF NoRow, Row
<1>3. clean \in Op /\ clean.n = o.n /\ clean.k = o.k /\ clean.plan = o.plan
      /\ clean.dry = o.dry
  BY <1>2 DEF Op
<1>4. CASE o.k < Len(o.plan[o.n].sources)
  <2> DEFINE w == [clean EXCEPT !.pc = "call", !.k = @ + 1]
  <2>1. AfterSource(o) = w
    BY <1>4 DEF AfterSource
  <2>2. o.plan[o.n].sources \in Seq(Fast)
    BY <1>1, DecisionOk
  <2>3. w \in Op /\ w.pc = "call" /\ w.n = o.n /\ w.plan = o.plan /\ w.k = o.k + 1
        /\ w.dry = o.dry
    <3>1. o.k + 1 \in Nat
      BY DEF Op
    <3>2. "call" \in {"idle", "embed"} \cup SyncPoints
      BY DEF SyncPoints
    <3>3. [clean EXCEPT !.pc = "call"] \in Op
      BY <1>3, <3>2, UpdatedOp
    <3>4. w \in Op
      BY <1>3, <3>1, <3>3, UpdatedOp
    <3>5. w.pc = "call" /\ w.n = o.n /\ w.plan = o.plan /\ w.k = o.k + 1 /\ w.dry = o.dry
      BY <1>3 DEF Op
    <3> QED BY <3>4, <3>5
  <2>4. w.k \in DOMAIN w.plan[w.n].sources
    BY <1>1, <1>4, <2>2, <2>3
  <2>5. WellPlaced(w)
    BY <1>1, <2>3, <2>4 DEF WellPlaced, AtSource
  <2> QED BY <2>1, <2>3, <2>5 DEF OnItsWay
<1>5. CASE ~(o.k < Len(o.plan[o.n].sources))
  <2>1. AfterSource(o) = AfterDecision(clean)
    BY <1>5 DEF AfterSource
  <2>2. clean.n \in DOMAIN clean.plan
    BY <1>1, <1>3
  <2>3. OnItsWay(AfterDecision(clean)) /\ (AfterDecision(clean).dry => clean.dry)
    BY ONLY <1>3, <2>2, AfterDecisionOk
  <2> QED BY <1>3, <2>1, <2>3
<1> QED BY <1>4, <1>5

----------------------------------------------------------------------------
(* What a step of one request has to show. *)

\* A copied row belongs to the source under way, for given strong entries.
CopyOwn(o, made) ==
    /\ (o.pc \in {"write", "embed", "mark"} /\ o.row.target # None)
          => made[o.row.target] = Source(o)
    /\ o.pc = "mark" => made[o.strong] = Source(o)

\* A request moves its slot to o, strong entries are only added.
LEMMA StepKeeps ==
    ASSUME IInv, NEW r \in Requests, NEW o \in Op, WellPlaced(o),
           op' = [op EXCEPT ![r] = o],
           o.pc \in SyncPoints => CanRun(r) \/ op[r].pc \in SyncPoints,
           fast' \in [Fast -> Row], runs' \in [Runs -> Run],
           audited' \in [Fast -> SUBSET Events],
           origin' \in [Strong -> Fast \cup {None}],
           \A s \in Strong : origin[s] # None => origin'[s] = origin[s],
           restarts' = restarts,
           TargetIsOwn', CopyOwn(o, origin')
    PROVE  IInv'
<1> USE DEF IInv
<1>1. \A q \in Requests : op'[q] = IF q = r THEN o ELSE op[q]
  BY DEF TypeOK
<1>2. TypeOK'
  BY <1>1 DEF TypeOK
<1>3. LoopExclusive'
  BY <1>1 DEF LoopExclusive, CanRun
<1>4. CopiesOwnTarget'
  <2>1. ASSUME NEW q \in Requests PROVE CopyOwn(op'[q], origin')
    <3>1. CASE q = r
      BY <1>1, <3>1
    <3>2. CASE q # r
      <4>1. op'[q] = op[q] /\ op[q] \in Op /\ WellPlaced(op[q]) /\ CopyOwn(op[q], origin)
        BY <1>1, <3>2 DEF TypeOK, CopiesOwnTarget, CopyOwn
      <4>2. op[q].pc \in AtSource => Source(op[q]) \in Fast
        BY <4>1, SourceOk
      <4>3. op[q].row.target \in Strong \cup {None} /\ op[q].strong \in Strong \cup {None}
        BY <4>1 DEF Op, Row
      <4>4. op[q].pc = "mark" => op[q].strong \in Strong
        BY <4>1, <4>3 DEF WellPlaced
      <4> QED BY <4>1, <4>2, <4>3, <4>4 DEF CopyOwn, AtSource
    <3> QED BY <3>1, <3>2
  <2> QED BY <2>1 DEF CopiesOwnTarget, CopyOwn
<1> QED BY <1>2, <1>3, <1>4

LEMMA InitIInv == Init => IInv
<1> SUFFICES ASSUME Init PROVE IInv
  OBVIOUS
<1>1. TypeOK
  BY IdleOk DEF Init, TypeOK, NoRow, Row, NoRun, Run, Events
<1>2. TargetIsOwn
  BY DEF Init, TargetIsOwn, NoRow
<1>3. LoopExclusive /\ CopiesOwnTarget
  BY IdleOk DEF Init, LoopExclusive, CopiesOwnTarget, SyncPoints
<1> QED BY <1>1, <1>2, <1>3 DEF IInv

\* Steps that leave the tables of entries alone and end at a point that holds
\* no copy of a row.
LEMMA QuietStep ==
    ASSUME IInv, NEW r \in Requests, NEW o \in Op, WellPlaced(o),
           op' = [op EXCEPT ![r] = o],
           o.pc \in SyncPoints => CanRun(r) \/ op[r].pc \in SyncPoints,
           o.pc \notin {"write", "embed", "mark"},
           UNCHANGED <<fast, origin, restarts>>,
           runs' \in [Runs -> Run], audited' \in [Fast -> SUBSET Events]
    PROVE  IInv'
<1>1. fast' \in [Fast -> Row] /\ origin' \in [Strong -> Fast \cup {None}]
  BY DEF IInv, TypeOK
<1>2. TargetIsOwn' /\ CopyOwn(o, origin')
  BY DEF IInv, TargetIsOwn, CopyOwn
<1>3. \A s \in Strong : origin[s] # None => origin'[s] = origin[s]
  OBVIOUS
<1> QED BY <1>1, <1>2, <1>3, StepKeeps

LEMMA SlotTyped ==
    ASSUME TypeOK, NEW r \in Requests
    PROVE  /\ op[r] \in Op /\ WellPlaced(op[r])
           /\ op[r].pc \in AtSource => Source(op[r]) \in Fast
BY SourceOk DEF TypeOK

----------------------------------------------------------------------------
(* One lemma per group of actions *)

LEMMA BeginSteps ==
    ASSUME IInv, NEW r \in Requests, BeginCall(r) \/ Prepare(r) \/ BeginApply(r)
    PROVE  IInv'
<1> USE DEF IInv
<1>1. CASE BeginCall(r)
  <2>1. PICK plan \in DirectPlans :
          op' = [op EXCEPT ![r] = [Idle EXCEPT !.pc = "call", !.plan = plan]]
    BY <1>1 DEF BeginCall
  <2> DEFINE o == [Idle EXCEPT !.pc = "call", !.plan = plan]
  <2>2. o \in Op /\ o.pc = "call" /\ o.plan = plan /\ o.n = 1 /\ o.k = 1
    BY IdleOk DEF Op, Plans, Idle, SyncPoints
  <2>3. /\ 1 \in DOMAIN plan /\ plan[1].action # "review"
        /\ 1 \in DOMAIN plan[1].sources
    <3>1. PICK d \in [action : Actions \ {"review"}, sources : {<<f>> : f \in Fast},
                      resolved : ResolvedArgs] : plan = <<d>>
      BY DEF DirectPlans
    <3>2. PICK f \in Fast : d.sources = <<f>>
      BY <3>1
    <3> QED BY <3>1, <3>2
  <2>4. WellPlaced(o)
    BY <2>2, <2>3 DEF WellPlaced
  <2> QED BY <1>1, <2>1, <2>2, <2>4, QuietStep DEF BeginCall, TypeOK
<1>2. CASE Prepare(r)
  <2>1. runs' \in [Runs -> Run] /\ UNCHANGED <<fast, origin, audited, op, restarts>>
    BY <1>2 DEF Prepare, TypeOK, Run
  <2> QED BY <2>1 DEF TypeOK, TargetIsOwn, LoopExclusive, CopiesOwnTarget
<1>3. CASE BeginApply(r)
  <2>1. PICK i \in Runs, plan \in Payloads, dry \in BOOLEAN :
          /\ runs' = IF runs[i].status = "absent"
                     THEN [runs EXCEPT ![i].status = "prepared"] ELSE runs
          /\ op' = [op EXCEPT ![r] = [Idle EXCEPT !.pc = "resolve", !.plan = plan,
                                                  !.dry = dry, !.run = i,
                                                  !.copy = runs'[i]]]
    BY <1>3 DEF BeginApply
  <2> DEFINE o == [Idle EXCEPT !.pc = "resolve", !.plan = plan, !.dry = dry,
                               !.run = i, !.copy = runs'[i]]
  <2>2. runs' \in [Runs -> Run]
    BY <2>1 DEF TypeOK, Run
  <2>3. o = [Idle EXCEPT !.pc = "resolve", !.plan = plan, !.dry = dry,
                         !.run = i, !.copy = runs'[i]]
    OBVIOUS
  <2> HIDE DEF o
  <2>4. /\ o.pc = "resolve" /\ o.n = 1 /\ o.k = 1 /\ o.run = i /\ o.plan = plan
        /\ o \in Op
    <3>1. runs'[i] \in Run
      BY <2>2
    <3> QED BY <2>3, <3>1 DEF Op, Plans, Idle, SyncPoints, NoRow, Row
  <2>5. 1 \in DOMAIN plan
    BY DEF Plans
  <2>6. WellPlaced(o)
    BY <2>4, <2>5 DEF WellPlaced, AtSource
  <2>7. op' = [op EXCEPT ![r] = o]
    BY <2>1, <2>3
  <2> QED BY <1>3, <2>2, <2>4, <2>6, <2>7, QuietStep DEF BeginApply, TypeOK
<1> QED BY <1>1, <1>2, <1>3

LEMMA LogFastStep ==
    ASSUME IInv, NEW r \in Requests, LogFast(r)
    PROVE  IInv'
<1> USE DEF IInv
<1>1. PICK f \in Fast, status \in LoggedStatuses, resolved \in ResolvedArgs :
         /\ ~Exists(f)
         /\ fast' = [fast EXCEPT ![f] = [NoRow EXCEPT !.status = status,
                                                      !.resolved = (resolved = TRUE)]]
         /\ op' = [op EXCEPT ![r] = [Idle EXCEPT !.pc = "logged", !.entry = f]]
  BY DEF LogFast
<1> DEFINE row == [NoRow EXCEPT !.status = status, !.resolved = (resolved = TRUE)]
           o == [Idle EXCEPT !.pc = "logged", !.entry = f]
<1>2. row \in Row /\ row.target = None
  BY DEF NoRow, Row
<1>3. fast' \in [Fast -> Row]
  BY <1>1, <1>2 DEF TypeOK
<1>4. o \in Op /\ o.pc = "logged" /\ o.entry = f
  BY IdleOk DEF Op, Idle, SyncPoints
<1>5. WellPlaced(o) /\ CopyOwn(o, origin')
  BY <1>4 DEF WellPlaced, CopyOwn, AtSource
<1>6. TargetIsOwn'
  <2>1. \A g \in Fast : fast'[g] = IF g = f THEN row ELSE fast[g]
    BY <1>1 DEF TypeOK
  <2> QED BY <1>2, <2>1 DEF TargetIsOwn, LogFast
<1>7. CanRun(r) /\ UNCHANGED <<origin, runs, audited, restarts>>
  BY DEF LogFast
<1> QED BY <1>1, <1>3, <1>4, <1>5, <1>6, <1>7, StepKeeps DEF TypeOK

LEMMA AuditSteps ==
    ASSUME IInv, NEW r \in Requests,
           AuditLog(r) \/ Audit(r) \/ AbortPromotion(r) \/ Resolve(r) \/ Finish(r)
    PROVE  IInv'
<1> USE DEF IInv
<1>0. /\ op[r] \in Op /\ WellPlaced(op[r])
      /\ op[r].pc \in AtSource => Source(op[r]) \in Fast
      /\ Idle \in Op /\ WellPlaced(Idle) /\ Idle.pc = "idle"
  BY SlotTyped, IdleOk
<1>1. CASE AuditLog(r)
  <2>1. audited' \in [Fast -> SUBSET Events]
    BY <1>1 DEF AuditLog, TypeOK, Events
  <2> QED BY <1>0, <1>1, <2>1, QuietStep DEF AuditLog, TypeOK, SyncPoints
<1>2. CASE Audit(r)
  <2>1. op[r].pc \in AtSource /\ op[r].pc \in SyncPoints
    BY <1>2 DEF Audit, AtSource, SyncPoints
  <2>2. audited' \in [Fast -> SUBSET Events]
    <3> DEFINE event == IF ActionOn(op[r]) = "promote" THEN op[r].strong
                        ELSE ActionOn(op[r])
    <3>1. audited' = [audited EXCEPT ![Source(op[r])] = @ \cup {event}]
      BY <1>2 DEF Audit
    <3>2. audited \in [Fast -> SUBSET Events]
      BY DEF TypeOK
    <3>3. event \in Events
      BY <1>0, <1>2, AuditedEvent DEF Audit
    <3> HIDE DEF event
    <3> QED BY <3>1, <3>2, <3>3
  <2>3. OnItsWay(AfterSource(op[r]))
    BY <1>0, <2>1, AfterSourceOk
  <2> DEFINE o == AfterSource(op[r])
  <2>4. op' = [op EXCEPT ![r] = o]
    BY <1>2 DEF Audit
  <2>5. o \in Op /\ WellPlaced(o) /\ o.pc \notin {"write", "embed", "mark"}
    BY <2>3 DEF OnItsWay
  <2> HIDE DEF o
  <2> QED BY <1>2, <2>1, <2>2, <2>4, <2>5, QuietStep DEF Audit, TypeOK
<1>3. CASE AbortPromotion(r)
  BY <1>0, <1>3, QuietStep DEF AbortPromotion, TypeOK, SyncPoints
<1>4. CASE Resolve(r)
  <2>1. op[r].pc = "resolve" /\ op[r].n \in DOMAIN op[r].plan /\ op[r].k = 1
    BY <1>0, <1>4 DEF Resolve, WellPlaced
  <2> DEFINE d == op[r].plan[op[r].n]
             o == IF \E k \in DOMAIN d.sources : ~Exists(d.sources[k]) THEN Idle
                  ELSE IF op[r].dry \/ d.action = "review" THEN AfterDecision(op[r])
                  ELSE [op[r] EXCEPT !.pc = "call"]
  <2>2. op' = [op EXCEPT ![r] = o]
    BY <1>4 DEF Resolve
  <2>3. o \in Op /\ WellPlaced(o) /\ o.pc \notin {"write", "embed", "mark"}
    <3>1. OnItsWay(AfterDecision(op[r]))
      BY <1>0, <2>1, AfterDecisionOk
    <3>2. CASE d.action # "review"
      <4> DEFINE w == [op[r] EXCEPT !.pc = "call"]
      <4>1. 1 \in DOMAIN d.sources
        BY <1>0, <2>1, DecisionOk
      <4>2. w \in Op
        BY <1>0, UpdatedOp DEF SyncPoints
      <4>3. w.pc = "call" /\ w.n = op[r].n /\ w.k = 1 /\ w.plan = op[r].plan
        BY <1>0, <2>1 DEF Op
      <4>4. WellPlaced(w)
        BY <2>1, <3>2, <4>1, <4>3 DEF WellPlaced
      <4> QED BY <1>0, <3>1, <4>2, <4>3, <4>4 DEF OnItsWay
    <3> QED BY <1>0, <3>1, <3>2 DEF OnItsWay
  <2> HIDE DEF o
  <2>4. op[r].pc \in SyncPoints
    BY <2>1 DEF SyncPoints
  <2> QED BY <1>4, <2>2, <2>3, <2>4, QuietStep DEF Resolve, TypeOK
<1>5. CASE Finish(r)
  <2>1. runs' \in [Runs -> Run]
    <3>1. op[r].run \in Runs /\ op[r].copy \in Run
      BY <1>0, <1>5 DEF Finish, WellPlaced, Op
    <3> QED BY <1>5, <3>1 DEF Finish, TypeOK, Run
  <2> QED BY <1>0, <1>5, <2>1, QuietStep DEF Finish, TypeOK, SyncPoints
<1> QED BY <1>1, <1>2, <1>3, <1>4, <1>5

LEMMA ReadRowStep ==
    ASSUME IInv, NEW r \in Requests, ReadRow(r)
    PROVE  IInv'
<1> USE DEF IInv
<1> DEFINE old == op[r]
           row == fast[Source(old)]
           o == IF ActionOn(old) # "promote" THEN [old EXCEPT !.pc = "write", !.row = row]
                ELSE IF AlreadyPromoted(row) THEN AfterSource(old)
                ELSE [old EXCEPT !.pc = "embed", !.row = row]
<1>1. /\ old \in Op /\ WellPlaced(old) /\ old.pc = "call"
      /\ Source(old) \in Fast /\ old.pc \in AtSource /\ old.pc \in SyncPoints
  BY SlotTyped DEF ReadRow, AtSource, SyncPoints
<1>2. row \in Row /\ (row.target # None => origin[row.target] = Source(old))
  BY <1>1 DEF TypeOK, TargetIsOwn
<1>3. op' = [op EXCEPT ![r] = o]
  BY DEF ReadRow
<1>4. o \in Op /\ WellPlaced(o) /\ CopyOwn(o, origin)
  <2>1. ASSUME NEW pc \in {"write", "embed"},
               pc = "embed" <=> ActionOn(old) = "promote"
        PROVE  LET w == [old EXCEPT !.pc = pc, !.row = row]
               IN  w \in Op /\ WellPlaced(w) /\ CopyOwn(w, origin)
    <3> DEFINE w == [old EXCEPT !.pc = pc, !.row = row]
    <3>1. w \in Op /\ w.pc = pc /\ w.row = row /\ w.n = old.n /\ w.k = old.k
          /\ w.plan = old.plan /\ w.run = old.run
      BY <1>1, <1>2 DEF Op, SyncPoints
    <3>2. Source(w) = Source(old) /\ ActionOn(w) = ActionOn(old)
      BY <3>1 DEF Source, ActionOn
    <3> HIDE DEF w
    <3>3. WellPlaced(w)
      BY <1>1, <2>1, <3>1, <3>2 DEF WellPlaced, AtSource
    <3>4. CopyOwn(w, origin)
      BY <1>2, <3>1, <3>2 DEF CopyOwn
    <3> QED BY <3>1, <3>3, <3>4 DEF w
  <2>2. OnItsWay(AfterSource(old))
    BY <1>1, AfterSourceOk
  <2>3. CASE ActionOn(old) # "promote"
    BY <2>1, <2>3
  <2>4. CASE ActionOn(old) = "promote" /\ AlreadyPromoted(row)
    BY <2>2, <2>4 DEF OnItsWay, CopyOwn
  <2>5. CASE ActionOn(old) = "promote" /\ ~AlreadyPromoted(row)
    BY <2>1, <2>5
  <2> QED BY <2>3, <2>4, <2>5
<1> HIDE DEF o, row
<1>5. UNCHANGED <<fast, origin, runs, audited, restarts>>
  BY DEF ReadRow
<1>6. TargetIsOwn'
  BY <1>5 DEF TargetIsOwn
<1> QED BY <1>1, <1>3, <1>4, <1>5, <1>6, StepKeeps DEF TypeOK

\* A row is written back with a target of its own.
LEMMA RowWritten ==
    ASSUME IInv, NEW r \in Requests, NEW row \in Row,
           op[r].pc \in {"write", "mark"},
           row.target # None => origin[row.target] = Source(op[r]),
           fast' = [fast EXCEPT ![Source(op[r])] = row],
           op' = [op EXCEPT ![r].pc = "audit"],
           op[r].pc = "write" => ActionOn(op[r]) # "promote",
           UNCHANGED <<origin, runs, audited, restarts>>
    PROVE  IInv'
<1> USE DEF IInv
<1>1. /\ op[r] \in Op /\ WellPlaced(op[r]) /\ Source(op[r]) \in Fast
      /\ op[r].pc \in SyncPoints
  BY SlotTyped DEF AtSource, SyncPoints
<1> DEFINE o == [op[r] EXCEPT !.pc = "audit"]
<1>2. op' = [op EXCEPT ![r] = o]
  OBVIOUS
<1>3. o \in Op /\ o.pc = "audit" /\ o.n = op[r].n /\ o.k = op[r].k /\ o.plan = op[r].plan
      /\ o.strong = op[r].strong
  BY <1>1, UpdatedOp DEF Op, SyncPoints
<1>4. ActionOn(o) = ActionOn(op[r])
  BY <1>3 DEF ActionOn
<1> HIDE DEF o
<1>5. WellPlaced(o) /\ CopyOwn(o, origin')
  BY <1>1, <1>3, <1>4 DEF WellPlaced, AtSource, CopyOwn
<1>6. fast' \in [Fast -> Row]
  BY <1>1 DEF TypeOK
<1>7. TargetIsOwn'
  BY <1>1 DEF TypeOK, TargetIsOwn
<1> QED BY <1>1, <1>2, <1>3, <1>5, <1>6, <1>7, StepKeeps DEF TypeOK

LEMMA WriteSteps ==
    ASSUME IInv, NEW r \in Requests, WriteRow(r) \/ MarkPromoted(r)
    PROVE  IInv'
<1> USE DEF IInv
<1>1. op[r].pc \in {"write", "mark"}
  BY DEF WriteRow, MarkPromoted
<1>2. /\ op[r] \in Op /\ WellPlaced(op[r]) /\ Source(op[r]) \in Fast
      /\ op[r].row \in Row /\ CopyOwn(op[r], origin)
  BY <1>1, SlotTyped DEF AtSource, Op, CopiesOwnTarget, CopyOwn
<1>3. ActionOn(op[r]) \in {"summarize", "discard", "promote"}
  <2>1. op[r].plan[op[r].n] \in Decision /\ op[r].plan[op[r].n].action # "review"
    BY <1>1, <1>2, DecisionOk DEF WellPlaced, AtSource
  <2>2. op[r].plan[op[r].n].action \in {"summarize", "discard", "promote"}
    BY <2>1 DEF Decision, Actions
  <2> QED BY <2>2 DEF ActionOn
<1>4. CASE WriteRow(r)
  <2> DEFINE row == [op[r].row EXCEPT
                       !.status = IF ActionOn(op[r]) = "summarize" THEN "summarized"
                                  ELSE "discarded",
                       !.resolved = ResolvedOn(op[r]),
                       !.trail = @ \cup {ActionOn(op[r])}]
  <2>1. op[r].pc = "write" /\ ActionOn(op[r]) # "promote"
    BY <1>2, <1>4 DEF WriteRow, WellPlaced
  <2>2. ResolvedOn(op[r]) \in BOOLEAN
    <3>1. op[r].plan[op[r].n].resolved \in BOOLEAN \cup {None}
      BY <1>1, <1>2, DecisionOk DEF WellPlaced, AtSource, Decision
    <3> QED BY <1>2, <3>1 DEF ResolvedOn, Row
  <2>3. row \in Row /\ row.target = op[r].row.target
    BY <1>2, <1>3, <2>1, <2>2 DEF Row, Events
  <2>4. row.target # None => origin[row.target] = Source(op[r])
    BY <1>2, <2>1, <2>3 DEF CopyOwn
  <2>5. fast' = [fast EXCEPT ![Source(op[r])] = row]
    BY <1>4 DEF WriteRow
  <2> HIDE DEF row
  <2> QED BY <1>1, <1>4, <2>1, <2>3, <2>4, <2>5, RowWritten DEF WriteRow
<1>5. CASE MarkPromoted(r)
  <2> DEFINE row == [op[r].row EXCEPT !.status = "promoted", !.target = op[r].strong,
                                      !.trail = @ \cup {op[r].strong}]
  <2>1. op[r].pc = "mark" /\ op[r].strong \in Strong
    BY <1>2, <1>5 DEF MarkPromoted, WellPlaced, Op
  <2>2. row \in Row /\ row.target = op[r].strong
    BY <1>2, <2>1 DEF Row, Events
  <2>3. row.target # None => origin[row.target] = Source(op[r])
    BY <1>2, <2>1, <2>2 DEF CopyOwn
  <2>4. fast' = [fast EXCEPT ![Source(op[r])] = row]
    BY <1>5 DEF MarkPromoted
  <2> HIDE DEF row
  <2> QED BY <1>1, <1>5, <2>1, <2>2, <2>3, <2>4, RowWritten DEF MarkPromoted
<1> QED BY <1>4, <1>5

LEMMA PersistStrongStep ==
    ASSUME IInv, NEW r \in Requests, PersistStrong(r)
    PROVE  IInv'
<1> USE DEF IInv
<1>1. PICK s \in Strong :
         /\ origin[s] = None
         /\ origin' = [origin EXCEPT ![s] = Source(op[r])]
         /\ op' = [op EXCEPT ![r].pc = "mark", ![r].strong = s]
  BY DEF PersistStrong
<1>2. op[r] \in Op /\ WellPlaced(op[r]) /\ Source(op[r]) \in Fast /\ op[r].pc = "embed"
      /\ CopyOwn(op[r], origin)
  BY SlotTyped DEF PersistStrong, AtSource, CopiesOwnTarget, CopyOwn
<1> DEFINE o == [op[r] EXCEPT !.pc = "mark", !.strong = s]
<1>3. op' = [op EXCEPT ![r] = o]
  BY <1>1, <1>2 DEF TypeOK
<1>4. o \in Op /\ o.pc = "mark" /\ o.strong = s /\ o.n = op[r].n /\ o.k = op[r].k
      /\ o.plan = op[r].plan /\ o.row = op[r].row
  BY <1>2 DEF Op, SyncPoints
<1>5. ActionOn(o) = ActionOn(op[r]) /\ Source(o) = Source(op[r])
  BY <1>4 DEF ActionOn, Source
<1> HIDE DEF o
<1>6. WellPlaced(o)
  BY <1>2, <1>4, <1>5 DEF WellPlaced, AtSource
<1>7. /\ origin' \in [Strong -> Fast \cup {None}]
      /\ \A t \in Strong : origin[t] # None => origin'[t] = origin[t]
      /\ origin'[s] = Source(op[r])
  BY <1>1, <1>2 DEF TypeOK
<1>8. UNCHANGED <<fast, runs, audited, restarts>> /\ CanRun(r)
  BY DEF PersistStrong
<1>9. TargetIsOwn'
  BY <1>7, <1>8 DEF TypeOK, Row, TargetIsOwn
<1>10. CopyOwn(o, origin')
  <2>1. o.row.target \in Strong \cup {None}
    BY <1>4 DEF Op, Row
  <2> QED BY <1>2, <1>4, <1>5, <1>7, <2>1 DEF CopyOwn
<1> QED BY <1>3, <1>4, <1>6, <1>7, <1>8, <1>9, <1>10, StepKeeps DEF TypeOK

LEMMA RestartStep ==
    ASSUME IInv, NEW p \in Procs, Restart(p)
    PROVE  IInv'
<1> USE DEF IInv
<1>1. /\ \A q \in Requests : op'[q] = IF Home[q] = p THEN Idle ELSE op[q]
      /\ op' \in [Requests -> Op] /\ \A q \in Requests : WellPlaced(op'[q])
      /\ restarts' \in 0..MaxRestarts
      /\ UNCHANGED <<fast, origin, runs, audited>>
  BY IdleOk DEF Restart, TypeOK
<1>2. LoopExclusive'
  BY <1>1, IdleOk DEF LoopExclusive, SyncPoints
<1>3. CopiesOwnTarget'
  BY <1>1, IdleOk DEF CopiesOwnTarget
<1>4. TypeOK' /\ TargetIsOwn'
  BY <1>1 DEF TypeOK, TargetIsOwn
<1> QED BY <1>2, <1>3, <1>4

LEMMA NextIInv == IInv /\ [Next]_vars => IInv'
<1> SUFFICES ASSUME IInv, [Next]_vars PROVE IInv'
  OBVIOUS
<1>1. ASSUME NEW r \in Requests, Begin(r) \/ Step(r) PROVE IInv'
  BY <1>1, BeginSteps, LogFastStep, AuditSteps, ReadRowStep, WriteSteps,
     PersistStrongStep DEF Begin, Step
<1>2. ASSUME NEW p \in Procs, Restart(p) PROVE IInv'
  BY <1>2, RestartStep
<1>3. CASE UNCHANGED vars
  BY <1>3 DEF vars, IInv, TypeOK, TargetIsOwn, LoopExclusive, CopiesOwnTarget
<1> QED BY <1>1, <1>2, <1>3 DEF Next

----------------------------------------------------------------------------
(* The theorems *)

\* The inductive invariant of fast memory.
THEOREM InductiveInvariant == Spec => []IInv
<1> QED BY InitIInv, NextIInv, PTL DEF Spec

\* Every variable keeps its type, and a request that changes an entry has a
\* decision and a source at hand.
THEOREM TypeCorrect == Spec => []TypeOK
<1>1. IInv => TypeOK
  BY DEF IInv
<1> QED BY <1>1, InductiveInvariant, PTL

\* The strong entry a fast entry names exists and was made from it, across
\* crashes, failed embeddings, overlapping promotions and processes.
THEOREM PromotedTargetIsOwn == Spec => []TargetIsOwn
<1>1. IInv => TargetIsOwn
  BY DEF IInv
<1> QED BY <1>1, InductiveInvariant, PTL

----------------------------------------------------------------------------
(* One process: what an apply reads between two awaits is not stale. *)

LoopInv == IInv /\ FreshCopies

\* With one process a step of a request that was or becomes synchronous finds
\* every other request waiting or idle.
LEMMA OthersWait ==
    ASSUME OneHome, IInv, NEW r \in Requests, NEW q \in Requests, q # r,
           CanRun(r) \/ op[r].pc \in SyncPoints
    PROVE  op[q].pc \notin SyncPoints
BY DEF OneHome, IInv, LoopExclusive, CanRun

LEMMA RequestMoves ==
    ASSUME IInv, NEW r \in Requests, Begin(r) \/ Step(r)
    PROVE  /\ CanRun(r) \/ op[r].pc \in SyncPoints
           /\ \A q \in Requests \ {r} : op'[q] = op[q]
BY DEF Begin, Step, LogFast, BeginCall, Prepare, BeginApply, AuditLog, ReadRow, WriteRow,
       PersistStrong, MarkPromoted, Audit, AbortPromotion, Resolve, Finish, SyncPoints,
       IInv, TypeOK

\* The slot a request leaves behind: fresh if it is about to write, and a dry
\* run still has the run as it is.
FreshSlot(o) ==
    /\ o.pc = "write" => o.row = fast[Source(o)]
    /\ o.dry => o.pc \in {"resolve", "finish"} /\ o.copy = runs[o.run]

LEMMA FreshBegin ==
    ASSUME LoopInv, NEW r \in Requests, Begin(r)
    PROVE  FreshSlot(op[r])'
<1> USE DEF LoopInv, IInv
<1>0. op[r] \in Op /\ FreshSlot(op[r])
  BY SlotTyped DEF FreshCopies, FreshSlot
<1>1. CASE LogFast(r)
  BY <1>1, IdleOk DEF LogFast, FreshSlot, TypeOK, Op, Idle
<1>2. CASE BeginCall(r)
  BY <1>2, IdleOk DEF BeginCall, FreshSlot, TypeOK, Op, Idle
<1>3. CASE Prepare(r)
  BY <1>0, <1>3 DEF Prepare, FreshSlot
<1>4. CASE BeginApply(r)
  <2>1. PICK i \in Runs, plan \in Payloads, dry \in BOOLEAN :
          op' = [op EXCEPT ![r] = [Idle EXCEPT !.pc = "resolve", !.plan = plan,
                                               !.dry = dry, !.run = i, !.copy = runs'[i]]]
    BY <1>4 DEF BeginApply
  <2>2. op'[r].pc = "resolve" /\ op'[r].run = i /\ op'[r].copy = runs'[i]
    BY <2>1 DEF TypeOK, Idle
  <2> QED BY <2>2 DEF FreshSlot
<1> QED BY <1>1, <1>2, <1>3, <1>4 DEF Begin

LEMMA FreshStep ==
    ASSUME LoopInv, NEW r \in Requests, Step(r)
    PROVE  FreshSlot(op[r])'
<1> USE DEF LoopInv, IInv
<1>0. /\ op[r] \in Op /\ WellPlaced(op[r]) /\ FreshSlot(op[r])
      /\ Idle.pc = "idle" /\ Idle.dry = FALSE
  BY SlotTyped, IdleOk DEF FreshCopies, FreshSlot
<1>1. CASE AuditLog(r) \/ AbortPromotion(r) \/ Finish(r)
  BY <1>0, <1>1 DEF AuditLog, AbortPromotion, Finish, FreshSlot, TypeOK
<1>2. CASE ReadRow(r)
  <2> DEFINE old == op[r]
  <2>1. old.pc = "call" /\ old.pc \in AtSource /\ ~old.dry
    BY <1>0, <1>2 DEF ReadRow, FreshSlot, AtSource
  <2>2. AfterSource(old).pc # "write" /\ ~AfterSource(old).dry
    BY <1>0, <2>1, AfterSourceOk DEF OnItsWay
  <2>3. op'[r] = IF ActionOn(old) # "promote"
                 THEN [old EXCEPT !.pc = "write", !.row = fast[Source(old)]]
                 ELSE IF AlreadyPromoted(fast[Source(old)]) THEN AfterSource(old)
                 ELSE [old EXCEPT !.pc = "embed", !.row = fast[Source(old)]]
    BY <1>2 DEF ReadRow, TypeOK
  <2>4. fast' = fast /\ runs' = runs
    BY <1>2 DEF ReadRow
  <2>5. CASE ActionOn(old) # "promote"
    <3>1. op'[r] = [old EXCEPT !.pc = "write", !.row = fast[Source(old)]]
      BY <2>3, <2>5
    <3>2. op'[r].row = fast[Source(old)] /\ op'[r].n = old.n /\ op'[r].k = old.k
          /\ op'[r].plan = old.plan /\ op'[r].dry = old.dry
      BY <1>0, <3>1 DEF Op
    <3> QED BY <2>1, <2>4, <3>2 DEF FreshSlot, Source
  <2>6. CASE ActionOn(old) = "promote" /\ AlreadyPromoted(fast[Source(old)])
    BY <2>2, <2>3, <2>6 DEF FreshSlot
  <2>7. CASE ActionOn(old) = "promote" /\ ~AlreadyPromoted(fast[Source(old)])
    <3>1. op'[r] = [old EXCEPT !.pc = "embed", !.row = fast[Source(old)]]
      BY <2>3, <2>7
    <3>2. op'[r].pc = "embed" /\ op'[r].dry = old.dry
      BY <1>0, <3>1 DEF Op
    <3> QED BY <2>1, <3>2 DEF FreshSlot
  <2> QED BY <2>5, <2>6, <2>7
<1>3. CASE WriteRow(r) \/ MarkPromoted(r) \/ PersistStrong(r)
  <2>1. ~op[r].dry
    BY <1>0, <1>3 DEF WriteRow, MarkPromoted, PersistStrong, FreshSlot
  <2>2. op'[r].pc \in {"audit", "mark"} /\ op'[r].dry = op[r].dry
    BY <1>0, <1>3 DEF WriteRow, MarkPromoted, PersistStrong, TypeOK, Op
  <2> QED BY <2>1, <2>2 DEF FreshSlot
<1>4. CASE Audit(r)
  <2>1. ~op[r].dry /\ op[r].pc \in AtSource
    BY <1>0, <1>4 DEF Audit, FreshSlot, AtSource
  <2>2. AfterSource(op[r]).pc # "write" /\ ~AfterSource(op[r]).dry
    BY <1>0, <2>1, AfterSourceOk DEF OnItsWay
  <2>3. op'[r] = AfterSource(op[r])
    BY <1>4 DEF Audit, TypeOK
  <2> QED BY <2>2, <2>3 DEF FreshSlot
<1>5. CASE Resolve(r)
  <2> DEFINE d == op[r].plan[op[r].n]
             w == [op[r] EXCEPT !.pc = "call"]
  <2>1. op[r].n \in DOMAIN op[r].plan /\ op[r].pc = "resolve"
    BY <1>0, <1>5 DEF Resolve, WellPlaced
  <2>2. /\ AfterDecision(op[r]).pc # "write"
        /\ AfterDecision(op[r]).dry => /\ op[r].dry
                                       /\ AfterDecision(op[r]).copy = op[r].copy
                                       /\ AfterDecision(op[r]).run = op[r].run
                                       /\ AfterDecision(op[r]).pc \in {"resolve", "finish"}
    BY <1>0, <2>1, AfterDecisionOk
  <2>3. w.pc = "call" /\ w.dry = op[r].dry
    BY <1>0 DEF Op
  <2>4. op'[r] = IF \E k \in DOMAIN d.sources : ~Exists(d.sources[k]) THEN Idle
                 ELSE IF op[r].dry \/ d.action = "review" THEN AfterDecision(op[r])
                 ELSE w
    BY <1>5 DEF Resolve, TypeOK
  <2>5. runs' = runs
    BY <1>5 DEF Resolve
  <2> HIDE DEF w, d
  <2> QED BY <1>0, <2>2, <2>3, <2>4, <2>5 DEF FreshSlot
<1> QED BY <1>1, <1>2, <1>3, <1>4, <1>5 DEF Step

LEMMA NextLoopInv ==
    ASSUME OneHome
    PROVE  LoopInv /\ [Next]_vars => LoopInv'
<1> SUFFICES ASSUME LoopInv, [Next]_vars PROVE FreshCopies'
  BY NextIInv DEF LoopInv
<1> USE DEF LoopInv
<1>1. ASSUME NEW r \in Requests, Begin(r) \/ Step(r) PROVE FreshCopies'
  <2>1. ASSUME NEW q \in Requests PROVE FreshSlot(op[q])'
    <3>1. CASE q = r
      BY <1>1, <3>1, FreshBegin, FreshStep
    <3>2. CASE q # r
      <4>1. op'[q] = op[q] /\ op[q].pc \notin SyncPoints
        BY <1>1, <3>2, RequestMoves, OthersWait
      <4>2. op[q].pc \notin {"write", "resolve", "finish"} /\ FreshSlot(op[q])
        BY <4>1 DEF SyncPoints, FreshCopies, FreshSlot
      <4> QED BY <4>1, <4>2 DEF FreshSlot
    <3> QED BY <3>1, <3>2
  <2> QED BY <2>1 DEF FreshCopies, FreshSlot
<1>2. ASSUME NEW p \in Procs, Restart(p) PROVE FreshCopies'
  <2>1. /\ \A q \in Requests : op'[q] = Idle \/ op'[q] = op[q]
        /\ UNCHANGED <<fast, runs>>
    BY <1>2 DEF Restart
  <2> QED BY <2>1, IdleOk DEF FreshCopies
<1>3. CASE UNCHANGED vars
  BY <1>3 DEF vars, FreshCopies
<1> QED BY <1>1, <1>2, <1>3 DEF Next

LEMMA InitLoopInv == Init => LoopInv
BY InitIInv, IdleOk DEF Init, LoopInv, FreshCopies

\* In one process summarize_fast and discard_fast never overwrite a change
\* made since they read the row, also inside an apply that has awaited.
THEOREM OneProcessWritesFresh ==
    ASSUME OneHome
    PROVE  Spec => SyncWritesAreFresh
<1>1. LoopInv /\ [Next]_vars =>
         [\A r \in Requests : WriteRow(r) => op[r].row = fast[Source(op[r])]]_vars
  BY DEF LoopInv, FreshCopies, WriteRow
<1> QED BY <1>1, InitLoopInv, NextLoopInv, PTL DEF Spec, SyncWritesAreFresh

\* In one process no dry run and no other apply takes a run's applied_at away.
THEOREM OneProcessKeepsAppliedTime ==
    ASSUME OneHome
    PROVE  Spec => AppliedTimeKept
<1>1. LoopInv /\ [Next]_vars =>
         [\A i \in Runs : runs[i].appliedAt => runs'[i].appliedAt]_vars
  <2> SUFFICES ASSUME LoopInv, Next, NEW i \in Runs, runs[i].appliedAt
               PROVE  runs'[i].appliedAt
    BY DEF LoopInv
  <2> USE DEF LoopInv, IInv, TypeOK
  <2>1. ASSUME NEW r \in Requests, Finish(r) PROVE runs'[i].appliedAt
    <3>1. op[r].run \in Runs /\ op[r].copy \in Run
      BY <2>1, SlotTyped DEF Finish, WellPlaced, Op
    <3>2. op[r].dry => op[r].copy = runs[op[r].run]
      BY DEF FreshCopies
    <3> QED BY <2>1, <3>1, <3>2 DEF Finish, Run
  <2>2. ASSUME NEW r \in Requests, Prepare(r) \/ BeginApply(r) PROVE runs'[i].appliedAt
    <3>1. PICK j \in Runs : runs' = runs \/ runs' = [runs EXCEPT ![j].status = "prepared"]
      BY <2>2 DEF Prepare, BeginApply
    <3> QED BY <3>1 DEF Run
  <2>3. ASSUME runs' = runs PROVE runs'[i].appliedAt
    BY <2>3
  <2>4. ASSUME NEW r \in Requests, Begin(r) \/ Step(r) PROVE runs'[i].appliedAt
    BY <2>1, <2>2, <2>3, <2>4
       DEF Begin, Step, LogFast, BeginCall, AuditLog, ReadRow, WriteRow, PersistStrong,
           MarkPromoted, Audit, AbortPromotion, Resolve
  <2>5. ASSUME NEW p \in Procs, Restart(p) PROVE runs'[i].appliedAt
    BY <2>3, <2>5 DEF Restart
  <2> QED BY <2>4, <2>5 DEF Next
<1> QED BY <1>1, InitLoopInv, NextLoopInv, PTL DEF Spec, AppliedTimeKept

----------------------------------------------------------------------------
(* What an apply has done, and what is recorded, in any number of processes. *)

\* Between two tables no row disappears or goes back to pending.
Advances(t, u) ==
    \A f \in Fast : /\ t[f].status # "absent" => u[f].status # "absent"
                    /\ DistilledIn(t, f) => DistilledIn(u, f)

LEMMA ProgressGrows ==
    ASSUME NEW o \in Op, WellPlaced(o), NEW t, NEW u, Advances(t, u), ProgressIn(t, o)
    PROVE  ProgressIn(u, o)
<1>1. o.plan \in Seq(Decision)
  BY PlansAreDecisions DEF Op
<1>2. \A m \in DOMAIN o.plan : o.plan[m].sources \in Seq(Fast)
  <2>1. \A m \in DOMAIN o.plan : o.plan[m] \in Decision
    BY <1>1
  <2> QED BY <2>1 DEF Decision
<1>3. \A m \in DOMAIN o.plan : HandledIn(t, o.plan[m]) => HandledIn(u, o.plan[m])
  BY <1>2 DEF HandledIn, Advances
<1>4. o.pc \in AtSource => o.n \in DOMAIN o.plan
  BY DEF WellPlaced
<1>5. \A k : (o.pc \in AtSource /\ k \in DOMAIN o.plan[o.n].sources)
               => o.plan[o.n].sources[k] \in Fast
  BY <1>2, <1>4
<1> QED BY <1>3, <1>5 DEF ProgressIn, HandledUpTo, Advances

LEMMA RowsAdvance ==
    ASSUME IInv, [Next]_vars
    PROVE  Advances(fast, fast')
<1> USE DEF IInv
<1>1. ASSUME NEW r \in Requests, LogFast(r) PROVE Advances(fast, fast')
  <2>1. PICK f \in Fast, status \in LoggedStatuses, resolved \in ResolvedArgs :
           /\ ~Exists(f)
           /\ fast' = [fast EXCEPT ![f] = [NoRow EXCEPT !.status = status,
                                                        !.resolved = (resolved = TRUE)]]
           /\ op' = [op EXCEPT ![r] = [Idle EXCEPT !.pc = "logged", !.entry = f]]
    BY <1>1 DEF LogFast
  <2>2. \A g \in Fast : f # g => fast'[g] = fast[g]
    BY <2>1 DEF TypeOK
  <2> QED BY <2>1, <2>2 DEF Advances, DistilledIn, Exists
<1>2. ASSUME NEW r \in Requests, WriteRow(r) \/ MarkPromoted(r) PROVE Advances(fast, fast')
  <2>1. op[r].row \in Row
    BY DEF TypeOK, Op
  <2>2. CASE WriteRow(r)
    BY <2>1, <2>2 DEF WriteRow, TypeOK, Row, Advances, DistilledIn
  <2>3. CASE MarkPromoted(r)
    BY <2>1, <2>3 DEF MarkPromoted, TypeOK, Row, Advances, DistilledIn
  <2> QED BY <1>2, <2>2, <2>3
<1>3. ASSUME fast' = fast PROVE Advances(fast, fast')
  BY <1>3 DEF Advances
<1>4. ASSUME NEW r \in Requests, Begin(r) \/ Step(r) PROVE Advances(fast, fast')
  BY <1>1, <1>2, <1>3, <1>4
     DEF Begin, Step, BeginCall, Prepare, BeginApply, AuditLog, ReadRow, PersistStrong,
         Audit, AbortPromotion, Resolve, Finish
<1> QED BY <1>3, <1>4 DEF Next, Restart, vars

LEMMA IdleProgress == ASSUME NEW t PROVE ProgressIn(t, Idle)
BY IdleOk DEF Idle, ProgressIn, HandledUpTo, AtSource

LEMMA AfterDecisionProgress ==
    ASSUME NEW t, NEW o \in Op, o.n \in DOMAIN o.plan, HandledUpTo(t, o, o.n + 1)
    PROVE  ProgressIn(t, AfterDecision(o))
<1>1. o.n \in 1..Len(o.plan) /\ o.plan \in Seq(Decision)
  BY DecisionOk
<1>2. CASE o.run = None
  BY <1>2, IdleProgress DEF AfterDecision
<1>3. CASE o.run # None /\ o.n < Len(o.plan)
  <2> DEFINE w == [o EXCEPT !.pc = "resolve", !.n = @ + 1, !.k = 1]
  <2>1. AfterDecision(o) = w
    BY <1>3 DEF AfterDecision
  <2>2. w.n = o.n + 1 /\ w.plan = o.plan /\ w.pc = "resolve" /\ w.run = o.run /\ w.dry = o.dry
    BY DEF Op
  <2> HIDE DEF w
  <2> QED BY <2>1, <2>2 DEF ProgressIn, HandledUpTo, AtSource
<1>4. CASE o.run # None /\ ~(o.n < Len(o.plan))
  <2> DEFINE w == [o EXCEPT !.pc = "finish"]
  <2>1. AfterDecision(o) = w
    BY <1>4 DEF AfterDecision
  <2>2. w.n = o.n /\ w.plan = o.plan /\ w.pc = "finish" /\ w.run = o.run /\ w.dry = o.dry
    BY DEF Op
  <2>3. \A m \in DOMAIN o.plan : m < o.n + 1
    BY <1>1, <1>4
  <2>4. \A m \in DOMAIN o.plan : m < o.n => m < o.n + 1
    BY <2>3
  <2> HIDE DEF w
  <2> QED BY <2>1, <2>2, <2>3, <2>4 DEF ProgressIn, HandledUpTo, AtSource
<1> QED BY <1>2, <1>3, <1>4

LEMMA AfterSourceProgress ==
    ASSUME NEW t, NEW o \in Op, WellPlaced(o), o.pc \in AtSource, ProgressIn(t, o),
           DistilledIn(t, Source(o))
    PROVE  ProgressIn(t, AfterSource(o))
<1> DEFINE clean == [o EXCEPT !.row = NoRow, !.strong = None]
<1>1. /\ o.n \in DOMAIN o.plan /\ o.k \in DOMAIN o.plan[o.n].sources
      /\ o.plan[o.n].action # "review" /\ ~o.dry
  BY DEF WellPlaced, ProgressIn, AtSource
<1>2. /\ o.plan[o.n].sources \in Seq(Fast) /\ o.k \in 1..Len(o.plan[o.n].sources)
      /\ o.n \in 1..Len(o.plan) /\ o.plan \in Seq(Decision)
  BY <1>1, DecisionOk
<1>3. NoRow \in Row
  BY DEF NoRow, Row
<1>4. /\ clean \in Op /\ clean.n = o.n /\ clean.k = o.k /\ clean.plan = o.plan
      /\ clean.dry = o.dry /\ clean.run = o.run
  BY <1>3 DEF Op
<1>5. \A k \in DOMAIN o.plan[o.n].sources :
         k <= o.k => DistilledIn(t, o.plan[o.n].sources[k])
  <2>1. TAKE k \in DOMAIN o.plan[o.n].sources
  <2>2. CASE k = o.k
    BY <2>2 DEF Source
  <2>3. CASE k < o.k
    BY <2>3 DEF ProgressIn
  <2>4. k \in Nat /\ o.k \in Nat
    BY <1>2
  <2> QED BY <2>2, <2>3, <2>4
<1>6. CASE o.k < Len(o.plan[o.n].sources)
  <2> DEFINE w == [clean EXCEPT !.pc = "call", !.k = @ + 1]
  <2>1. AfterSource(o) = w
    BY <1>6 DEF AfterSource
  <2>2. /\ w.pc = "call" /\ w.n = o.n /\ w.plan = o.plan /\ w.k = o.k + 1
        /\ w.dry = o.dry /\ w.run = o.run
    BY <1>4 DEF Op
  <2>3. \A k \in DOMAIN o.plan[o.n].sources : k < o.k + 1 => k <= o.k
    <3>1. DOMAIN o.plan[o.n].sources = 1..Len(o.plan[o.n].sources)
      BY <1>2
    <3>2. \A k \in 1..Len(o.plan[o.n].sources) : k < o.k + 1 => k <= o.k
      BY <1>2
    <3> QED BY <3>1, <3>2
  <2> HIDE DEF w
  <2> QED BY <1>1, <1>5, <2>1, <2>2, <2>3 DEF ProgressIn, HandledUpTo, AtSource
<1>7. CASE ~(o.k < Len(o.plan[o.n].sources))
  <2>1. AfterSource(o) = AfterDecision(clean)
    BY <1>7 DEF AfterSource
  <2>2. HandledIn(t, o.plan[o.n])
    <3>1. \A k \in DOMAIN o.plan[o.n].sources : k <= o.k
      BY <1>2, <1>7
    <3> QED BY <1>5, <3>1 DEF HandledIn
  <2>3. HandledUpTo(t, clean, clean.n + 1)
    <3>1. \A m \in DOMAIN o.plan : m < o.n + 1 => m < o.n \/ m = o.n
      BY <1>2
    <3> QED BY <1>4, <2>2, <3>1 DEF HandledUpTo, ProgressIn
  <2>4. clean.n \in DOMAIN clean.plan
    BY <1>1, <1>4
  <2>5. ProgressIn(t, AfterDecision(clean))
    BY ONLY <1>4, <2>3, <2>4, AfterDecisionProgress
  <2> QED BY <2>1, <2>5
<1> QED BY <1>6, <1>7

\* A request that keeps its decision and source, for one of the points of AtSource.
LEMMA SameSourceProgress ==
    ASSUME NEW t, NEW u, NEW o \in Op, NEW w \in Op, WellPlaced(o), Advances(t, u),
           o.pc \in AtSource, w.pc \in AtSource, ProgressIn(t, o),
           w.n = o.n, w.k = o.k, w.plan = o.plan, w.dry = o.dry, w.run = o.run,
           w.pc = "audit" => DistilledIn(u, Source(o))
    PROVE  ProgressIn(u, w)
<1>1. ProgressIn(u, o)
  BY ProgressGrows
<1>2. \A k : (k = o.k => o.plan[o.n].sources[k] = Source(o))
  BY DEF Source
<1> QED BY <1>1, <1>2 DEF ProgressIn, HandledUpTo, AtSource

LEMMA BeginProgress ==
    ASSUME IInv, NEW r \in Requests, Begin(r), ProgressIn(fast, op[r]),
           Advances(fast, fast')
    PROVE  ProgressIn(fast', op'[r])
<1> USE DEF IInv, TypeOK
<1>1. CASE LogFast(r)
  <2>1. PICK f \in Fast : op' = [op EXCEPT ![r] = [Idle EXCEPT !.pc = "logged", !.entry = f]]
    BY <1>1 DEF LogFast
  <2>2. /\ op'[r].pc = "logged" /\ op'[r].dry = FALSE /\ op'[r].run = None
    BY <2>1 DEF Idle
  <2> QED BY <2>2 DEF ProgressIn, HandledUpTo, AtSource
<1>2. CASE BeginCall(r)
  <2>1. PICK plan \in DirectPlans :
           /\ Exists(plan[1].sources[1])
           /\ op' = [op EXCEPT ![r] = [Idle EXCEPT !.pc = "call", !.plan = plan]]
           /\ fast' = fast
    BY <1>2 DEF BeginCall
  <2>2. /\ op'[r].pc = "call" /\ op'[r].dry = FALSE /\ op'[r].run = None
        /\ op'[r].plan = plan /\ op'[r].n = 1 /\ op'[r].k = 1
    BY <2>1 DEF Idle
  <2>3. DOMAIN plan[1].sources = {1}
    <3>1. PICK d \in [action : Actions \ {"review"}, sources : {<<f>> : f \in Fast},
                      resolved : ResolvedArgs] : plan = <<d>>
      BY DEF DirectPlans
    <3>2. PICK f \in Fast : d.sources = <<f>>
      BY <3>1
    <3>3. DOMAIN <<f>> = {1}
      OBVIOUS
    <3> QED BY <3>1, <3>2, <3>3
  <2>4. \A k \in DOMAIN plan[1].sources : k = 1
    BY <2>3
  <2> QED BY <2>1, <2>2, <2>4 DEF ProgressIn, HandledUpTo, AtSource, Exists
<1>3. CASE Prepare(r)
  BY <1>3, SlotTyped, ProgressGrows DEF Prepare
<1>4. CASE BeginApply(r)
  <2>1. PICK i \in Runs, plan \in Payloads, dry \in BOOLEAN :
          op' = [op EXCEPT ![r] = [Idle EXCEPT !.pc = "resolve", !.plan = plan,
                                               !.dry = dry, !.run = i, !.copy = runs'[i]]]
    BY <1>4 DEF BeginApply
  <2>2. op'[r].pc = "resolve" /\ op'[r].plan = plan /\ op'[r].n = 1
    BY <2>1 DEF Idle
  <2>3. \A m \in DOMAIN plan : ~(m < 1)
    BY DEF FastAssumption
  <2> QED BY <2>2, <2>3 DEF ProgressIn, HandledUpTo, AtSource
<1> QED BY <1>1, <1>2, <1>3, <1>4 DEF Begin

LEMMA StepProgress ==
    ASSUME IInv, NEW r \in Requests, Step(r), ProgressIn(fast, op[r]),
           Advances(fast, fast')
    PROVE  ProgressIn(fast', op'[r])
<1> DEFINE old == op[r]
<1>0. /\ old \in Op /\ WellPlaced(old)
      /\ op \in [Requests -> Op]
      /\ old.pc \in AtSource => Source(old) \in Fast
  BY SlotTyped DEF IInv, TypeOK
<1>1. CASE AuditLog(r) \/ AbortPromotion(r) \/ Finish(r)
  <2>1. op'[r] = Idle
    BY <1>0, <1>1 DEF AuditLog, AbortPromotion, Finish
  <2> QED BY <2>1, IdleProgress
<1>2. CASE ReadRow(r)
  <2> DEFINE row == fast[Source(old)]
  <2>1. old.pc = "call" /\ old.pc \in AtSource /\ fast' = fast
    BY <1>2 DEF ReadRow, AtSource
  <2>2. op'[r] = IF ActionOn(old) # "promote" THEN [old EXCEPT !.pc = "write", !.row = row]
                 ELSE IF AlreadyPromoted(row) THEN AfterSource(old)
                 ELSE [old EXCEPT !.pc = "embed", !.row = row]
    BY <1>0, <1>2 DEF ReadRow
  <2>3. ASSUME NEW pc \in {"write", "embed"}, op'[r] = [old EXCEPT !.pc = pc, !.row = row]
        PROVE  ProgressIn(fast', op'[r])
    <3>1. row \in Row
      BY <1>0, <2>1 DEF IInv, TypeOK
    <3>2. /\ op'[r] \in Op /\ op'[r].pc = pc /\ op'[r].n = old.n /\ op'[r].k = old.k
          /\ op'[r].plan = old.plan /\ op'[r].dry = old.dry /\ op'[r].run = old.run
      BY <1>0, <2>3, <3>1 DEF Op, SyncPoints
    <3>3. op'[r].pc \in AtSource /\ op'[r].pc # "audit"
      BY <3>2 DEF AtSource
    <3> HIDE DEF old, row
    <3> QED BY <1>0, <2>1, <3>2, <3>3, SameSourceProgress DEF old
  <2>4. CASE ActionOn(old) = "promote" /\ AlreadyPromoted(row)
    <3>1. DistilledIn(fast, Source(old))
      BY <2>4 DEF AlreadyPromoted, DistilledIn
    <3>2. ProgressIn(fast, AfterSource(old))
      BY <1>0, <2>1, <3>1, AfterSourceProgress
    <3> QED BY <2>1, <2>2, <2>4, <3>2
  <2> QED BY <2>2, <2>3, <2>4
<1>3. CASE WriteRow(r) \/ MarkPromoted(r)
  <2>1. /\ old.pc \in AtSource /\ op' = [op EXCEPT ![r].pc = "audit"]
    BY <1>3 DEF WriteRow, MarkPromoted, AtSource
  <2>2. /\ op'[r] \in Op /\ op'[r].pc = "audit" /\ op'[r].n = old.n /\ op'[r].k = old.k
        /\ op'[r].plan = old.plan /\ op'[r].dry = old.dry /\ op'[r].run = old.run
    BY <1>0, <2>1 DEF Op, SyncPoints
  <2>3. DistilledIn(fast', Source(old))
    <3>1. old.row \in Row /\ fast \in [Fast -> Row] /\ Source(old) \in Fast
      BY <1>0, <2>1 DEF Op, IInv, TypeOK
    <3>2. CASE WriteRow(r)
      BY <3>1, <3>2 DEF WriteRow, Row, DistilledIn
    <3>3. CASE MarkPromoted(r)
      BY <3>1, <3>3 DEF MarkPromoted, Row, DistilledIn
    <3> QED BY <1>3, <3>2, <3>3
  <2>4. op'[r].pc \in AtSource
    BY <2>2 DEF AtSource
  <2> HIDE DEF old
  <2> QED BY <1>0, <2>1, <2>2, <2>3, <2>4, SameSourceProgress DEF old
<1>4. CASE PersistStrong(r)
  <2>1. PICK s \in Strong : op' = [op EXCEPT ![r].pc = "mark", ![r].strong = s]
    BY <1>4 DEF PersistStrong
  <2>2. /\ op'[r] \in Op /\ op'[r].pc = "mark" /\ op'[r].n = old.n /\ op'[r].k = old.k
        /\ op'[r].plan = old.plan /\ op'[r].dry = old.dry /\ op'[r].run = old.run
    BY <1>0, <2>1 DEF Op, SyncPoints
  <2>3. old.pc \in AtSource /\ op'[r].pc \in AtSource /\ op'[r].pc # "audit"
    BY <1>4, <2>2 DEF PersistStrong, AtSource
  <2> HIDE DEF old
  <2> QED BY <1>0, <2>2, <2>3, SameSourceProgress DEF old
<1>5. CASE Audit(r)
  <2>1. old.pc = "audit" /\ old.pc \in AtSource /\ fast' = fast
    BY <1>5 DEF Audit, AtSource
  <2>2. DistilledIn(fast, Source(old))
    <3>1. old.k \in DOMAIN old.plan[old.n].sources
      BY <1>0, <2>1 DEF WellPlaced
    <3> QED BY <2>1, <3>1 DEF ProgressIn, Source
  <2>3. op'[r] = AfterSource(old)
    BY <1>0, <1>5 DEF Audit
  <2>4. ProgressIn(fast, AfterSource(old))
    BY <1>0, <2>1, <2>2, AfterSourceProgress
  <2> QED BY <2>1, <2>3, <2>4
<1>6. CASE Resolve(r)
  <2> DEFINE d == old.plan[old.n]
             w == [old EXCEPT !.pc = "call"]
  <2>1. old.n \in DOMAIN old.plan /\ old.pc = "resolve" /\ old.k = 1 /\ fast' = fast
    BY <1>0, <1>6 DEF Resolve, WellPlaced
  <2>2. op'[r] = IF \E k \in DOMAIN d.sources : ~Exists(d.sources[k]) THEN Idle
                 ELSE IF old.dry \/ d.action = "review" THEN AfterDecision(old)
                 ELSE w
    BY <1>0, <1>6 DEF Resolve
  <2>3. old.n \in 1..Len(old.plan) /\ d.sources \in Seq(Fast) /\ old.plan \in Seq(Decision)
    BY <1>0, <2>1, DecisionOk
  <2>4. CASE old.dry \/ d.action = "review"
    <3>1. \A m \in DOMAIN old.plan : m < old.n + 1 => m < old.n \/ m = old.n
      <4>1. DOMAIN old.plan = 1..Len(old.plan)
        BY <2>3
      <4> QED BY <2>3, <4>1
    <3>2. HandledUpTo(fast, old, old.n + 1)
      BY <2>4, <3>1 DEF ProgressIn, HandledUpTo, HandledIn
    <3>3. ProgressIn(fast, AfterDecision(old))
      BY <1>0, <2>1, <3>2, AfterDecisionProgress
    <3> QED BY <2>1, <2>2, <2>4, <3>3, IdleProgress
  <2>5. CASE ~(old.dry \/ d.action = "review") /\ \A k \in DOMAIN d.sources : Exists(d.sources[k])
    <3>1. op'[r] = w
      BY <2>2, <2>5
    <3>2. /\ w.pc = "call" /\ w.n = old.n /\ w.k = 1
          /\ w.plan = old.plan /\ w.dry = old.dry /\ w.run = old.run
      BY <1>0, <2>1 DEF Op
    <3>3. \A k \in DOMAIN d.sources : ~(k < 1)
      <4>1. DOMAIN d.sources = 1..Len(d.sources)
        BY <2>3
      <4>2. \A k \in 1..Len(d.sources) : ~(k < 1)
        BY <2>3
      <4> QED BY <4>1, <4>2
    <3> HIDE DEF w
    <3> QED BY <2>1, <2>5, <3>1, <3>2, <3>3 DEF ProgressIn, HandledUpTo, AtSource, Exists
  <2> QED BY <2>1, <2>2, <2>4, <2>5, IdleProgress
<1> QED BY <1>1, <1>2, <1>3, <1>4, <1>5, <1>6 DEF Step

LEMMA NextProgress == IInv /\ AllProgress /\ [Next]_vars => AllProgress'
<1> SUFFICES ASSUME IInv, AllProgress, [Next]_vars, NEW q \in Requests
             PROVE  ProgressIn(fast', op'[q])
  BY DEF AllProgress
<1>1. Advances(fast, fast') /\ WellPlaced(op[q]) /\ op[q] \in Op
  BY RowsAdvance, SlotTyped DEF IInv
<1>2. op'[q] = op[q] => ProgressIn(fast', op'[q])
  BY <1>1, ProgressGrows DEF AllProgress
<1>3. ASSUME NEW r \in Requests, Begin(r) \/ Step(r) PROVE ProgressIn(fast', op'[q])
  <2>1. CASE q = r
    BY <1>1, <1>3, <2>1, BeginProgress, StepProgress DEF AllProgress
  <2>2. CASE q # r
    BY <1>2, <1>3, <2>2, RequestMoves
  <2> QED BY <2>1, <2>2
<1>4. ASSUME NEW p \in Procs, Restart(p) PROVE ProgressIn(fast', op'[q])
  <2>1. op'[q] = Idle \/ op'[q] = op[q]
    BY <1>4 DEF Restart
  <2> QED BY <1>2, <2>1, IdleProgress
<1>5. CASE UNCHANGED vars
  BY <1>2, <1>5 DEF vars
<1> QED BY <1>3, <1>4, <1>5 DEF Next

LEMMA InitProgress == Init => IInv /\ AllProgress
BY InitIInv, IdleProgress DEF Init, AllProgress

\* A dry run changes neither fast nor strong memory, whatever its plan and
\* whatever else is going on.
THEOREM DryRunsChangeNothing == Spec => DryRunChangesNothing
<1>1. IInv /\ AllProgress /\ [Next]_vars =>
         [\A r \in Requests :
             (op[r].dry /\ op'[r] # op[r]) => UNCHANGED <<fast, origin>>]_vars
  <2> SUFFICES ASSUME IInv, AllProgress, Next, NEW q \in Requests, op[q].dry, op'[q] # op[q]
               PROVE  UNCHANGED <<fast, origin>>
    OBVIOUS
  <2>1. op[q].pc \in {"resolve", "finish"}
    BY DEF AllProgress, ProgressIn
  <2>2. ASSUME NEW r \in Requests, Begin(r) \/ Step(r) PROVE UNCHANGED <<fast, origin>>
    <3>1. q = r
      BY <2>2, RequestMoves
    <3> QED BY <2>1, <2>2, <3>1
            DEF Begin, Step, LogFast, BeginCall, Prepare, BeginApply, AuditLog, ReadRow,
                WriteRow, PersistStrong, MarkPromoted, Audit, AbortPromotion, Resolve, Finish
  <2>3. ASSUME NEW p \in Procs, Restart(p) PROVE UNCHANGED <<fast, origin>>
    BY <2>3 DEF Restart
  <2> QED BY <2>2, <2>3 DEF Next
<1> QED BY <1>1, InitProgress, NextIInv, NextProgress, PTL DEF Spec, DryRunChangesNothing

\* When a run becomes applied, every source of its plan that was to be changed
\* is distilled, in any number of processes and applies.
THEOREM AppliedRunsAreDistilled == Spec => AppliedMeansDistilled
<1>1. IInv /\ AllProgress /\ [Next]_vars =>
         [\A r \in Requests :
             (Finish(r) /\ ~op[r].dry) =>
                \A n \in DOMAIN op[r].plan :
                   op[r].plan[n].action # "review" =>
                      \A k \in DOMAIN op[r].plan[n].sources :
                         fast[op[r].plan[n].sources[k]].status
                            \in {"summarized", "promoted", "discarded"}]_vars
  <2> SUFFICES ASSUME IInv, AllProgress, NEW r \in Requests, Finish(r), ~op[r].dry
               PROVE  \A n \in DOMAIN op[r].plan : HandledIn(fast, op[r].plan[n])
    BY DEF HandledIn, DistilledIn
  <2>1. op[r].pc = "finish" /\ op[r].run # None
    BY SlotTyped DEF Finish, WellPlaced, IInv
  <2> QED BY <2>1 DEF AllProgress, ProgressIn
<1> QED BY <1>1, InitProgress, NextIInv, NextProgress, PTL DEF Spec, AppliedMeansDistilled

----------------------------------------------------------------------------
(* The audit log, while no process has died. *)

\* Recorded, for given tables.
RecordedIn(log, ops, f, e) ==
    \/ e \in log[f]
    \/ \E r \in Requests : ops[r].pc = "audit" /\ Source(ops[r]) = f /\ Event(ops[r]) = e
    \/ \E r \in Requests : ops[r].pc = "logged" /\ ops[r].entry = f /\ e = "log"

TrailsRecordedIn(table, log, ops) ==
    /\ \A f \in Fast : table[f].status # "absent" =>
          \A e \in table[f].trail \cup {"log"} : RecordedIn(log, ops, f, e)
    /\ \A r \in Requests : ops[r].pc \in {"write", "embed", "mark"} =>
          \A e \in ops[r].row.trail : RecordedIn(log, ops, Source(ops[r]), e)

LEMMA TrailsInTables ==
    TrailsRecorded <=> (restarts = 0 => TrailsRecordedIn(fast, audited, op))
BY DEF TrailsRecorded, TrailsRecordedIn, Recorded, RecordedIn, Exists

LEMMA RecordsStay ==
    ASSUME IInv, NEW r \in Requests, Begin(r) \/ Step(r), NEW f \in Fast, NEW e,
           RecordedIn(audited, op, f, e)
    PROVE  RecordedIn(audited', op', f, e)
<1>1. \A q \in Requests \ {r} : op'[q] = op[q]
  BY RequestMoves
<1>2. op[r].pc = "audit" => Audit(r)
  BY DEF Begin, Step, LogFast, BeginCall, Prepare, BeginApply, AuditLog, ReadRow, WriteRow,
         PersistStrong, MarkPromoted, AbortPromotion, Resolve, Finish
<1>3. op[r].pc = "logged" => AuditLog(r)
  BY DEF Begin, Step, LogFast, BeginCall, Prepare, BeginApply, Audit, ReadRow, WriteRow,
         PersistStrong, MarkPromoted, AbortPromotion, Resolve, Finish
<1>4. audited[f] \subseteq audited'[f]
  <2>1. audited \in [Fast -> SUBSET Events]
    BY DEF IInv, TypeOK
  <2>2. CASE Audit(r)
    BY <2>1, <2>2 DEF Audit
  <2>3. CASE AuditLog(r)
    BY <2>1, <2>3 DEF AuditLog
  <2>4. CASE audited' = audited
    BY <2>4
  <2> QED BY <2>2, <2>3, <2>4
          DEF Begin, Step, LogFast, BeginCall, Prepare, BeginApply, ReadRow, WriteRow,
              PersistStrong, MarkPromoted, AbortPromotion, Resolve, Finish
<1>5. CASE op[r].pc = "audit" /\ Source(op[r]) = f /\ Event(op[r]) = e
  <2>1. audited' = [audited EXCEPT ![f] = @ \cup {e}]
    BY <1>2, <1>5 DEF Audit, Event
  <2>2. e \in audited'[f]
    BY <2>1 DEF IInv, TypeOK
  <2> QED BY <2>2 DEF RecordedIn
<1>6. CASE op[r].pc = "logged" /\ op[r].entry = f /\ e = "log"
  <2>1. audited' = [audited EXCEPT ![f] = @ \cup {e}]
    BY <1>3, <1>6 DEF AuditLog
  <2>2. e \in audited'[f]
    BY <2>1 DEF IInv, TypeOK
  <2> QED BY <2>2 DEF RecordedIn
<1>7. CASE \E q \in Requests \ {r} :
             \/ op[q].pc = "audit" /\ Source(op[q]) = f /\ Event(op[q]) = e
             \/ op[q].pc = "logged" /\ op[q].entry = f /\ e = "log"
  BY <1>1, <1>7 DEF RecordedIn
<1> QED BY <1>4, <1>5, <1>6, <1>7 DEF RecordedIn

LEMMA CopiesStayRecorded ==
    ASSUME IInv, AllProgress, TrailsRecordedIn(fast, audited, op),
           NEW r \in Requests, Begin(r) \/ Step(r), NEW q \in Requests,
           op'[q].pc \in {"write", "embed", "mark"}, NEW e \in op'[q].row.trail
    PROVE  RecordedIn(audited', op', Source(op'[q]), e)
<1>0. /\ op[q] \in Op /\ WellPlaced(op[q]) /\ op \in [Requests -> Op]
      /\ op[q].pc \in AtSource => Source(op[q]) \in Fast
      /\ Idle.pc = "idle"
  BY SlotTyped, IdleOk DEF IInv, TypeOK
<1>1. CASE /\ op[q].pc \in {"write", "embed", "mark"} /\ op'[q].row = op[q].row
           /\ Source(op'[q]) = Source(op[q])
  <2>1. RecordedIn(audited, op, Source(op[q]), e)
    BY <1>1 DEF TrailsRecordedIn
  <2>2. Source(op[q]) \in Fast
    BY <1>0, <1>1 DEF AtSource
  <2> QED BY <1>1, <2>1, <2>2, RecordsStay
<1>2. CASE q # r
  BY <1>1, <1>2, RequestMoves
<1>3. CASE q = r /\ ReadRow(r)
  <2> DEFINE f == Source(op[r])
  <2>1. op[r].pc = "call" /\ op[r].pc \in AtSource /\ f \in Fast
    BY <1>0, <1>3 DEF ReadRow, AtSource
  <2>2. AfterSource(op[r]).pc \notin {"write", "embed", "mark"}
    BY <1>0, <1>3, <2>1, AfterSourceOk DEF OnItsWay
  <2>3. PICK pc \in {"write", "embed"} : op'[r] = [op[r] EXCEPT !.pc = pc, !.row = fast[f]]
    BY <1>0, <1>3, <2>2 DEF ReadRow
  <2>4. op'[r].row = fast[f] /\ Source(op'[r]) = f
    BY <1>0, <1>3, <2>3 DEF Op, Source
  <2>5. fast[f].status # "absent"
    <3>1. op[r].k \in DOMAIN op[r].plan[op[r].n].sources
      BY <1>0, <1>3, <2>1 DEF WellPlaced
    <3> QED BY <2>1, <3>1 DEF AllProgress, ProgressIn, Source
  <2>6. RecordedIn(audited, op, f, e)
    BY <1>3, <2>1, <2>4, <2>5 DEF TrailsRecordedIn
  <2> HIDE DEF f
  <2> QED BY <1>3, <2>1, <2>4, <2>6, RecordsStay
<1>4. CASE q = r /\ PersistStrong(r)
  <2>1. PICK s \in Strong : op' = [op EXCEPT ![r].pc = "mark", ![r].strong = s]
    BY <1>4 DEF PersistStrong
  <2>2. op[q].pc = "embed" /\ op'[q].row = op[q].row /\ Source(op'[q]) = Source(op[q])
    BY <1>0, <1>4, <2>1 DEF PersistStrong, Op, Source
  <2> QED BY <1>1, <2>2
<1>5. CASE q = r /\ Audit(r)
  <2>1. op[r].pc \in AtSource /\ op'[r] = AfterSource(op[r])
    BY <1>0, <1>5 DEF Audit, AtSource
  <2> QED BY <1>0, <1>5, <2>1, AfterSourceOk DEF OnItsWay
<1>6. CASE q = r /\ Resolve(r)
  <2>1. op[r].pc = "resolve" /\ op[r].n \in DOMAIN op[r].plan
    BY <1>0, <1>6 DEF Resolve, WellPlaced
  <2>2. AfterDecision(op[r]).pc \notin {"write", "embed", "mark"}
    BY <1>0, <1>6, <2>1, AfterDecisionOk DEF OnItsWay
  <2>3. op'[r] \in {Idle, AfterDecision(op[r]), [op[r] EXCEPT !.pc = "call"]}
    BY <1>0, <1>6 DEF Resolve
  <2>4. [op[r] EXCEPT !.pc = "call"].pc = "call"
    BY <1>0, <1>6 DEF Op
  <2> QED BY <1>0, <1>6, <2>2, <2>3, <2>4
<1>7. CASE q = r /\ (WriteRow(r) \/ MarkPromoted(r))
  <2>1. op'[q].pc = "audit"
    BY <1>0, <1>7 DEF WriteRow, MarkPromoted, Op
  <2> QED BY <2>1
<1>8. CASE q = r /\ (AuditLog(r) \/ AbortPromotion(r) \/ Finish(r))
  <2>1. op'[q] = Idle
    BY <1>0, <1>8 DEF AuditLog, AbortPromotion, Finish
  <2> QED BY <1>0, <2>1
<1>9. CASE q = r /\ Begin(r)
  <2>1. CASE LogFast(r)
    BY <1>0, <1>9, <2>1 DEF LogFast, Idle
  <2>2. CASE BeginCall(r)
    BY <1>0, <1>9, <2>2 DEF BeginCall, Idle
  <2>3. CASE Prepare(r)
    BY <1>0, <1>9, <2>3 DEF Prepare
  <2>4. CASE BeginApply(r)
    BY <1>0, <1>9, <2>4 DEF BeginApply, Idle
  <2> QED BY <1>9, <2>1, <2>2, <2>3, <2>4 DEF Begin
<1> QED BY <1>2, <1>3, <1>4, <1>5, <1>6, <1>7, <1>8, <1>9 DEF Step

LEMMA RowsStayRecorded ==
    ASSUME IInv, AllProgress, TrailsRecordedIn(fast, audited, op),
           NEW r \in Requests, Begin(r) \/ Step(r), NEW f \in Fast,
           fast'[f].status # "absent", NEW e \in fast'[f].trail \cup {"log"}
    PROVE  RecordedIn(audited', op', f, e)
<1>0. /\ op[r] \in Op /\ WellPlaced(op[r]) /\ op \in [Requests -> Op]
      /\ fast \in [Fast -> Row]
      /\ op[r].pc \in AtSource => Source(op[r]) \in Fast
  BY SlotTyped DEF IInv, TypeOK
<1>1. CASE fast'[f] = fast[f]
  <2>1. RecordedIn(audited, op, f, e)
    BY <1>1 DEF TrailsRecordedIn
  <2> QED BY <2>1, RecordsStay
<1>2. CASE LogFast(r) /\ fast'[f] # fast[f]
  <2>1. PICK g \in Fast, status \in LoggedStatuses, resolved \in ResolvedArgs :
           /\ fast' = [fast EXCEPT ![g] = [NoRow EXCEPT !.status = status,
                                                        !.resolved = (resolved = TRUE)]]
           /\ op' = [op EXCEPT ![r] = [Idle EXCEPT !.pc = "logged", !.entry = g]]
    BY <1>2 DEF LogFast
  <2>2. g = f /\ e = "log"
    BY <1>0, <1>2, <2>1 DEF NoRow
  <2>3. op'[r].pc = "logged" /\ op'[r].entry = f
    BY <1>0, <2>1, <2>2 DEF Idle
  <2> QED BY <2>2, <2>3 DEF RecordedIn
<1>3. CASE (WriteRow(r) \/ MarkPromoted(r)) /\ fast'[f] # fast[f]
  <2> DEFINE old == op[r]
  <2>1. /\ old.pc \in {"write", "mark"} /\ old.pc \in AtSource /\ old.row \in Row
        /\ op' = [op EXCEPT ![r].pc = "audit"]
    BY <1>0, <1>3 DEF WriteRow, MarkPromoted, AtSource, Op
  <2>2. /\ f = Source(old)
        /\ fast'[f].trail = old.row.trail \cup {Event(old)}
    <3>1. CASE WriteRow(r)
      <4>1. Event(old) = ActionOn(old)
        BY <1>0, <3>1 DEF WriteRow, WellPlaced, Event
      <4> QED BY <1>0, <1>3, <2>1, <3>1, <4>1 DEF WriteRow, Row
    <3>2. CASE MarkPromoted(r)
      <4>1. Event(old) = old.strong
        BY <1>0, <3>2 DEF MarkPromoted, WellPlaced, Event
      <4> QED BY <1>0, <1>3, <2>1, <3>2, <4>1 DEF MarkPromoted, Row
    <3> QED BY <1>3, <3>1, <3>2
  <2>3. /\ op'[r].pc = "audit" /\ Source(op'[r]) = Source(old) /\ Event(op'[r]) = Event(old)
    BY <1>0, <2>1 DEF Op, Source, Event, ActionOn
  <2>4. fast[f].status # "absent"
    <3>1. old.k \in DOMAIN old.plan[old.n].sources
      BY <1>0, <2>1 DEF WellPlaced
    <3> QED BY <2>1, <2>2, <3>1 DEF AllProgress, ProgressIn, Source
  <2>5. CASE e = Event(old)
    BY <2>2, <2>3, <2>5 DEF RecordedIn
  <2>6. CASE e # Event(old)
    <3>1. RecordedIn(audited, op, f, e)
      BY <2>1, <2>2, <2>4, <2>6 DEF TrailsRecordedIn
    <3> QED BY <3>1, RecordsStay
  <2> QED BY <2>5, <2>6
<1>4. LogFast(r) \/ WriteRow(r) \/ MarkPromoted(r) \/ fast' = fast
  BY DEF Begin, Step, BeginCall, Prepare, BeginApply, AuditLog, ReadRow, PersistStrong,
         Audit, AbortPromotion, Resolve, Finish
<1> QED BY <1>1, <1>2, <1>3, <1>4

RecordInv == IInv /\ AuditInv

LEMMA NextRecordInv == RecordInv /\ [Next]_vars => RecordInv'
<1> SUFFICES ASSUME RecordInv, [Next]_vars PROVE TrailsRecorded'
  BY NextIInv, NextProgress DEF RecordInv, AuditInv
<1> USE DEF RecordInv, AuditInv
<1>1. TrailsRecorded' <=> (restarts' = 0 => TrailsRecordedIn(fast', audited', op'))
  BY DEF TrailsRecorded, TrailsRecordedIn, Recorded, RecordedIn, Exists
<1>2. ASSUME NEW r \in Requests, Begin(r) \/ Step(r), restarts' = 0
      PROVE  TrailsRecordedIn(fast', audited', op')
  <2>1. restarts = 0
    BY <1>2 DEF Begin, Step, LogFast, BeginCall, Prepare, BeginApply, AuditLog, ReadRow,
                WriteRow, PersistStrong, MarkPromoted, Audit, AbortPromotion, Resolve, Finish
  <2>2. TrailsRecordedIn(fast, audited, op)
    BY <2>1, TrailsInTables
  <2> QED BY <1>2, <2>2, RowsStayRecorded, CopiesStayRecorded DEF TrailsRecordedIn
<1>3. ASSUME NEW p \in Procs, Restart(p) PROVE restarts' # 0
  BY <1>3 DEF Restart, IInv, TypeOK
<1>4. CASE UNCHANGED vars
  BY <1>1, <1>4, TrailsInTables DEF vars
<1> QED BY <1>1, <1>2, <1>3, <1>4 DEF Next

LEMMA InitRecordInv == Init => RecordInv
BY InitProgress, IdleOk DEF Init, RecordInv, AuditInv, TrailsRecorded, Exists, NoRow

\* While no process has died, every write of a fast entry is in the audit log
\* once its request is over, in any number of processes, although stale rows are
\* written back.
THEOREM AllWritesAudited == Spec => []WritesAudited
<1>1. RecordInv => WritesAudited
  BY DEF RecordInv, AuditInv, TrailsRecorded, Recorded, WritesAudited
<1> QED BY <1>1, InitRecordInv, NextRecordInv, PTL DEF Spec

----------------------------------------------------------------------------
(* One request at a time: what a request has read is still the row. *)

KeptInv == IInv /\ TrailInv

\* Undisturbed, for a given table of fast entries.
UndisturbedIn(table, o) ==
    /\ o.pc \in {"write", "embed", "mark"} => o.row = table[Source(o)]
    /\ o.pc = "audit" => Event(o) \in table[Source(o)].trail

LEMMA TrailsGrow ==
    ASSUME KeptInv, NEW r \in Requests, Begin(r) \/ Step(r), NEW f \in Fast
    PROVE  /\ fast[f].trail \subseteq fast'[f].trail
           /\ fast'[f] # fast[f] => fast'[f].status # "absent"
           /\ (WriteRow(r) \/ MarkPromoted(r)) =>
                 Event(op[r]) \in fast'[Source(op[r])].trail
<1> USE DEF KeptInv
<1>0. /\ op[r] \in Op /\ WellPlaced(op[r]) /\ fast \in [Fast -> Row]
      /\ op[r].pc \in AtSource => Source(op[r]) \in Fast
      /\ Undisturbed(op[r])
  BY SlotTyped DEF IInv, TypeOK, TrailInv
<1>1. CASE LogFast(r)
  <2>1. PICK g \in Fast, status \in LoggedStatuses, resolved \in ResolvedArgs :
           /\ ~Exists(g)
           /\ fast' = [fast EXCEPT ![g] = [NoRow EXCEPT !.status = status,
                                                        !.resolved = (resolved = TRUE)]]
           /\ op' = [op EXCEPT ![r] = [Idle EXCEPT !.pc = "logged", !.entry = g]]
    BY <1>1 DEF LogFast
  <2>2. fast[g].trail = {} /\ op[r].pc = "idle"
    BY <1>1, <2>1 DEF TrailInv, LogFast
  <2>3. status # "absent"
    BY DEF FastAssumption
  <2>4. f # g => fast'[f] = fast[f]
    BY <1>0, <2>1
  <2>5. f = g => fast'[f].trail = {} /\ fast'[f].status = status
    BY <1>0, <2>1 DEF NoRow
  <2> QED BY <2>2, <2>3, <2>4, <2>5 DEF WriteRow, MarkPromoted
<1>2. CASE WriteRow(r) \/ MarkPromoted(r)
  <2>1. /\ op[r].pc \in {"write", "mark"} /\ op[r].pc \in AtSource /\ op[r].row \in Row
        /\ op[r].row = fast[Source(op[r])]
    BY <1>0, <1>2 DEF WriteRow, MarkPromoted, AtSource, Op, Undisturbed
  <2>2. /\ \A g \in Fast : g # Source(op[r]) => fast'[g] = fast[g]
        /\ fast'[Source(op[r])].trail = op[r].row.trail \cup {Event(op[r])}
        /\ fast'[Source(op[r])].status # "absent"
    <3>1. CASE WriteRow(r)
      <4>1. Event(op[r]) = ActionOn(op[r])
        BY <1>0, <3>1 DEF WriteRow, WellPlaced, Event
      <4> QED BY <1>0, <2>1, <3>1, <4>1 DEF WriteRow, Row
    <3>2. CASE MarkPromoted(r)
      <4>1. Event(op[r]) = op[r].strong
        BY <1>0, <3>2 DEF MarkPromoted, WellPlaced, Event
      <4> QED BY <1>0, <2>1, <3>2, <4>1 DEF MarkPromoted, Row
    <3> QED BY <1>2, <3>1, <3>2
  <2> QED BY <2>1, <2>2
<1>3. CASE fast' = fast /\ ~WriteRow(r) /\ ~MarkPromoted(r)
  BY <1>3
<1>4. LogFast(r) \/ WriteRow(r) \/ MarkPromoted(r) \/ fast' = fast
  BY DEF Begin, Step, BeginCall, Prepare, BeginApply, AuditLog, ReadRow, PersistStrong,
         Audit, AbortPromotion, Resolve, Finish
<1> QED BY <1>1, <1>2, <1>3, <1>4

LEMMA AuditedStaysInTrail ==
    ASSUME KeptInv, NEW r \in Requests, Begin(r) \/ Step(r), NEW f \in Fast
    PROVE  audited'[f] \subseteq fast'[f].trail \cup {"log"}
<1> USE DEF KeptInv
<1>1. audited[f] \subseteq fast[f].trail \cup {"log"}
  BY DEF TrailInv, TrailKeepsAudited
<1>2. audited'[f] \subseteq audited[f] \cup fast[f].trail \cup {"log"}
  <2>1. audited \in [Fast -> SUBSET Events] /\ Undisturbed(op[r])
    BY DEF IInv, TypeOK, TrailInv
  <2>2. CASE Audit(r)
    <3>1. /\ audited' = [audited EXCEPT ![Source(op[r])] = @ \cup {Event(op[r])}]
          /\ op[r].pc = "audit"
      BY <2>2 DEF Audit, Event
    <3>2. Event(op[r]) \in fast[Source(op[r])].trail
      BY <2>1, <3>1 DEF Undisturbed
    <3> QED BY <2>1, <3>1, <3>2
  <2>3. CASE AuditLog(r)
    BY <2>1, <2>3 DEF AuditLog
  <2>4. CASE audited' = audited
    BY <2>4
  <2> QED BY <2>2, <2>3, <2>4
          DEF Begin, Step, LogFast, BeginCall, Prepare, BeginApply, ReadRow, WriteRow,
              PersistStrong, MarkPromoted, AbortPromotion, Resolve, Finish
<1> QED BY <1>1, <1>2, TrailsGrow

LEMMA StaysUndisturbed ==
    ASSUME KeptInv, NEW r \in Requests, Begin(r) \/ Step(r)
    PROVE  UndisturbedIn(fast', op'[r])
<1> USE DEF KeptInv
<1>0. /\ op[r] \in Op /\ WellPlaced(op[r]) /\ op \in [Requests -> Op]
      /\ op[r].pc \in AtSource => Source(op[r]) \in Fast
      /\ Undisturbed(op[r]) /\ Idle.pc = "idle"
  BY SlotTyped, IdleOk DEF IInv, TypeOK, TrailInv
<1>1. op'[r].pc \notin {"write", "embed", "mark", "audit"} => UndisturbedIn(fast', op'[r])
  BY DEF UndisturbedIn
<1>2. CASE ReadRow(r)
  <2> DEFINE row == fast[Source(op[r])]
  <2>1. op[r].pc = "call" /\ op[r].pc \in AtSource /\ fast' = fast
    BY <1>2 DEF ReadRow, AtSource
  <2>2. AfterSource(op[r]).pc \notin {"write", "embed", "mark", "audit"}
    BY <1>0, <2>1, AfterSourceOk DEF OnItsWay
  <2>3. CASE op'[r] = AfterSource(op[r])
    BY <1>1, <2>2, <2>3
  <2>4. CASE op'[r] # AfterSource(op[r])
    <3>1. PICK pc \in {"write", "embed"} : op'[r] = [op[r] EXCEPT !.pc = pc, !.row = row]
      BY <1>0, <1>2, <2>4 DEF ReadRow
    <3>2. op'[r].pc = pc /\ op'[r].row = row /\ Source(op'[r]) = Source(op[r])
      BY <1>0, <3>1 DEF Op, Source
    <3> QED BY <2>1, <3>2 DEF UndisturbedIn
  <2> QED BY <2>3, <2>4
<1>3. CASE PersistStrong(r)
  <2>1. PICK s \in Strong : op' = [op EXCEPT ![r].pc = "mark", ![r].strong = s]
    BY <1>3 DEF PersistStrong
  <2>2. /\ op'[r].pc = "mark" /\ op'[r].row = op[r].row /\ Source(op'[r]) = Source(op[r])
        /\ op[r].pc = "embed" /\ fast' = fast
    BY <1>0, <1>3, <2>1 DEF PersistStrong, Op, Source
  <2> QED BY <1>0, <2>2 DEF UndisturbedIn, Undisturbed
<1>4. CASE WriteRow(r) \/ MarkPromoted(r)
  <2>1. op' = [op EXCEPT ![r].pc = "audit"] /\ op[r].pc \in AtSource
    BY <1>4 DEF WriteRow, MarkPromoted, AtSource
  <2>2. op'[r].pc = "audit" /\ Source(op'[r]) = Source(op[r]) /\ Event(op'[r]) = Event(op[r])
    BY <1>0, <2>1 DEF Op, Source, Event, ActionOn
  <2>3. Event(op[r]) \in fast'[Source(op[r])].trail
    BY <1>0, <1>4, <2>1, TrailsGrow
  <2> QED BY <2>2, <2>3 DEF UndisturbedIn
<1>5. CASE Audit(r)
  <2>1. op[r].pc \in AtSource /\ op'[r] = AfterSource(op[r])
    BY <1>0, <1>5 DEF Audit, AtSource
  <2> QED BY <1>0, <1>1, <2>1, AfterSourceOk DEF OnItsWay
<1>6. CASE Resolve(r)
  <2>1. op[r].pc = "resolve" /\ op[r].n \in DOMAIN op[r].plan
    BY <1>0, <1>6 DEF Resolve, WellPlaced
  <2>2. AfterDecision(op[r]).pc \notin {"write", "embed", "mark", "audit"}
    BY <1>0, <2>1, AfterDecisionOk DEF OnItsWay
  <2>3. op'[r] \in {Idle, AfterDecision(op[r]), [op[r] EXCEPT !.pc = "call"]}
    BY <1>0, <1>6 DEF Resolve
  <2>4. [op[r] EXCEPT !.pc = "call"].pc = "call"
    BY <1>0 DEF Op
  <2> QED BY <1>0, <1>1, <2>2, <2>3, <2>4
<1>7. CASE AuditLog(r) \/ AbortPromotion(r) \/ Finish(r)
  <2>1. op'[r] = Idle
    BY <1>0, <1>7 DEF AuditLog, AbortPromotion, Finish
  <2> QED BY <1>0, <1>1, <2>1
<1>8. CASE Begin(r)
  <2>1. CASE LogFast(r)
    BY <1>0, <1>1, <2>1 DEF LogFast, Idle
  <2>2. CASE BeginCall(r)
    BY <1>0, <1>1, <2>2 DEF BeginCall, Idle
  <2>3. CASE Prepare(r)
    BY <1>0, <1>1, <2>3 DEF Prepare
  <2>4. CASE BeginApply(r)
    BY <1>0, <1>1, <2>4 DEF BeginApply, Idle
  <2> QED BY <1>8, <2>1, <2>2, <2>3, <2>4 DEF Begin
<1> QED BY <1>2, <1>3, <1>4, <1>5, <1>6, <1>7, <1>8 DEF Step

\* Promoting, for given tables.
PromotingIn(table, made, ops, s) ==
    \/ s \in table[made[s]].trail
    \/ \E r \in Requests : ops[r].pc = "mark" /\ ops[r].strong = s

LEMMA StaysPromoting ==
    ASSUME KeptInv, NEW r \in Requests, Begin(r) \/ Step(r), NEW s \in Strong,
           origin'[s] # None, origin[s] # None => PromotingIn(fast, origin, op, s)
    PROVE  PromotingIn(fast', origin', op', s)
<1> USE DEF KeptInv
<1>0. /\ op[r] \in Op /\ WellPlaced(op[r]) /\ op \in [Requests -> Op]
      /\ origin \in [Strong -> Fast \cup {None}]
  BY SlotTyped DEF IInv, TypeOK
<1>1. \A q \in Requests \ {r} : op'[q] = op[q]
  BY RequestMoves
<1>2. CASE PersistStrong(r) /\ origin'[s] # origin[s]
  <2>1. PICK t \in Strong : /\ origin' = [origin EXCEPT ![t] = Source(op[r])]
                            /\ op' = [op EXCEPT ![r].pc = "mark", ![r].strong = t]
    BY <1>2 DEF PersistStrong
  <2>2. s = t /\ op'[r].pc = "mark" /\ op'[r].strong = s
    BY <1>0, <1>2, <2>1 DEF Op
  <2> QED BY <2>2 DEF PromotingIn
<1>3. CASE origin'[s] = origin[s]
  <2>1. origin[s] \in Fast /\ PromotingIn(fast, origin, op, s)
    BY <1>0, <1>3
  <2>2. CASE s \in fast[origin[s]].trail
    BY <1>3, <2>1, <2>2, TrailsGrow DEF PromotingIn
  <2>3. CASE op[r].pc = "mark" /\ op[r].strong = s
    <3>1. MarkPromoted(r)
      BY <2>3 DEF Begin, Step, LogFast, BeginCall, Prepare, BeginApply, AuditLog, ReadRow,
                  WriteRow, PersistStrong, Audit, AbortPromotion, Resolve, Finish
    <3>2. Event(op[r]) = s /\ Source(op[r]) = origin[s]
      BY <1>0, <2>3 DEF WellPlaced, Event, IInv, CopiesOwnTarget
    <3> QED BY <1>3, <2>1, <3>1, <3>2, TrailsGrow DEF PromotingIn
  <2>4. CASE \E q \in Requests \ {r} : op[q].pc = "mark" /\ op[q].strong = s
    BY <1>1, <2>4 DEF PromotingIn
  <2> QED BY <2>1, <2>2, <2>3, <2>4 DEF PromotingIn
<1>4. PersistStrong(r) \/ origin' = origin
  BY DEF Begin, Step, LogFast, BeginCall, Prepare, BeginApply, AuditLog, ReadRow,
         WriteRow, MarkPromoted, Audit, AbortPromotion, Resolve, Finish
<1> QED BY <1>2, <1>3, <1>4

LEMMA NextKeptInv ==
    ASSUME OneAtATime
    PROVE  KeptInv /\ [Next]_vars => KeptInv'
<1> SUFFICES ASSUME KeptInv, [Next]_vars PROVE TrailInv'
  BY NextIInv DEF KeptInv
<1>1. TrailInv' <=>
         /\ \A f \in Fast : audited'[f] \subseteq fast'[f].trail \cup {"log"}
         /\ \A f \in Fast : fast'[f].status = "absent" => fast'[f].trail = {}
         /\ \A r \in Requests : UndisturbedIn(fast', op'[r])
         /\ restarts' = 0 => \A s \in Strong :
                                origin'[s] # None => PromotingIn(fast', origin', op', s)
  BY DEF TrailInv, TrailKeepsAudited, Exists, Undisturbed, UndisturbedIn, Promoting, PromotingIn
<1>2. /\ \A f \in Fast : audited[f] \subseteq fast[f].trail \cup {"log"}
      /\ \A f \in Fast : fast[f].status = "absent" => fast[f].trail = {}
      /\ \A r \in Requests : UndisturbedIn(fast, op[r])
      /\ restarts = 0 => \A s \in Strong : origin[s] # None => PromotingIn(fast, origin, op, s)
  BY DEF KeptInv, TrailInv, TrailKeepsAudited, Exists, Undisturbed, UndisturbedIn, Promoting,
         PromotingIn
<1>3. ASSUME NEW r \in Requests, Begin(r) \/ Step(r) PROVE TrailInv'
  <2>1. \A f \in Fast : audited'[f] \subseteq fast'[f].trail \cup {"log"}
    BY <1>3, AuditedStaysInTrail
  <2>2. \A f \in Fast : fast'[f].status = "absent" => fast'[f].trail = {}
    BY <1>2, <1>3, TrailsGrow
  <2>3. \A q \in Requests : UndisturbedIn(fast', op'[q])
    BY <1>3, StaysUndisturbed DEF OneAtATime
  <2>4. restarts' = restarts
    BY <1>3 DEF Begin, Step, LogFast, BeginCall, Prepare, BeginApply, AuditLog, ReadRow,
                WriteRow, PersistStrong, MarkPromoted, Audit, AbortPromotion, Resolve, Finish
  <2>5. restarts' = 0 => \A s \in Strong :
                            origin'[s] # None => PromotingIn(fast', origin', op', s)
    BY <1>2, <1>3, <2>4, StaysPromoting
  <2> QED BY <1>1, <2>1, <2>2, <2>3, <2>5
<1>4. ASSUME NEW p \in Procs, Restart(p) PROVE TrailInv'
  <2>1. /\ \A q \in Requests : op'[q] = Idle \/ op'[q] = op[q]
        /\ restarts' # 0 /\ UNCHANGED <<fast, audited>>
    BY <1>4 DEF Restart, KeptInv, IInv, TypeOK
  <2>2. UndisturbedIn(fast, Idle)
    BY IdleOk DEF UndisturbedIn
  <2> QED BY <1>1, <1>2, <2>1, <2>2
<1>5. CASE UNCHANGED vars
  BY <1>1, <1>2, <1>5 DEF vars
<1> QED BY <1>3, <1>4, <1>5 DEF Next

LEMMA InitKeptInv == Init => KeptInv
BY InitIInv, IdleOk
   DEF Init, KeptInv, TrailInv, TrailKeepsAudited, Exists, Undisturbed, NoRow

\* With one request at a time every action that is audited stays in the trail of
\* its entry, although each writes back the whole row, and after crashes.
THEOREM OneRequestKeepsTrail ==
    ASSUME OneAtATime
    PROVE  Spec => []TrailKeepsAudited
<1>1. KeptInv => TrailKeepsAudited
  BY DEF KeptInv, TrailInv
<1> QED BY <1>1, InitKeptInv, NextKeptInv, PTL DEF Spec

\* With one request at a time, while no process has died, a strong entry made
\* from a fast one is recorded by it once the promotion is over.
THEOREM OneRequestMarksSource ==
    ASSUME OneAtATime
    PROVE  Spec => []PromotionMarksSource
<1>1. KeptInv => PromotionMarksSource
  BY DEF KeptInv, TrailInv, Promoting, PromotionMarksSource
<1> QED BY <1>1, InitKeptInv, NextKeptInv, PTL DEF Spec
=============================================================================
