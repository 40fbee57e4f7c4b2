----------------------------- MODULE FastMemory -----------------------------
(***************************************************************************)
(* Fast memory: episodic entries, the calls that distil them (summarize,   *)
(* discard, promote to a strong entry), and the runs that record an agent's *)
(* decisions (prepare, then apply as a dry run or for real).               *)
(*                                                                         *)
(* Granularity.  A store call is one transaction and one step.  A request  *)
(* keeps the event loop of its process from await to await (CanRun); the   *)
(* only await is the embedding call of promote_fast.  Every mutation reads *)
(* a whole row, changes its copy and writes the whole row back.            *)
(*                                                                         *)
(* A direct call is a plan of one decision with one source; the apply of a *)
(* run executes a plan sent by the client.  Events stand for the items of  *)
(* a row's distillation trail and for its rows in audit_log; a promotion   *)
(* is named by the strong entry it created.  The audit rows about runs and *)
(* strong entries are left out: nothing here reads them.                   *)
(***************************************************************************)
EXTENDS Naturals, Sequences

CONSTANTS
    Fast,            \* ids of fast_memory_entries
    Strong,          \* ids of the strong entries promote_fast creates
    Runs,            \* ids of fast_memory_distillation_runs
    Procs,           \* server and CLI processes on the same database
    Requests,        \* request slots, each served by one process
    Home,            \* the process that serves a request slot
    LoggedStatuses,  \* values clients pass as distillation_status
    ResolvedArgs,    \* values clients pass as resolved; None: left out
    Payloads,        \* the decision lists clients apply
    MaxRestarts,     \* bound on the restarts of the processes
    None

Actions == {"summarize", "discard", "promote", "review"}

Decision == [action : Actions, sources : Seq(Fast) \ {<<>>}, resolved : BOOLEAN \cup {None}]

ASSUME FastAssumption ==
    /\ None \notin Fast /\ None \notin Strong /\ None \notin Runs /\ None \notin BOOLEAN
    /\ Strong \cap {"log", "summarize", "discard"} = {}
    /\ Home \in [Requests -> Procs]
    /\ LoggedStatuses \subseteq {"pending", "summarized", "promoted", "discarded"}
    /\ ResolvedArgs \subseteq BOOLEAN \cup {None}
    /\ \A p \in Payloads : p \in Seq(Decision) /\ p # <<>>
    /\ MaxRestarts \in Nat

VARIABLES
    fast,     \* table fast_memory_entries
    origin,   \* strong entries: the fast entry in fast_memory_origin
    runs,     \* table fast_memory_distillation_runs
    audited,  \* table audit_log: the events recorded about a fast entry
    op,       \* what each request slot is doing, with its local variables
    restarts

vars == <<fast, origin, runs, audited, op, restarts>>

----------------------------------------------------------------------------
(* Types *)

Events == {"log", "summarize", "discard"} \cup Strong

Row == [status   : {"absent", "pending", "summarized", "promoted", "discarded"},
        target   : Strong \cup {None},   \* metadata.promoted_entry_id
        resolved : BOOLEAN,
        trail    : SUBSET Events]        \* metadata.fast_memory_distillation

NoRow == [status |-> "absent", target |-> None, resolved |-> FALSE, trail |-> {}]

Run == [status : {"absent", "prepared", "reviewed", "applied"},
        appliedAt : BOOLEAN]             \* applied_at is set

NoRun == [status |-> "absent", appliedAt |-> FALSE]

DirectPlans == {<<d>> : d \in [action   : Actions \ {"review"},
                               sources  : {<<f>> : f \in Fast},
                               resolved : ResolvedArgs]}

Plans == Payloads \cup DirectPlans \cup {<<>>}

\* Deviation: a call awaits the store between its read and its write.
SyncPointsYielding == {"resolve", "call", "mark", "audit", "logged", "finish"}

\* A request awaits nothing here: it holds the event loop of its process.
SyncPoints == {"resolve", "call", "write", "mark", "audit", "logged", "finish"}

AtSource == {"call", "write", "embed", "mark", "audit"}

Op == [pc     : {"idle", "embed"} \cup SyncPoints,
       plan   : Plans,
       n      : Nat,                     \* the decision under way
       k      : Nat,                     \* the source entry under way
       dry    : BOOLEAN,
       run    : Runs \cup {None},        \* None: a direct call
       copy   : Run,                     \* the run as it was read
       row    : Row,                     \* the fast entry as it was read
       strong : Strong \cup {None},      \* promoted_entry.id, once inserted
       entry  : Fast \cup {None}]        \* the entry log_fast inserted

Idle == [pc |-> "idle", plan |-> <<>>, n |-> 1, k |-> 1, dry |-> FALSE, run |-> None,
         copy |-> NoRun, row |-> NoRow, strong |-> None, entry |-> None]

Source(o) == o.plan[o.n].sources[o.k]

\* What a decision does to its k-th source: the first source of a promotion
\* is promoted, the others are summarized as covered by it.
ActionOn(o) == IF o.plan[o.n].action = "promote" /\ o.k > 1
               THEN "summarize" ELSE o.plan[o.n].action

\* The points at which a decision, a source entry or a run is at hand.
WellPlaced(o) ==
    /\ o.pc \in AtSource \cup {"resolve"} => o.n \in DOMAIN o.plan
    /\ o.pc \in AtSource => /\ o.k \in DOMAIN o.plan[o.n].sources
                            /\ o.plan[o.n].action # "review"
    /\ o.pc = "resolve" => o.k = 1
    /\ o.pc \in {"resolve", "finish"} => o.run # None
    /\ o.pc = "write" => ActionOn(o) # "promote"
    /\ o.pc \in {"embed", "mark"} => ActionOn(o) = "promote"
    /\ o.pc = "mark" \/ (o.pc = "audit" /\ ActionOn(o) = "promote") => o.strong # None
    /\ o.pc = "logged" => o.entry # None

TypeOK ==
    /\ fast \in [Fast -> Row]
    /\ origin \in [Strong -> Fast \cup {None}]
    /\ runs \in [Runs -> Run]
    /\ audited \in [Fast -> SUBSET Events]
    /\ op \in [Requests -> Op]
    /\ \A r \in Requests : WellPlaced(op[r])
    /\ restarts \in 0..MaxRestarts

Init ==
    /\ fast = [f \in Fast |-> NoRow]
    /\ origin = [s \in Strong |-> None]
    /\ runs = [i \in Runs |-> NoRun]
    /\ audited = [f \in Fast |-> {}]
    /\ op = [r \in Requests |-> Idle]
    /\ restarts = 0

----------------------------------------------------------------------------
(* Helpers *)

\* Inside a process only the request that holds the event loop moves.
CanRun(r) == \A q \in Requests : (Home[q] = Home[r] /\ q # r)
                                     => op[q].pc \notin SyncPoints

Exists(f) == fast[f].status # "absent"

\* The resolved flag it sets; promote_fast and a call without one keep the row's.
ResolvedOn(o) ==
    LET wanted == IF o.plan[o.n].action # "promote" THEN o.plan[o.n].resolved
                  ELSE IF o.k > 1 THEN TRUE ELSE None
    IN  IF wanted = None THEN o.row.resolved ELSE wanted

\* Deviation: the run's review decisions go to the tools as well.
AfterDecisionUnfiltered(o) ==
    IF o.run = None THEN Idle
    ELSE IF o.n < Len(o.plan) THEN [o EXCEPT !.pc = "call", !.n = @ + 1, !.k = 1]
    ELSE [o EXCEPT !.pc = "finish"]

\* The decision is done: the direct call returns, the apply goes on.
AfterDecision(o) ==
    IF o.run = None THEN Idle
    ELSE IF o.n < Len(o.plan) THEN [o EXCEPT !.pc = "resolve", !.n = @ + 1, !.k = 1]
    ELSE [o EXCEPT !.pc = "finish"]

AfterSource(o) ==
    LET clean == [o EXCEPT !.row = NoRow, !.strong = None]
    IN  IF o.k < Len(o.plan[o.n].sources)
        THEN [clean EXCEPT !.pc = "call", !.k = @ + 1]
        ELSE AfterDecision(clean)

----------------------------------------------------------------------------
(* log_fast *)

\* The client may pass any distillation_status and resolved flag.
LogFast(r) ==
    /\ CanRun(r)
    /\ op[r].pc = "idle"
    /\ \E f \in Fast, status \in LoggedStatuses, resolved \in ResolvedArgs :
         /\ ~Exists(f)
         /\ fast' = [fast EXCEPT ![f] = [NoRow EXCEPT !.status = status,
                                                      !.resolved = (resolved = TRUE)]]
         /\ op' = [op EXCEPT ![r] = [Idle EXCEPT !.pc = "logged", !.entry = f]]
    /\ UNCHANGED <<origin, runs, audited, restarts>>

AuditLog(r) ==
    /\ op[r].pc = "logged"
    /\ audited' = [audited EXCEPT ![op[r].entry] = @ \cup {"log"}]
    /\ op' = [op EXCEPT ![r] = Idle]
    /\ UNCHANGED <<fast, origin, runs, restarts>>

----------------------------------------------------------------------------
(* summarize_fast, discard_fast, promote_fast *)

\* A direct call of one of the three tools.
BeginCall(r) ==
    /\ CanRun(r)
    /\ op[r].pc = "idle"
    /\ \E plan \in DirectPlans :
         /\ Exists(plan[1].sources[1])
         /\ op' = [op EXCEPT ![r] = [Idle EXCEPT !.pc = "call", !.plan = plan]]
    /\ UNCHANGED <<fast, origin, runs, audited, restarts>>

AlreadyPromoted(row) == row.status = "promoted" /\ row.target # None

\* _get_fast_for_mutation.  promote_fast returns early for an entry that is
\* promoted and names its strong entry; otherwise it awaits the embedding.
ReadRow(r) ==
    /\ op[r].pc = "call"
    /\ LET row == fast[Source(op[r])] IN
       op' = [op EXCEPT ![r] =
                IF ActionOn(@) # "promote" THEN [@ EXCEPT !.pc = "write", !.row = row]
                ELSE IF AlreadyPromoted(row) THEN AfterSource(@)
                ELSE [@ EXCEPT !.pc = "embed", !.row = row]]
    /\ UNCHANGED <<fast, origin, runs, audited, restarts>>

\* summarize_fast and discard_fast write the changed copy back.
WriteRow(r) ==
    /\ op[r].pc = "write"
    /\ fast' = [fast EXCEPT ![Source(op[r])] =
                  [op[r].row EXCEPT
                     !.status = IF ActionOn(op[r]) = "summarize" THEN "summarized"
                                ELSE "discarded",
                     !.resolved = ResolvedOn(op[r]),
                     !.trail = @ \cup {ActionOn(op[r])}]]
    /\ op' = [op EXCEPT ![r].pc = "audit"]
    /\ UNCHANGED <<origin, runs, audited, restarts>>

\* Deviation: a failed insert goes unnoticed.
PersistStrongUnchecked(r) ==
    /\ CanRun(r)
    /\ op[r].pc = "embed"
    /\ \E s \in Strong :
         /\ origin[s] = None
         /\ op' = [op EXCEPT ![r].pc = "mark", ![r].strong = s]
    /\ UNCHANGED <<fast, origin, runs, audited, restarts>>

\* The vector is there: the strong entry and the vector are inserted.
PersistStrong(r) ==
    /\ CanRun(r)
    /\ op[r].pc = "embed"
    /\ \E s \in Strong :
         /\ origin[s] = None
         /\ origin' = [origin EXCEPT ![s] = Source(op[r])]
         /\ op' = [op EXCEPT ![r].pc = "mark", ![r].strong = s]
    /\ UNCHANGED <<fast, runs, audited, restarts>>

\* Deviation: the trail starts anew with the promotion.
MarkPromotedNewTrail(r) ==
    /\ op[r].pc = "mark"
    /\ fast' = [fast EXCEPT ![Source(op[r])] =
                  [op[r].row EXCEPT !.status = "promoted",
                                    !.target = op[r].strong,
                                    !.trail = {op[r].strong}]]
    /\ op' = [op EXCEPT ![r].pc = "audit"]
    /\ UNCHANGED <<origin, runs, audited, restarts>>

\* Deviation: the promotion is left out of the trail.
MarkPromotedUntracked(r) ==
    /\ op[r].pc = "mark"
    /\ fast' = [fast EXCEPT ![Source(op[r])] =
                  [op[r].row EXCEPT !.status = "promoted", !.target = op[r].strong]]
    /\ op' = [op EXCEPT ![r].pc = "audit"]
    /\ UNCHANGED <<origin, runs, audited, restarts>>

\* The copy read before the await is changed and written back.
MarkPromoted(r) ==
    /\ op[r].pc = "mark"
    /\ fast' = [fast EXCEPT ![Source(op[r])] =
                  [op[r].row EXCEPT !.status = "promoted",
                                    !.target = op[r].strong,
                                    !.trail = @ \cup {op[r].strong}]]
    /\ op' = [op EXCEPT ![r].pc = "audit"]
    /\ UNCHANGED <<origin, runs, audited, restarts>>

\* Deviation: the actions of an apply are only audited as a whole.
AuditDirectOnly(r) ==
    /\ op[r].pc = "audit"
    /\ audited' = IF op[r].run # None THEN audited
                  ELSE [audited EXCEPT ![Source(op[r])] =
                          @ \cup {IF ActionOn(op[r]) = "promote" THEN op[r].strong
                                  ELSE ActionOn(op[r])}]
    /\ op' = [op EXCEPT ![r] = AfterSource(@)]
    /\ UNCHANGED <<fast, origin, runs, restarts>>

\* add_audit, in a transaction after the one of the row.
Audit(r) ==
    /\ op[r].pc = "audit"
    /\ audited' = [audited EXCEPT ![Source(op[r])] =
                     @ \cup {IF ActionOn(op[r]) = "promote" THEN op[r].strong
                             ELSE ActionOn(op[r])}]
    /\ op' = [op EXCEPT ![r] = AfterSource(@)]
    /\ UNCHANGED <<fast, origin, runs, restarts>>

\* Deviation: an apply goes on with its next decision.
AbortPromotionContinuing(r) ==
    /\ CanRun(r)
    /\ op[r].pc = "embed"
    /\ op' = [op EXCEPT ![r] = AfterSource(@)]
    /\ UNCHANGED <<fast, origin, runs, audited, restarts>>

\* The embedding fails or the policy rejects the strong entry: the exception
\* ends the whole request, and an apply leaves its run as it was.
AbortPromotion(r) ==
    /\ CanRun(r)
    /\ op[r].pc = "embed"
    /\ op' = [op EXCEPT ![r] = Idle]
    /\ UNCHANGED <<fast, origin, runs, audited, restarts>>

----------------------------------------------------------------------------
(* prepare_fast_distillation and apply_fast_distillation *)

\* The filter of rank_fast_candidates.
Candidates(status, includeResolved) ==
    {f \in Fast : fast[f].status = status /\ (includeResolved \/ ~fast[f].resolved)}

\* Without a candidate prepare returns and creates no run.
Prepare(r) ==
    /\ CanRun(r)
    /\ op[r].pc = "idle"
    /\ \E status \in {"pending", "summarized", "promoted", "discarded"},
          includeResolved \in BOOLEAN : Candidates(status, includeResolved) # {}
    /\ \E i \in Runs :
         /\ runs[i].status = "absent"
         /\ runs' = [runs EXCEPT ![i].status = "prepared"]
    /\ UNCHANGED <<fast, origin, audited, op, restarts>>

\* _resolve_fast_distillation_run: the named run is read, whatever its status,
\* or a new one is inserted.
BeginApply(r) ==
    /\ CanRun(r)
    /\ op[r].pc = "idle"
    /\ \E i \in Runs, plan \in Payloads, dry \in BOOLEAN :
         /\ runs' = IF runs[i].status = "absent"
                    THEN [runs EXCEPT ![i].status = "prepared"] ELSE runs
         /\ op' = [op EXCEPT ![r] = [Idle EXCEPT !.pc = "resolve", !.plan = plan,
                                                 !.dry = dry, !.run = i,
                                                 !.copy = runs'[i]]]
    /\ UNCHANGED <<fast, origin, audited, restarts>>

\* Deviation: only promotions look at dry_run.
ResolveDryPromotions(r) ==
    /\ op[r].pc = "resolve"
    /\ LET d == op[r].plan[op[r].n] IN
       op' = [op EXCEPT ![r] =
                IF \E k \in DOMAIN d.sources : ~Exists(d.sources[k]) THEN Idle
                ELSE IF (@.dry /\ d.action = "promote") \/ d.action = "review"
                     THEN AfterDecision(@)
                ELSE [@ EXCEPT !.pc = "call"]]
    /\ UNCHANGED <<fast, origin, runs, audited, restarts>>

\* _resolve_fast_distillation_entries: an unknown id ends the apply.  A dry
\* run and a needs_review decision change no entry.
Resolve(r) ==
    /\ op[r].pc = "resolve"
    /\ LET d == op[r].plan[op[r].n] IN
       op' = [op EXCEPT ![r] =
                IF \E k \in DOMAIN d.sources : ~Exists(d.sources[k]) THEN Idle
                ELSE IF @.dry \/ d.action = "review" THEN AfterDecision(@)
                ELSE [@ EXCEPT !.pc = "call"]]
    /\ UNCHANGED <<fast, origin, runs, audited, restarts>>

\* Deviation: the outcome of the last call replaces the earlier one.
FinishLatestOnly(r) ==
    /\ op[r].pc = "finish"
    /\ runs' = [runs EXCEPT ![op[r].run] =
                  [status |-> IF op[r].dry THEN "reviewed" ELSE "applied",
                   appliedAt |-> ~op[r].dry]]
    /\ op' = [op EXCEPT ![r] = Idle]
    /\ UNCHANGED <<fast, origin, audited, restarts>>

\* The run as it was read when the apply began is changed and written back.
Finish(r) ==
    /\ op[r].pc = "finish"
    /\ runs' = [runs EXCEPT ![op[r].run] =
                  IF op[r].dry THEN [op[r].copy EXCEPT !.status = "reviewed"]
                  ELSE [op[r].copy EXCEPT !.status = "applied", !.appliedAt = TRUE]]
    /\ op' = [op EXCEPT ![r] = Idle]
    /\ UNCHANGED <<fast, origin, audited, restarts>>

----------------------------------------------------------------------------
\* A process dies between two transactions.
Restart(p) ==
    /\ restarts < MaxRestarts
    /\ restarts' = restarts + 1
    /\ op' = [r \in Requests |-> IF Home[r] = p THEN Idle ELSE op[r]]
    /\ UNCHANGED <<fast, origin, runs, audited>>

Begin(r) == LogFast(r) \/ BeginCall(r) \/ Prepare(r) \/ BeginApply(r)

Step(r) ==
    \/ AuditLog(r)
    \/ ReadRow(r)
    \/ WriteRow(r)
    \/ PersistStrong(r)
    \/ MarkPromoted(r)
    \/ Audit(r)
    \/ AbortPromotion(r)
    \/ Resolve(r)
    \/ Finish(r)

Next ==
    \/ \E r \in Requests : Begin(r) \/ Step(r)
    \/ \E p \in Procs : Restart(p)

Spec == Init /\ [][Next]_vars
----------------------------------------------------------------------------
(* Properties *)

\* A fast entry that names a strong entry names one that exists and was made
\* from it: the strong entry goes in before the mark, across crashes, failed
\* embeddings, overlapping promotions and processes.
TargetIsOwn ==
    \A f \in Fast : fast[f].target # None => origin[fast[f].target] = f

\* A dry run validates a plan and changes neither fast nor strong memory.
DryRunChangesNothing ==
    [][\A r \in Requests :
          (op[r].dry /\ op'[r] # op[r]) => UNCHANGED <<fast, origin>>]_vars

\* When a run becomes applied, every source of its plan that was to be
\* changed is distilled: an apply that failed on the way never says applied.
AppliedMeansDistilled ==
    [][\A r \in Requests :
          (Finish(r) /\ ~op[r].dry) =>
             \A n \in DOMAIN op[r].plan :
                op[r].plan[n].action # "review" =>
                   \A k \in DOMAIN op[r].plan[n].sources :
                      fast[op[r].plan[n].sources[k]].status
                         \in {"summarized", "promoted", "discarded"}]_vars

\* Once a run has an applied_at it keeps it, although an apply writes back a
\* copy that is as old as its first await, and dry runs go on meanwhile.
AppliedTimeKept ==
    [][\A i \in Runs : runs[i].appliedAt => runs'[i].appliedAt]_vars

\* In one process summarize_fast and discard_fast never overwrite a change
\* made since they read the row, also when an apply calls them after an await.
SyncWritesAreFresh ==
    [][\A r \in Requests : WriteRow(r) => op[r].row = fast[Source(op[r])]]_vars

\* Every action that is audited stays in the entry's distillation trail.
TrailKeepsAudited ==
    \A f \in Fast : audited[f] \subseteq fast[f].trail \cup {"log"}

\* While no process has died, every write of a fast entry is in the audit log
\* once its request is over, also when the request failed half way.
WritesAudited ==
    (restarts = 0 /\ \A r \in Requests : op[r].pc \notin {"audit", "logged"}) =>
       \A f \in Fast : Exists(f) => fast[f].trail \cup {"log"} \subseteq audited[f]

\* A strong entry made from a fast one is recorded by it once the promotion is
\* over, while no process has died: promote_fast creates the entry and marks the
\* source.
PromotionMarksSource ==
    restarts = 0 =>
    \A s \in Strong :
       (origin[s] # None /\ \A r \in Requests : op[r].strong # s)
          => s \in fast[origin[s]].trail
----------------------------------------------------------------------------
(* The inductive strengthening of TargetIsOwn, and what is fresh when all    *)
(* requests run in one process.                                             *)

\* One request at a time holds the event loop of a process.
LoopExclusive ==
    \A q, r \in Requests :
        (Home[q] = Home[r] /\ op[q].pc \in SyncPoints /\ op[r].pc \in SyncPoints) => q = r

\* A stale copy of a row may name an older strong entry of the same source;
\* what a promotion is about to record is an entry it has inserted.
CopiesOwnTarget ==
    \A r \in Requests :
        /\ (op[r].pc \in {"write", "embed", "mark"} /\ op[r].row.target # None)
              => origin[op[r].row.target] = Source(op[r])
        /\ op[r].pc = "mark" => origin[op[r].strong] = Source(op[r])

IInv == TypeOK /\ TargetIsOwn /\ LoopExclusive /\ CopiesOwnTarget

\* One process serves every request.
OneHome == \A q, r \in Requests : Home[q] = Home[r]

\* Between two awaits of one process a copy is as good as the row; a dry run
\* never awaits.
FreshCopies ==
    \A r \in Requests :
        /\ op[r].pc = "write" => op[r].row = fast[Source(op[r])]
        /\ op[r].dry => op[r].pc \in {"resolve", "finish"} /\ op[r].copy = runs[op[r].run]
----------------------------------------------------------------------------
(* The inductive strengthening of WritesAudited, DryRunChangesNothing and    *)
(* AppliedMeansDistilled, for any processes.                                *)

\* What is recorded of the source under way.
Event(o) == IF ActionOn(o) = "promote" THEN o.strong ELSE ActionOn(o)

\* An event is in the audit log, or a request is about to put it there.
Recorded(f, e) ==
    \/ e \in audited[f]
    \/ \E r \in Requests : op[r].pc = "audit" /\ Source(op[r]) = f /\ Event(op[r]) = e
    \/ \E r \in Requests : op[r].pc = "logged" /\ op[r].entry = f /\ e = "log"

\* No row, and no copy that may be written back, has a trail without a record.
TrailsRecorded ==
    restarts = 0 =>
    /\ \A f \in Fast : Exists(f) => \A e \in fast[f].trail \cup {"log"} : Recorded(f, e)
    /\ \A r \in Requests : op[r].pc \in {"write", "embed", "mark"} =>
          \A e \in op[r].row.trail : Recorded(Source(op[r]), e)

\* The rest of the strengthening reads the table of fast entries only.
DistilledIn(table, f) == table[f].status \in {"summarized", "promoted", "discarded"}

HandledIn(table, d) ==
    d.action # "review" => \A k \in DOMAIN d.sources : DistilledIn(table, d.sources[k])

\* The decisions of an apply before its n-th are handled.
HandledUpTo(table, o, n) ==
    (o.run # None /\ ~o.dry) =>
        \A m \in DOMAIN o.plan : m < n => HandledIn(table, o.plan[m])

\* Sources are there, and those before the one under way are distilled; a dry
\* run never gets to a source.
ProgressIn(table, o) ==
    /\ o.pc \in AtSource =>
          \A k \in DOMAIN o.plan[o.n].sources :
             /\ table[o.plan[o.n].sources[k]].status # "absent"
             /\ (k < o.k \/ (k = o.k /\ o.pc = "audit"))
                   => DistilledIn(table, o.plan[o.n].sources[k])
    /\ o.dry => o.pc \in {"resolve", "finish"}
    /\ HandledUpTo(table, o, o.n)
    /\ (o.run # None /\ ~o.dry /\ o.pc = "finish") =>
          \A m \in DOMAIN o.plan : HandledIn(table, o.plan[m])

AllProgress == \A r \in Requests : ProgressIn(fast, op[r])

AuditInv == TrailsRecorded /\ AllProgress

----------------------------------------------------------------------------
(* The inductive strengthening of TrailKeepsAudited and PromotionMarksSource, *)
(* for one request at a time.                                               *)

OneAtATime == \A q, r \in Requests : q = r

\* What a request has read or written is still the row.
Undisturbed(o) ==
    /\ o.pc \in {"write", "embed", "mark"} => o.row = fast[Source(o)]
    /\ o.pc = "audit" => Event(o) \in fast[Source(o)].trail

\* A promotion is in the trail of its source, or about to be.
Promoting(s) ==
    \/ s \in fast[origin[s]].trail
    \/ \E r \in Requests : op[r].pc = "mark" /\ op[r].strong = s

TrailInv ==
    /\ TrailKeepsAudited
    /\ \A f \in Fast : ~Exists(f) => fast[f].trail = {}
    /\ \A r \in Requests : Undisturbed(op[r])
    /\ restarts = 0 => \A s \in Strong : origin[s] # None => Promoting(s)
=============================================================================
