------------------------- MODULE PersistencePolicy -------------------------
(***************************************************************************)
(* The write policy of the strong memory, which denies by default: a list  *)
(* of rules of which the first that matches a payload decides.  The word   *)
(* lists are abstracted to the signals they detect: the content, with its  *)
(* context and tags, gives any set of signals at once.                     *)
(***************************************************************************)
EXTENDS Naturals, Sequences, FiniteSetsExt

\* What the policy looks for, in the order of its tests.  "architecture" is
\* the requested type "decision" too; "semantic" includes the 25 characters.
SignalOrder == <<"empty", "small_talk", "noise", "code", "progress", "transient",
                 "debug", "working", "preference", "architecture", "semantic">>

Signals == {SignalOrder[i] : i \in DOMAIN SignalOrder}

Categories == {"noise", "small_talk", "code_snippet", "task_progress",
               "transient_context", "working_memory", "stable_preference",
               "architectural_decision", "semantic_memory"}

Decision == [accepted : BOOLEAN, category : Categories]

Deny(category)  == [accepted |-> FALSE, category |-> category]
Admit(category) == [accepted |-> TRUE, category |-> category]

Rules == <<Deny("noise"), Deny("small_talk"), Deny("noise"), Deny("code_snippet"),
           Deny("task_progress"), Deny("transient_context"), Deny("working_memory"),
           Deny("working_memory"), Admit("stable_preference"),
           Admit("architectural_decision"), Admit("semantic_memory")>>

\* Deviation: the rules that admit are tried first.
ClassifyLast(signals) ==
    LET hits == {i \in DOMAIN Rules : SignalOrder[i] \in signals} IN
    IF hits = {} THEN Deny("working_memory") ELSE Rules[Max(hits)]

\* classify_persistence of a payload that shows these signals.
Classify(signals) ==
    LET hits == {i \in DOMAIN Rules : SignalOrder[i] \in signals} IN
    IF hits = {} THEN Deny("working_memory") ELSE Rules[Min(hits)]
=============================================================================
