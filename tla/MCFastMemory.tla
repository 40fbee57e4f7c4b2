---------------------------- MODULE MCFastMemory ----------------------------
(* Instances of FastMemory: one request at a time, two of one process. *)
EXTENDS FastMemory, TLC

CONSTANTS f1, f2, s1, s2, i1, r1, r2, p1

Decided(action, sources) ==
    [action |-> action, sources |-> sources, resolved |-> FALSE]

\* A cluster promoted to one strong entry, and plans of two decisions.
MCPayloads == {<<Decided("promote", <<f1, f2>>)>>,
               <<Decided("discard", <<f2>>), Decided("promote", <<f1>>)>>,
               <<Decided("summarize", <<f2, f1>>), Decided("review", <<f1>>)>>}

\* For the instances with two requests, and for those with one entry.
OneEntryPayload == {<<Decided("promote", <<f1>>)>>}
MixedPayload == {<<Decided("review", <<f1>>), Decided("promote", <<f1, f2>>)>>}

OneProcess == [r \in Requests |-> p1]

\* No action tells two strong ids apart, nor two requests of one process.
StrongSymmetry == Permutations(Strong)
ProcessSymmetry == Permutations(Strong) \cup Permutations(Requests)
=============================================================================
