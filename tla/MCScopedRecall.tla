--------------------------- MODULE MCScopedRecall ---------------------------
(* Instances of ScopedRecall: two workspaces, a project spelled in two ways. *)
EXTENDS ScopedRecall, TLC

CONSTANTS w1, w2, alpha, Alpha, a1, a2, e1, e2, e3, r1

Lower == [p \in {alpha, Alpha} |-> alpha]

At(w, p, agent) == [workspace |-> w, project |-> p, agent |-> agent]

\* One agent, another one beside it, one in the other workspace.
Canonicals == {At(w1, alpha, a1), At(w1, alpha, a2), At(w2, alpha, a1)}

\* And the first one with its project in capitals.
Spellings == Canonicals \cup {At(w1, Alpha, a1)}

Default == <<w1, alpha>>

\* memory.search of everything, search_inference_memory of one level.
AllOrProject == {Levels, {"project"}}

\* No action tells two entry ids apart.
EntrySymmetry == Permutations(Entries)
=============================================================================
