------------------------ MODULE MCEmbeddingVersions ------------------------
(* Instances of EmbeddingVersions: two requests of one server process. *)
EXTENDS EmbeddingVersions, TLC

CONSTANTS a, b, e1, e2, r1, r2, p1

MCModels == {a, b}
TwoEntries == {e1, e2}
OneProcess == [r \in Requests |-> p1]

\* No action tells two entries apart.
EntrySymmetry == Permutations(Entries)
=============================================================================
