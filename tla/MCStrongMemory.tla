--------------------------- MODULE MCStrongMemory ---------------------------
(* Small instances of StrongMemory for TLC. *)
EXTENDS StrongMemory

CONSTANTS e1, e2, e3, f1, c1, c2, c3, a1, a2, p1, p2, r1, r2

\* c1 and c2 are near each other, c3 is not near them.
NearC1C2 == {<<c, c>> : c \in Contents} \cup {<<c1, c2>>, <<c2, c1>>}

OneProcess   == [r \in Requests |-> p1]
TwoProcesses == [r \in Requests |-> IF r = r1 THEN p1 ELSE p2]

OneAgent  == [r \in Requests |-> a1]
TwoAgents == [r \in Requests |-> IF r = r1 THEN a1 ELSE a2]

Filed1(status) == [id |-> f1, type |-> "fact", status |-> status, content |-> c2,
                   owner |-> None, promoted |-> FALSE]

FileOfOne == {<<Filed1("active")>>}
FileOfTwo == {<<Filed1("active")>>, <<Filed1("invalidated"), Filed1("active")>>}

SingleTargets == {<<e>> : e \in Entries}
PairTargets   == {<<e1>>, <<f1, e1>>, <<e1, e1>>}
=============================================================================
