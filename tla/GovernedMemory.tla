--------------------------- MODULE GovernedMemory ---------------------------
(***************************************************************************)
(* What the strong memory promises about its entries, as if every call     *)
(* took effect in single steps: a text enters only when no near fact is    *)
(* stored, an entry keeps its text, type, owner and vector for good, an    *)
(* invalidation is final, only active entries are promoted, a marker       *)
(* explains an entry that is already out to the readers of that entry, and *)
(* a summary consolidates promoted, active entries.  The calls themselves, *)
(* their awaits and the audit log are not part of the promise.             *)
(***************************************************************************)
CONSTANTS
    Entries,
    Contents,
    Near,     \* pairs of contents that count as duplicates
    Agents,
    None

VARIABLE memory

Absent(e) == memory[e].status = "absent"
Active(e) == memory[e].status = "active"

\* No active fact is near the content.
Novel(content) ==
    ~ \E e \in Entries : /\ Active(e)
                         /\ memory[e].type = "fact"
                         /\ memory[e].vec
                         /\ <<memory[e].content, content>> \in Near

Empty == [status |-> "absent", type |-> "fact", content |-> None, owner |-> None,
          promoted |-> FALSE, vec |-> FALSE, links |-> {}]

Init == memory = [e \in Entries |-> Empty]

\* An add or a row of an import, which brings status, type and tier along.
Store(e) ==
    /\ Absent(e)
    /\ \E content \in Contents :
         /\ Novel(content)
         /\ \E status \in {"active", "invalidated"}, type \in {"fact", "invalidated"},
               owner \in Agents \cup {None}, promoted \in BOOLEAN :
              memory' = [memory EXCEPT ![e] =
                           [status |-> status, type |-> type, content |-> content,
                            owner |-> owner, promoted |-> promoted, vec |-> TRUE,
                            links |-> {}]]

Invalidate(e) ==
    /\ ~Absent(e)
    /\ memory' = [memory EXCEPT ![e].status = "invalidated"]

Promote(e) ==
    /\ Active(e)
    /\ memory' = [memory EXCEPT ![e].promoted = TRUE]

\* The reason of an invalidation, for those who may read what was invalidated.
Mark(m, e) ==
    /\ Absent(m)
    /\ memory[e].status = "invalidated"
    /\ \E reason \in Contents :
         memory' = [memory EXCEPT ![m] =
                      [Empty EXCEPT !.status = "active", !.type = "invalidated",
                                    !.content = reason, !.owner = memory[e].owner,
                                    !.promoted = TRUE, !.links = {e}]]

Summarise(m) ==
    /\ Absent(m)
    /\ \E content \in Contents, sources \in SUBSET {e \in Entries : Active(e)} :
         /\ sources # {}
         /\ \A e \in sources : memory[e].promoted
         /\ memory' = [memory EXCEPT ![m] =
                         [Empty EXCEPT !.status = "active", !.content = content,
                                       !.promoted = TRUE, !.links = sources]]

Next ==
    \E e \in Entries :
        \/ Store(e)
        \/ Invalidate(e)
        \/ Promote(e)
        \/ Summarise(e)
        \/ \E m \in Entries : Mark(m, e)

Spec == Init /\ [][Next]_memory
=============================================================================
