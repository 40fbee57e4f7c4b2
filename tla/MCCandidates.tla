---------------------------- MODULE MCCandidates ----------------------------
(* An instance of Candidates: entries that share a key, that resemble each *)
(* other, and that do not.                                                 *)
EXTENDS Candidates

CONSTANTS a1, a2, b, c

NoMeta == [importance |-> None, novelty |-> None, confidence |-> None, impact |-> None,
           noise |-> None]

Entry(event, tokens, session, selection) ==
    [kind |-> None, area |-> "export", component |-> "csv", feature |-> None,
     entities |-> {"file:csv"}, types |-> {"file"}, outcome |-> FALSE, event |-> event,
     tokens |-> tokens, text |-> tokens[1], session |-> session, day |-> 1, recurrence |-> 1,
     selection |-> selection, meta |-> NoMeta]

\* a1 and a2 have one key, b resembles both and c, and c resembles only b.
LoggedEntries ==
    [e \in {a1, a2, b, c} |->
        CASE e = a1 -> Entry("retry", <<"comma", "quote">>, "s1", None)
          [] e = a2 -> [Entry("retry", <<"comma", "quote">>, "s2", 5000) EXCEPT !.recurrence = 3]
          [] e = b  -> [Entry("incident", <<"quote", "line">>, "s1", None) EXCEPT
                           !.meta.importance = 8000]
          [] e = c  -> [Entry("note", <<"line", "menu", "item">>, None, 6000) EXCEPT
                           !.outcome = TRUE, !.meta.noise = 2000]]
=============================================================================
