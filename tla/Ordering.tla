------------------------------- MODULE Ordering -------------------------------
(***************************************************************************)
(* Sorting and filtering of sequences, as enumerations of positions: the   *)
(* k-th place goes to the position with k - 1 others before it.  These     *)
(* are first-order where SelectSeq and SortSeq take an operator, so that   *)
(* facts about them can be stated once and proved.                         *)
(***************************************************************************)
EXTENDS Integers, Sequences, FiniteSets

\* The sequence itself: TLC evaluates its elements here, and then only once.
Evaluated(s) == <<>> \o s

\* The elements of s at the positions I, in an order of I (a set of pairs).
Arranged(s, I, before) ==
    [k \in 1..Cardinality(I) |->
        s[CHOOSE i \in I : Cardinality({j \in I : <<j, i>> \in before}) = k - 1]]

\* A list comprehension with a condition: what stands at the positions I.
Selected(s, I) == Arranged(s, I, {p \in I \X I : p[1] < p[2]})

\* The first of two sequences of numbers has the greater number first.
LexGreater(s, t) == \E i \in DOMAIN s : s[i] > t[i] /\ \A j \in 1..(i - 1) : s[j] = t[j]

\* sorted(..., reverse=True) by ranks, which is stable: what ties keeps its order.
RankedBefore(ranks, i, j) ==
    LexGreater(ranks[i], ranks[j]) \/ (ranks[i] = ranks[j] /\ i < j)

SortedBy(ranks, s) ==
    LET r == Evaluated(ranks) IN
    Arranged(s, DOMAIN s, {p \in (DOMAIN s) \X (DOMAIN s) : RankedBefore(r, p[1], p[2])})
===============================================================================
