------------------------- MODULE ImportanceScoring -------------------------
(***************************************************************************)
(* The scores of service/importance_scoring.py, as integers in units of a  *)
(* ten-thousandth: the importance of a strong entry, and the selection     *)
(* score of a fast entry or of a cluster of them.  Quotients are rounded   *)
(* down where the code rounds to six digits, and halves of an importance   *)
(* are rounded up.                                                         *)
(***************************************************************************)
EXTENDS Integers, Sequences, FiniteSets, Functions

CONSTANT None   \* a signal that was not given

Unit == 10000

Score == 0..Unit

\* _clamp01
Clamp(x) == IF x < 0 THEN 0 ELSE IF x > Unit THEN Unit ELSE x

Share(n, ceiling) == Clamp((n * Unit) \div ceiling)

Times(x, y) == (x * y) \div Unit

Greater(x, y) == IF x > y THEN x ELSE y
Smaller(x, y) == IF x < y THEN x ELSE y

----------------------------------------------------------------------------
(* The importance of a strong entry: what its writer says of it *)

Payload == [confidence   : Score \cup {None},
            disagreement : Score \cup {None},
            rating       : Score \cup {None},
            steps        : Nat,       \* tool_steps
            corrections  : Nat,       \* correction_count
            level        : Nat,       \* inference_level
            negative     : Score]     \* negative_impact

\* _compute_surprise
Surprise(p) == IF p.confidence # None THEN Unit - p.confidence
               ELSE IF p.disagreement # None THEN p.disagreement
               ELSE IF p.rating # None THEN p.rating
               ELSE Unit \div 2

\* _compute_inference
Inference(p) == Share(Smaller(p.steps, 10) + Smaller(p.corrections, 5) + Smaller(p.level, 5), 20)

\* The vectors of the neighbours were compared, or None: the check failed.
NoveltySignal(novelty) == IF novelty = None THEN 0 ELSE novelty

\* build_importance_metadata, a number of 0..100.
ImportanceScore(p, novelty) ==
    LET n == NoveltySignal(novelty)
        base == IF p.confidence # None
                THEN 45 * Surprise(p) + 35 * n + 20 * Inference(p)
                ELSE 20 * Surprise(p) + 45 * n + 35 * Inference(p) IN
    Smaller(100, (base + 25 * p.negative + Unit \div 2) \div Unit)

ImportanceClass(score) == IF score >= 70 THEN "high" ELSE IF score >= 40 THEN "medium" ELSE "low"

----------------------------------------------------------------------------
(* The selection score of fast memory *)

\* What the metadata of a fast entry may give.
Meta == [importance : Score \cup {None}, novelty : Score \cup {None},
         confidence : Score \cup {None}, impact  : Score \cup {None},
         noise      : Score \cup {None}]

Weight == [importance |-> 45, novelty |-> 25, confidence |-> 20, impact |-> 10]

\* _fast_static_score
FastStaticScore(meta) ==
    LET given == {s \in DOMAIN Weight : meta[s] # None}
        total == SumFunction([s \in given |-> meta[s] * Weight[s]]) IN
    IF given = {} THEN 3500 ELSE Clamp(total \div SumFunctionOnSet(Weight, given))

\* log1p(n - 1) / log1p(7)
LogShare == <<0, 3333, 5283, 6667, 7740, 8617, 9358, Unit>>

\* _fast_frequency_score
FastFrequencyScore(n) == LogShare[Greater(1, Smaller(n, 8))]

Mean(signals) == SumFunction(signals) \div Len(signals)

\* _fast_quality_score
FastQualityScore(signals, n) ==
    LET base == IF n > 1 THEN 3500 ELSE 0 IN
    IF signals = <<>> THEN base ELSE Clamp(Greater(base, Mean(signals)))

\* _fast_noise_penalty
FastNoisePenalty(meta, signals) ==
    IF meta.noise # None THEN Clamp(meta.noise)
    ELSE IF signals = <<>> THEN 0 ELSE Clamp(Mean(signals))

Retry(event) == IF event = "retry" THEN <<1500>> ELSE <<>>

Alpha == 6500

\* recurrence_boost
RecurrenceBoost(static, quality, noise, n) ==
    Clamp(Times(Times(Alpha, Times(FastFrequencyScore(n), quality)),
                Times(Unit - static, Unit - noise)))

\* build_fast_selection_metadata: the static score, and what the recurrence adds.
SelectionScore(static, quality, noise, n) ==
    Clamp(static + RecurrenceBoost(static, quality, noise, n))
=============================================================================
