---------------------- MODULE ImportanceScoring_proofs ----------------------
(***************************************************************************)
(* How the selection score and the importance of an entry depend on their  *)
(* parts, for every value of the parts.  Products and quotients are kept   *)
(* to four lemmas about Times; the theorems compose those.                 *)
(***************************************************************************)
EXTENDS ImportanceScoring, TLAPS

\* A quotient by Unit is the integer below, by its remainder.
LEMMA QuotientBounds ==
  ASSUME NEW z \in Nat
  PROVE  /\ z \div Unit \in Nat
         /\ Unit * (z \div Unit) <= z
         /\ z < Unit * (z \div Unit) + Unit
BY DEF Unit

\* A product of shares is a share, and at most its first factor.
LEMMA TimesScore ==
  ASSUME NEW x \in Score, NEW y \in Score
  PROVE  Times(x, y) \in Score /\ Times(x, y) <= x
<1>1. x \in Nat /\ y \in Nat /\ y <= Unit /\ x <= Unit
  BY DEF Score, Unit
<1>2. x * y \in Nat
  BY <1>1
<1>3. x * y <= x * Unit
  BY <1>1, SMT DEF Unit
<1>4. PICK q \in Nat : q = (x * y) \div Unit /\ Unit * q <= x * y
  BY <1>2, QuotientBounds
<1>5. q <= x
  BY <1>1, <1>2, <1>3, <1>4, SMT DEF Unit
<1> QED BY <1>1, <1>4, <1>5 DEF Times, Score, Unit

\* Times grows with its first factor, and by no more than that factor does.
LEMMA TimesGrows ==
  ASSUME NEW x \in Score, NEW z \in Score, NEW y \in Score, x <= z
  PROVE  /\ Times(x, y) <= Times(z, y)
         /\ Times(z, y) - Times(x, y) <= z - x
<1>1. x \in Nat /\ z \in Nat /\ y \in Nat /\ y <= Unit
  BY DEF Score, Unit
<1>2. PICK d \in Nat : z = x + d
  BY <1>1, z - x \in Nat, z = x + (z - x)
<1>3. z * y = x * y + d * y /\ x * y \in Nat /\ d * y \in Nat /\ z * y \in Nat
  BY <1>1, <1>2
<1>4. d * y <= d * Unit
  BY <1>1, <1>2, SMT DEF Unit
<1>5. PICK q \in Nat : q = (x * y) \div Unit /\ Unit * q <= x * y /\ x * y < Unit * q + Unit
  BY <1>3, QuotientBounds
<1>6. PICK r \in Nat : r = (z * y) \div Unit /\ Unit * r <= z * y /\ z * y < Unit * r + Unit
  BY <1>3, QuotientBounds
<1> HIDE DEF Unit
<1>7. Unit = 10000
  BY DEF Unit
<1>8. PICK a \in Nat, b \in Nat, c \in Nat : a = x * y /\ b = d * y /\ c = z * y
  BY <1>3
<1>9. q <= r /\ r - q <= d
  BY <1>3, <1>4, <1>5, <1>6, <1>7, <1>8, SMT
<1> QED BY <1>1, <1>2, <1>5, <1>6, <1>9 DEF Times

\* The factors of Times may be swapped.
LEMMA TimesCommutes ==
  ASSUME NEW x \in Score, NEW y \in Score
  PROVE  Times(x, y) = Times(y, x)
<1>1. x \in Int /\ y \in Int
  BY DEF Score, Unit
<1>2. x * y = y * x
  BY <1>1
<1> QED BY <1>2 DEF Times

\* Clamp leaves a share alone and is at most Unit.
LEMMA ClampNat ==
  ASSUME NEW x \in Nat
  PROVE  /\ Clamp(x) \in Score
         /\ x <= Unit => Clamp(x) = x
         /\ x > Unit => Clamp(x) = Unit
BY DEF Clamp, Score, Unit

\* The frequency of any number of occurrences is a share.
LEMMA FrequencyScore ==
  ASSUME NEW n \in Nat
  PROVE  /\ FastFrequencyScore(n) \in Score
         /\ n <= 1 => FastFrequencyScore(n) = 0
<1>1. PICK k \in 1..8 : k = Greater(1, Smaller(n, 8)) /\ (n <= 1 => k = 1)
  BY DEF Greater, Smaller
<1>2. k = 1 \/ k = 2 \/ k = 3 \/ k = 4 \/ k = 5 \/ k = 6 \/ k = 7 \/ k = 8
  BY <1>1
<1>3. LogShare[k] \in 0..10000 /\ (k = 1 => LogShare[k] = 0)
  BY <1>2 DEF LogShare, Unit
<1>4. FastFrequencyScore(n) = LogShare[k]
  BY <1>1, Zenon DEF FastFrequencyScore
<1>5. LogShare[k] \in Score
  BY <1>3 DEF Score, Unit
<1>6. n <= 1 => FastFrequencyScore(n) = 0
  BY <1>1, <1>3, <1>4
<1> QED BY <1>4, <1>5, <1>6

----------------------------------------------------------------------------

\* What a recurrence is worth before the static score and the noise are known.
Recurrence(quality, n) == Times(Alpha, Times(FastFrequencyScore(n), quality))

\* What the static score and the noise leave of it.
Room(static, noise) == Times(Unit - static, Unit - noise)

LEMMA BoostIsTimes ==
  ASSUME NEW static \in Score, NEW quality \in Score, NEW noise \in Score, NEW n \in Nat
  PROVE  /\ Recurrence(quality, n) \in Score
         /\ Room(static, noise) \in Score
         /\ Room(static, noise) <= Unit - static
         /\ RecurrenceBoost(static, quality, noise, n)
              = Times(Recurrence(quality, n), Room(static, noise))
         /\ RecurrenceBoost(static, quality, noise, n) \in 0..(Unit - static)
<1>1. Alpha \in Score /\ Unit - static \in Score /\ Unit - noise \in Score
  BY DEF Alpha, Score, Unit
<1>2. Times(FastFrequencyScore(n), quality) \in Score
  BY FrequencyScore, TimesScore
<1>3. Recurrence(quality, n) \in Score
  BY <1>1, <1>2, TimesScore DEF Recurrence
<1>4. Room(static, noise) \in Score /\ Room(static, noise) <= Unit - static
  BY <1>1, TimesScore DEF Room
<1>5. Times(Recurrence(quality, n), Room(static, noise)) \in Score
  BY <1>3, <1>4, TimesScore
<1>6. RecurrenceBoost(static, quality, noise, n)
        = Clamp(Times(Recurrence(quality, n), Room(static, noise)))
  BY DEF RecurrenceBoost, Recurrence, Room
<1>7. PICK t \in Score : t = Times(Recurrence(quality, n), Room(static, noise))
  BY <1>5
<1>8. t \in Nat /\ t <= Unit
  BY DEF Score, Unit
<1>9. RecurrenceBoost(static, quality, noise, n) = t
  BY <1>6, <1>7, <1>8, ClampNat
<1>10. t <= Room(static, noise)
  BY <1>3, <1>4, <1>7, TimesScore, TimesCommutes
<1>11. PICK room \in Score : room = Room(static, noise)
  BY <1>4
<1>12. t \in 0..(Unit - static)
  BY <1>4, <1>8, <1>10, <1>11 DEF Score, Unit
<1> QED BY <1>3, <1>4, <1>7, <1>9, <1>12

LEMMA SelectionIsSum ==
  ASSUME NEW static \in Score, NEW quality \in Score, NEW noise \in Score, NEW n \in Nat
  PROVE  SelectionScore(static, quality, noise, n)
           = static + RecurrenceBoost(static, quality, noise, n)
<1>1. PICK b \in 0..(Unit - static) : b = RecurrenceBoost(static, quality, noise, n)
  BY BoostIsTimes
<1>2. static + b \in Nat /\ static + b <= Unit
  BY DEF Score, Unit
<1>3. SelectionScore(static, quality, noise, n) = Clamp(static + b)
  BY <1>1 DEF SelectionScore
<1> QED BY <1>1, <1>2, <1>3, ClampNat

\* The recurrence of an entry or a cluster only ever adds to its static score,
\* and an entry that occurred once is worth its static score
\* (build_fast_selection_metadata).
THEOREM RecurrenceOnlyAdds ==
  ASSUME NEW static \in Score, NEW quality \in Score, NEW noise \in Score, NEW n \in Nat
  PROVE  /\ SelectionScore(static, quality, noise, n) \in static..Unit
         /\ n <= 1 => SelectionScore(static, quality, noise, n) = static
<1>1. PICK b \in 0..(Unit - static) : b = RecurrenceBoost(static, quality, noise, n)
  BY BoostIsTimes
<1>2. static + b \in static..Unit
  BY DEF Score, Unit
<1>3. SelectionScore(static, quality, noise, n) = static + b
  BY <1>1, SelectionIsSum
<1>4. ASSUME n <= 1
      PROVE  SelectionScore(static, quality, noise, n) = static
  <2>1. 0 \in Score /\ Alpha \in Score
    BY DEF Score, Unit, Alpha
  <2>2. \A x \in Score : Times(0, x) = 0
    <3> TAKE x \in Score
    <3>1. PICK z \in Score : z = Times(0, x) /\ z <= 0
      BY <2>1, TimesScore
    <3>2. z \in Int /\ 0 <= z
      BY DEF Score, Unit
    <3> QED BY <3>1, <3>2
  <2>3. Recurrence(quality, n) = 0
    BY <1>4, <2>1, <2>2, FrequencyScore, TimesCommutes DEF Recurrence
  <2>4. b = 0
    <3>1. Room(static, noise) \in Score
      BY BoostIsTimes
    <3>2. RecurrenceBoost(static, quality, noise, n)
            = Times(Recurrence(quality, n), Room(static, noise))
      BY BoostIsTimes
    <3>3. b = Times(0, Room(static, noise))
      BY <1>1, <2>3, <3>2
    <3> QED BY <2>2, <3>1, <3>3
  <2>5. static + 0 = static
    BY DEF Score, Unit
  <2> QED BY <1>3, <2>4, <2>5
<1> QED BY <1>2, <1>3, <1>4

\* Noise never raises a candidate: of two that differ in their noise alone, the
\* noisier is not ranked first (_fast_noise_penalty).
THEOREM NoiseNeverRaises ==
  ASSUME NEW static \in Score, NEW quality \in Score, NEW n \in Nat,
         NEW noise \in Score, NEW louder \in Score, noise <= louder
  PROVE  SelectionScore(static, quality, louder, n) <= SelectionScore(static, quality, noise, n)
<1>1. /\ Unit - static \in Score /\ Unit - noise \in Score /\ Unit - louder \in Score
      /\ Unit - louder <= Unit - noise
  BY DEF Score, Unit
<1>2. Room(static, louder) <= Room(static, noise)
  BY <1>1, TimesGrows, TimesCommutes DEF Room
<1>3. /\ Recurrence(quality, n) \in Score
      /\ Room(static, louder) \in Score /\ Room(static, noise) \in Score
  BY BoostIsTimes
<1>4. Times(Recurrence(quality, n), Room(static, louder))
        <= Times(Recurrence(quality, n), Room(static, noise))
  BY <1>2, <1>3, TimesGrows, TimesCommutes
<1>5. RecurrenceBoost(static, quality, louder, n) <= RecurrenceBoost(static, quality, noise, n)
  BY <1>4, BoostIsTimes
<1>6. PICK b \in 0..(Unit - static), a \in 0..(Unit - static) :
        /\ b = RecurrenceBoost(static, quality, louder, n)
        /\ a = RecurrenceBoost(static, quality, noise, n)
  BY BoostIsTimes
<1>7. static + b <= static + a
  BY <1>5, <1>6 DEF Score, Unit
<1> QED BY <1>6, <1>7, SelectionIsSum

\* The boost is scaled down by the static score, but never by more than the
\* static score adds: of two candidates that differ in it alone, the one that
\* is worth more by itself is not ranked last.
THEOREM WorthNeverLowers ==
  ASSUME NEW static \in Score, NEW better \in Score, static <= better,
         NEW quality \in Score, NEW noise \in Score, NEW n \in Nat
  PROVE  SelectionScore(static, quality, noise, n) <= SelectionScore(better, quality, noise, n)
<1>1. /\ Unit - static \in Score /\ Unit - better \in Score /\ Unit - noise \in Score
      /\ Unit - better <= Unit - static
      /\ (Unit - static) - (Unit - better) = better - static
  BY DEF Score, Unit
<1>2. /\ Room(better, noise) <= Room(static, noise)
      /\ Room(static, noise) - Room(better, noise) <= (Unit - static) - (Unit - better)
  BY <1>1, TimesGrows DEF Room
<1>3. /\ Recurrence(quality, n) \in Score
      /\ Room(better, noise) \in Score /\ Room(static, noise) \in Score
  BY BoostIsTimes
<1>4. Times(Room(static, noise), Recurrence(quality, n))
        - Times(Room(better, noise), Recurrence(quality, n))
      <= Room(static, noise) - Room(better, noise)
  BY <1>2, <1>3, TimesGrows
<1>5. PICK d \in Score, e \in Score : d = Room(static, noise) /\ e = Room(better, noise)
  BY <1>3
<1>6. /\ RecurrenceBoost(static, quality, noise, n) = Times(Room(static, noise), Recurrence(quality, n))
      /\ RecurrenceBoost(better, quality, noise, n) = Times(Room(better, noise), Recurrence(quality, n))
  BY <1>3, BoostIsTimes, TimesCommutes
<1>7. PICK a \in 0..(Unit - static), b \in 0..(Unit - better) :
        /\ a = RecurrenceBoost(static, quality, noise, n)
        /\ b = RecurrenceBoost(better, quality, noise, n)
  BY BoostIsTimes
<1>8. d - e <= better - static /\ a - b <= d - e
  BY <1>1, <1>2, <1>4, <1>5, <1>6, <1>7
<1>9. static + a <= better + b
  BY <1>8 DEF Score, Unit
<1> QED BY <1>7, <1>9, SelectionIsSum

----------------------------------------------------------------------------

\* The parts of the importance are shares.
LEMMA PayloadShares ==
  ASSUME NEW p \in Payload
  PROVE  Surprise(p) \in Score /\ Inference(p) \in Score
<1>1. Surprise(p) \in Score
  <2>1. /\ p.confidence # None => p.confidence \in Score
        /\ p.disagreement # None => p.disagreement \in Score
        /\ p.rating # None => p.rating \in Score
    BY DEF Payload
  <2>2. \A x \in Score : Unit - x \in Score
    BY DEF Score, Unit
  <2>3. Unit \div 2 \in Score
    BY DEF Score, Unit
  <2> QED BY <2>1, <2>2, <2>3, Zenon DEF Surprise
<1>2. PICK k \in 0..20 : k = Smaller(p.steps, 10) + Smaller(p.corrections, 5) + Smaller(p.level, 5)
  BY DEF Payload, Smaller
<1>3. Inference(p) = Clamp((k * Unit) \div 20)
  BY <1>2 DEF Inference, Share
<1>4. PICK q \in Nat : q = (k * Unit) \div 20
  BY DEF Unit
<1> QED BY <1>1, <1>3, <1>4, ClampNat

\* When the vectors of the neighbours cannot be compared, the entry is no more
\* important than under any novelty it might have had, in score and in class
\* (build_importance_metadata with novelty_status "failed").
THEOREM FailedNoveltyNeverRaises ==
  ASSUME NEW p \in Payload, NEW novelty \in Score, None \notin Score
  PROVE  /\ ImportanceScore(p, novelty) \in 0..100
         /\ ImportanceScore(p, None) <= ImportanceScore(p, novelty)
         /\ ImportanceClass(ImportanceScore(p, None)) = "high"
              => ImportanceClass(ImportanceScore(p, novelty)) = "high"
         /\ ImportanceClass(ImportanceScore(p, novelty)) = "low"
              => ImportanceClass(ImportanceScore(p, None)) = "low"
<1>1. PICK surprise \in Score, inference \in Score, negative \in Score :
        surprise = Surprise(p) /\ inference = Inference(p) /\ negative = p.negative
  <2>1. p.negative \in Score
    BY DEF Payload
  <2> QED BY <2>1, PayloadShares
<1>2. PICK n \in Score : NoveltySignal(None) = 0 /\ NoveltySignal(novelty) = n
  <2>1. novelty # None
    OBVIOUS
  <2>2. NoveltySignal(novelty) = novelty
    BY <2>1, Zenon DEF NoveltySignal
  <2>3. NoveltySignal(None) = 0
    BY Zenon DEF NoveltySignal
  <2> QED BY <2>2, <2>3
<1>3. PICK x \in Nat, y \in Nat :
        /\ ImportanceScore(p, None) = Smaller(100, x \div Unit)
        /\ ImportanceScore(p, novelty) = Smaller(100, y \div Unit)
        /\ x <= y
  <2>1. CASE p.confidence # None
    <3>1. \A m : ImportanceScore(p, m)
                  = Smaller(100, (45 * Surprise(p) + 35 * NoveltySignal(m) + 20 * Inference(p)
                                    + 25 * p.negative + Unit \div 2) \div Unit)
      BY <2>1, Zenon DEF ImportanceScore
    <3>2. PICK x \in Nat, y \in Nat :
            /\ x = 45 * surprise + 35 * 0 + 20 * inference + 25 * negative + Unit \div 2
            /\ y = 45 * surprise + 35 * n + 20 * inference + 25 * negative + Unit \div 2
            /\ x <= y
      BY DEF Score, Unit
    <3>3. ImportanceScore(p, None) = Smaller(100, x \div Unit)
      BY <1>1, <1>2, <3>1, <3>2
    <3>4. ImportanceScore(p, novelty) = Smaller(100, y \div Unit)
      BY <1>1, <1>2, <3>1, <3>2
    <3> QED BY <3>2, <3>3, <3>4
  <2>2. CASE p.confidence = None
    <3>1. \A m : ImportanceScore(p, m)
                  = Smaller(100, (20 * Surprise(p) + 45 * NoveltySignal(m) + 35 * Inference(p)
                                    + 25 * p.negative + Unit \div 2) \div Unit)
      BY <2>2, Zenon DEF ImportanceScore
    <3>2. PICK x \in Nat, y \in Nat :
            /\ x = 20 * surprise + 45 * 0 + 35 * inference + 25 * negative + Unit \div 2
            /\ y = 20 * surprise + 45 * n + 35 * inference + 25 * negative + Unit \div 2
            /\ x <= y
      BY DEF Score, Unit
    <3>3. ImportanceScore(p, None) = Smaller(100, x \div Unit)
      BY <1>1, <1>2, <3>1, <3>2
    <3>4. ImportanceScore(p, novelty) = Smaller(100, y \div Unit)
      BY <1>1, <1>2, <3>1, <3>2
    <3> QED BY <3>2, <3>3, <3>4
  <2> QED BY <2>1, <2>2
<1>4. PICK q \in Nat, r \in Nat : q = x \div Unit /\ r = y \div Unit /\ q <= r
  BY <1>3 DEF Unit
<1>5. /\ ImportanceScore(p, novelty) \in 0..100 /\ ImportanceScore(p, None) \in 0..100
      /\ ImportanceScore(p, None) <= ImportanceScore(p, novelty)
  BY <1>3, <1>4 DEF Smaller
<1> QED BY <1>5 DEF ImportanceClass
=============================================================================
