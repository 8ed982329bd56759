------------------------ MODULE RouteSelectionProofs ------------------------
(***************************************************************************)
(* What the router's operators guarantee for every input.                   *)
(***************************************************************************)
EXTENDS RouteSelection, TLAPS

\* The levels and families as the numbers they are.
USE DEF None, Minimal, Low, Medium, High, ExtraHigh, MaxLevel, Ultra, Levels,
        Luna, Terra, Sol, Other, Families

\* Two unordered pairs are equal when they are equal in one of the two orders.
LEMMA PairEquality ==
    ASSUME NEW a, NEW b, NEW c, NEW d
    PROVE  ({a, b} = {c, d}) <=> ((a = c /\ b = d) \/ (a = d /\ b = c))
  OBVIOUS

LEMMA NearMeans ==
    ASSUME NEW a \in Int, NEW b \in Int, NEW margin \in Nat
    PROVE  Near(a, b, margin) <=> (a - b <= margin /\ b - a <= margin)
  BY DEF Near

\* A prior level and the selected one are neighbours across a boundary the score
\* is near.
Kept(score, prior, selected, margin) ==
    \/ {prior, selected} = {1, 2} /\ Near(score, 20, margin)
    \/ {prior, selected} = {2, 3} /\ Near(score, 45, margin)
    \/ {prior, selected} = {3, 4} /\ Near(score, 68, margin)
    \/ {prior, selected} = {4, 5} /\ Near(score, 84, margin)

LEMMA KeptMeans ==
    ASSUME NEW score \in Int, NEW prior \in Levels \cup {None}, NEW selected \in Levels,
           NEW margin \in Nat
    PROVE  Kept(score, prior, selected, margin) <=>
             \/ /\ (prior = 1 /\ selected = 2) \/ (prior = 2 /\ selected = 1)
                /\ score - 20 <= margin /\ 20 - score <= margin
             \/ /\ (prior = 2 /\ selected = 3) \/ (prior = 3 /\ selected = 2)
                /\ score - 45 <= margin /\ 45 - score <= margin
             \/ /\ (prior = 3 /\ selected = 4) \/ (prior = 4 /\ selected = 3)
                /\ score - 68 <= margin /\ 68 - score <= margin
             \/ /\ (prior = 4 /\ selected = 5) \/ (prior = 5 /\ selected = 4)
                /\ score - 84 <= margin /\ 84 - score <= margin
  <1>1. /\ Near(score, 20, margin) <=> (score - 20 <= margin /\ 20 - score <= margin)
        /\ Near(score, 45, margin) <=> (score - 45 <= margin /\ 45 - score <= margin)
        /\ Near(score, 68, margin) <=> (score - 68 <= margin /\ 68 - score <= margin)
        /\ Near(score, 84, margin) <=> (score - 84 <= margin /\ 84 - score <= margin)
    BY NearMeans
  <1>2. /\ {prior, selected} = {1, 2} <=> ((prior = 1 /\ selected = 2) \/ (prior = 2 /\ selected = 1))
        /\ {prior, selected} = {2, 3} <=> ((prior = 2 /\ selected = 3) \/ (prior = 3 /\ selected = 2))
        /\ {prior, selected} = {3, 4} <=> ((prior = 3 /\ selected = 4) \/ (prior = 4 /\ selected = 3))
        /\ {prior, selected} = {4, 5} <=> ((prior = 4 /\ selected = 5) \/ (prior = 5 /\ selected = 4))
    BY PairEquality
  <1> QED
    BY <1>1, <1>2, Zenon DEF Kept

LEMMA EffortUnfolds ==
    ASSUME NEW score \in Int, NEW prior, NEW margin
    PROVE  EffortWithHysteresis(score, prior, margin) =
             IF margin # 0 /\ prior # None /\ Kept(score, prior, EffortFor(score), margin)
             THEN prior ELSE EffortFor(score)
  BY DEF EffortWithHysteresis, Kept, Boundaries

LEMMA EffortForType ==
    ASSUME NEW score \in Int PROVE EffortFor(score) \in 1..5
  BY DEF EffortFor

LEMMA EffortType ==
    ASSUME NEW score \in Int, NEW prior \in Levels \cup {None}, NEW margin \in Nat
    PROVE  EffortWithHysteresis(score, prior, margin) \in Levels
  BY EffortUnfolds, EffortForType

\* A higher score never selects a weaker level, whatever the prior level and the
\* hysteresis band: effort_with_hysteresis.
THEOREM EffortIsMonotone ==
    ASSUME NEW low \in Int, NEW high \in Int, low <= high,
           NEW prior \in Levels \cup {None}, NEW margin \in Nat
    PROVE  EffortWithHysteresis(low, prior, margin) <= EffortWithHysteresis(high, prior, margin)
  <1>1. EffortFor(low) \in Levels /\ EffortFor(high) \in Levels
    BY EffortForType
  <1> QED
    BY <1>1, KeptMeans, EffortUnfolds, SMTT(60) DEF EffortFor

-----------------------------------------------------------------------------
(* Families *)

LEMMA SafeMeans ==
    ASSUME NEW d \in Dimensions
    PROVE  Safe(d, 1) => Safe(d, 2)
  BY DEF Safe, Dimensions

LEMMA FamilyForType ==
    ASSUME NEW d, NEW score \in Int PROVE FamilyFor(d, score) \in {Luna, Terra, Sol}
  BY DEF FamilyFor

\* A neighbouring prior family that the task is safe for, near the boundary.
KeptFamily(d, score, prior, selected, margin) ==
    \/ {prior, selected} = {Luna, Terra} /\ Near(score, 20, margin) /\ (prior = Luna => Safe(d, 1))
    \/ {prior, selected} = {Terra, Sol} /\ Near(score, 45, margin) /\ (prior = Terra => Safe(d, 2))

LEMMA FamilyUnfolds ==
    ASSUME NEW d, NEW score \in Int, NEW prior, NEW margin
    PROVE  FamilyWithHysteresis(d, score, prior, margin) =
             IF margin # 0 /\ prior # None /\ KeptFamily(d, score, prior, FamilyFor(d, score), margin)
             THEN prior ELSE FamilyFor(d, score)
  BY DEF FamilyWithHysteresis, KeptFamily

LEMMA KeptFamilyMeans ==
    ASSUME NEW d, NEW score \in Int, NEW prior \in Families \cup {None}, NEW selected \in Families,
           NEW margin \in Nat
    PROVE  KeptFamily(d, score, prior, selected, margin) <=>
             \/ /\ (prior = 0 /\ selected = 1 /\ Safe(d, 1)) \/ (prior = 1 /\ selected = 0)
                /\ score - 20 <= margin /\ 20 - score <= margin
             \/ /\ (prior = 1 /\ selected = 2 /\ Safe(d, 2)) \/ (prior = 2 /\ selected = 1)
                /\ score - 45 <= margin /\ 45 - score <= margin
  <1>1. /\ Near(score, 20, margin) <=> (score - 20 <= margin /\ 20 - score <= margin)
        /\ Near(score, 45, margin) <=> (score - 45 <= margin /\ 45 - score <= margin)
    BY NearMeans
  <1>2. /\ {prior, selected} = {0, 1} <=> ((prior = 0 /\ selected = 1) \/ (prior = 1 /\ selected = 0))
        /\ {prior, selected} = {1, 2} <=> ((prior = 1 /\ selected = 2) \/ (prior = 2 /\ selected = 1))
    BY PairEquality
  <1> QED
    BY <1>1, <1>2 DEF KeptFamily

LEMMA FamilyType ==
    ASSUME NEW d, NEW score \in Int, NEW prior \in Families \cup {None}, NEW margin \in Nat
    PROVE  FamilyWithHysteresis(d, score, prior, margin) \in {Luna, Terra, Sol}
  <1>1. FamilyFor(d, score) \in Families
    BY FamilyForType
  <1>2. ASSUME NEW selected \in Families, KeptFamily(d, score, prior, selected, margin)
        PROVE  prior \in {Luna, Terra, Sol}
    BY <1>2 DEF KeptFamily
  <1> QED
    BY <1>1, <1>2, FamilyUnfolds, FamilyForType

\* A weak family is selected, or kept from the last route, only for a task that
\* is safe for it: family_with_hysteresis.
THEOREM WeakFamilyIsSafe ==
    ASSUME NEW d \in Dimensions, NEW score \in Int, NEW prior \in Families \cup {None},
           NEW margin \in Nat
    PROVE  LET family == FamilyWithHysteresis(d, score, prior, margin) IN
           /\ family = Luna => Safe(d, 1)
           /\ family = Terra => Safe(d, 2)
  <1>1. FamilyFor(d, score) = Luna => Safe(d, 1)
    BY DEF FamilyFor
  <1>2. FamilyFor(d, score) \in {Luna, Terra} => Safe(d, 2)
    BY SafeMeans DEF FamilyFor
  <1>3. FamilyFor(d, score) \in Families
    BY FamilyForType
  <1> QED
    BY <1>1, <1>2, <1>3, FamilyUnfolds, KeptFamilyMeans, SafeMeans

\* Every dimension of risk is at least as high, the width the same.
Riskier(d, e) ==
    /\ d.scope <= e.scope /\ d.ambiguity <= e.ambiguity /\ d.cost <= e.cost
    /\ d.runtime <= e.runtime /\ d.depth <= e.depth /\ d.verification <= e.verification
    /\ d.parallel = e.parallel

LEMMA SafetyShrinks ==
    ASSUME NEW d \in Dimensions, NEW e \in Dimensions, Riskier(d, e)
    PROVE  /\ Safe(e, 1) => Safe(d, 1)
           /\ Safe(e, 2) => Safe(d, 2)
  BY DEF Safe, Riskier, Dimensions

\* More risk and a higher score never select a weaker family.
LEMMA FamilyIsMonotone ==
    ASSUME NEW d \in Dimensions, NEW e \in Dimensions, Riskier(d, e),
           NEW low \in Int, NEW high \in Int, low <= high,
           NEW prior \in Families \cup {None}, NEW margin \in Nat
    PROVE  FamilyWithHysteresis(d, low, prior, margin) <= FamilyWithHysteresis(e, high, prior, margin)
  <1>1. FamilyFor(d, low) \in Families /\ FamilyFor(e, high) \in Families
    BY FamilyForType
  <1> QED
    BY <1>1, KeptFamilyMeans, FamilyUnfolds, SafetyShrinks, SafeMeans, SMTT(60) DEF FamilyFor

-----------------------------------------------------------------------------
(* Scores *)

LEMMA CalibrationIsMonotone ==
    ASSUME NEW type, NEW low \in Nat, NEW high \in Nat, low <= high, NEW offset \in Int
    PROVE  CalibratedScore(type, low, offset) <= CalibratedScore(type, high, offset)
  BY DEF CalibratedScore, AtMost, AtLeast

LEMMA CalibratedType ==
    ASSUME NEW type, NEW base \in Nat, NEW offset \in Int
    PROVE  CalibratedScore(type, base, offset) \in Nat
  BY DEF CalibratedScore, AtMost, AtLeast

LEMMA ProductIsMonotone ==
    ASSUME NEW a \in Nat, NEW b \in Nat, NEW w \in Nat, a <= b
    PROVE  a * w \in Nat /\ b * w \in Nat /\ a * w <= b * w
  OBVIOUS

LEMMA QuotientIsMonotone ==
    ASSUME NEW a \in Nat, NEW b \in Nat, NEW n \in Nat \ {0}, a <= b
    PROVE  a \div n \in Nat /\ b \div n \in Nat /\ a \div n <= b \div n
  OBVIOUS

LEMMA TotalType ==
    ASSUME NEW w \in Weights PROVE Total(w) \in Nat
  <1>1. /\ w.scope \in Nat /\ w.ambiguity \in Nat /\ w.cost \in Nat
        /\ w.runtime \in Nat /\ w.depth \in Nat /\ w.verification \in Nat
    BY DEF Weights
  <1> QED
    BY <1>1 DEF Total

LEMMA WeightedIsMonotone ==
    ASSUME NEW d \in Dimensions, NEW e \in Dimensions, Riskier(d, e), NEW w \in Weights
    PROVE  /\ Weighted(d, w) \in Nat
           /\ Weighted(e, w) \in Nat
           /\ Weighted(d, w) <= Weighted(e, w)
  <1>1. /\ d.scope * w.scope \in Nat /\ e.scope * w.scope \in Nat
        /\ d.scope * w.scope <= e.scope * w.scope
    BY ProductIsMonotone DEF Dimensions, Weights, Riskier
  <1>2. /\ d.ambiguity * w.ambiguity \in Nat /\ e.ambiguity * w.ambiguity \in Nat
        /\ d.ambiguity * w.ambiguity <= e.ambiguity * w.ambiguity
    BY ProductIsMonotone DEF Dimensions, Weights, Riskier
  <1>3. /\ d.cost * w.cost \in Nat /\ e.cost * w.cost \in Nat
        /\ d.cost * w.cost <= e.cost * w.cost
    BY ProductIsMonotone DEF Dimensions, Weights, Riskier
  <1>4. /\ d.runtime * w.runtime \in Nat /\ e.runtime * w.runtime \in Nat
        /\ d.runtime * w.runtime <= e.runtime * w.runtime
    BY ProductIsMonotone DEF Dimensions, Weights, Riskier
  <1>5. /\ d.depth * w.depth \in Nat /\ e.depth * w.depth \in Nat
        /\ d.depth * w.depth <= e.depth * w.depth
    BY ProductIsMonotone DEF Dimensions, Weights, Riskier
  <1>6. /\ d.verification * w.verification \in Nat /\ e.verification * w.verification \in Nat
        /\ d.verification * w.verification <= e.verification * w.verification
    BY ProductIsMonotone DEF Dimensions, Weights, Riskier
  <1> QED
    BY <1>1, <1>2, <1>3, <1>4, <1>5, <1>6 DEF Weighted

\* The score lies in 0..100 and never falls when a risk rises: normalized_score.
THEOREM ScoreIsMonotone ==
    ASSUME NEW d \in Dimensions, NEW e \in Dimensions, Riskier(d, e), NEW w \in Weights
    PROVE  /\ NormalizedScore(d, w) \in 0..100
           /\ NormalizedScore(e, w) \in 0..100
           /\ NormalizedScore(d, w) <= NormalizedScore(e, w)
  <1>1. CASE Total(w) = 0
    BY <1>1 DEF NormalizedScore
  <1>2. CASE Total(w) # 0
    <2> DEFINE n == 4 * Total(w)
               low == Weighted(d, w) * 100 + n \div 2
               high == Weighted(e, w) * 100 + n \div 2
    <2>1. n \in Nat \ {0} /\ n \div 2 \in Nat
      BY <1>2, TotalType
    <2>2. low \in Nat /\ high \in Nat /\ low <= high
      <3> HIDE DEF n
      <3> QED
        BY <2>1, WeightedIsMonotone
    <2>3. low \div n \in Nat /\ high \div n \in Nat /\ low \div n <= high \div n
      <3> HIDE DEF n, low, high
      <3> QED
        BY <2>1, <2>2, QuotientIsMonotone
    <2>4. /\ NormalizedScore(d, w) = AtMost(100, low \div n)
          /\ NormalizedScore(e, w) = AtMost(100, high \div n)
      BY <1>2 DEF NormalizedScore
    <2> HIDE DEF n, low, high
    <2> QED
      BY <2>3, <2>4 DEF AtMost
  <1> QED
    BY <1>1, <1>2

-----------------------------------------------------------------------------
(* Bounds *)

LEMMA RankMeans ==
    ASSUME NEW family \in Families
    PROVE  FamilyRank(family) = IF family = 3 THEN 2 ELSE family
  BY DEF FamilyRank

LEMMA FamilyBoundsAreMonotone ==
    ASSUME NEW low \in {Luna, Terra, Sol}, NEW high \in {Luna, Terra, Sol}, low <= high,
           NEW c \in SelectionConstraints
    PROVE  /\ ApplyFamilyConstraints(low, c) \in Families
           /\ FamilyRank(ApplyFamilyConstraints(low, c)) <= FamilyRank(ApplyFamilyConstraints(high, c))
  BY DEF ApplyFamilyConstraints, FamilyRank, SelectionConstraints, OptFamily, FamilyBound

LEMMA EffortBoundsAreMonotone ==
    ASSUME NEW low \in Levels, NEW high \in Levels, low <= high, NEW c \in SelectionConstraints
    PROVE  /\ ApplyEffortConstraints(low, c) \in Levels
           /\ ApplyEffortConstraints(high, c) \in Levels
           /\ ApplyEffortConstraints(low, c) <= ApplyEffortConstraints(high, c)
  BY DEF ApplyEffortConstraints, SelectionConstraints, OptLevel

LEMMA RiskIsMonotone ==
    ASSUME NEW type, NEW d \in Dimensions, NEW e \in Dimensions, Riskier(d, e),
           RiskFloor(type, d)
    PROVE  RiskFloor(type, e)
  <1>1. /\ d.ambiguity \in 0..4 /\ d.cost \in 0..4 /\ d.runtime \in 0..4 /\ d.depth \in 0..4
        /\ d.verification \in 0..4
        /\ e.ambiguity \in 0..4 /\ e.cost \in 0..4 /\ e.runtime \in 0..4 /\ e.depth \in 0..4
        /\ e.verification \in 0..4
    BY DEF Dimensions
  <1>2. SevereCount(d) >= 2 => SevereCount(e) >= 2
    BY <1>1 DEF SevereCount, Riskier
  <1> QED
    BY <1>1, <1>2 DEF RiskFloor, Riskier

-----------------------------------------------------------------------------
(* The whole route *)

IsTask(task) == task.type \in TaskTypes /\ task.dims \in Dimensions /\ task.tracks \in BOOLEAN
Priors == [family : OptFamily, effort : OptLevel]

\* The intermediate results of Select, named.
Wanted(task, w, c, offset, prior, margin) ==
    ApplyEffortConstraints(
        IF UltraCandidate(task, w) /\ c.explicitEffort = None
        THEN IF c.authorized THEN Ultra ELSE MaxLevel
        ELSE EffortWithHysteresis(
                 CalibratedScore(task.type, NormalizedScore(task.dims, w), offset),
                 prior.effort, margin), c)
FamilyWanted(task, w, c, offset, prior, margin) ==
    ApplyFamilyConstraints(
        FamilyWithHysteresis(task.dims,
            CalibratedScore(task.type, NormalizedScore(task.dims, w), offset),
            prior.family, margin), c)
ToSol(task, w, c, offset, prior, margin) ==
    \/ UltraCandidate(task, w) /\ c.explicitEffort = None
    \/ Wanted(task, w, c, offset, prior, margin) = Ultra /\ c.explicitFamily = None

LEMMA SelectUnfolds ==
    ASSUME NEW task, NEW w, NEW c, NEW offset, NEW prior, NEW margin
    PROVE  /\ Select(task, w, c, offset, prior, margin).family =
                IF ToSol(task, w, c, offset, prior, margin) THEN Sol
                ELSE FamilyWanted(task, w, c, offset, prior, margin)
           /\ Select(task, w, c, offset, prior, margin).effort =
                IF Wanted(task, w, c, offset, prior, margin) = Ultra /\ ~c.authorized
                THEN MaxLevel ELSE Wanted(task, w, c, offset, prior, margin)
  BY DEF Select, ToSol, Wanted, FamilyWanted

LEMMA SelectTypes ==
    ASSUME NEW task, IsTask(task), NEW w \in Weights, NEW c \in SelectionConstraints,
           NEW offset \in Int, NEW prior \in Priors, NEW margin \in Nat
    PROVE  /\ Wanted(task, w, c, offset, prior, margin) \in Levels
           /\ FamilyWanted(task, w, c, offset, prior, margin) \in Families
           /\ Select(task, w, c, offset, prior, margin).family \in Families
           /\ Select(task, w, c, offset, prior, margin).effort \in Levels
  <1> DEFINE score == CalibratedScore(task.type, NormalizedScore(task.dims, w), offset)
  <1>1. task.dims \in Dimensions /\ Riskier(task.dims, task.dims)
    BY DEF IsTask, Dimensions, Riskier
  <1>2. score \in Nat
    BY <1>1, ScoreIsMonotone, CalibratedType
  <1>3. EffortWithHysteresis(score, prior.effort, margin) \in Levels
    BY <1>2, EffortType DEF Priors, OptLevel
  <1>4. FamilyWithHysteresis(task.dims, score, prior.family, margin) \in {Luna, Terra, Sol}
    BY <1>2, FamilyType DEF Priors, OptFamily
  <1>5. Wanted(task, w, c, offset, prior, margin) \in Levels
    BY <1>3, EffortBoundsAreMonotone DEF Wanted
  <1>6. FamilyWanted(task, w, c, offset, prior, margin) \in Families
    BY <1>4, FamilyBoundsAreMonotone DEF FamilyWanted
  <1> QED
    BY <1>5, <1>6, SelectUnfolds

\* Two tasks of the same kind, the second riskier.
RiskierTask(s, t) ==
    /\ s.type = t.type
    /\ s.tracks = t.tracks
    /\ Riskier(s.dims, t.dims)

\* The score after calibration.
ScoreOf(task, w, offset) == CalibratedScore(task.type, NormalizedScore(task.dims, w), offset)

LEMMA ScoreType ==
    ASSUME NEW task, IsTask(task), NEW w \in Weights, NEW offset \in Int
    PROVE  /\ NormalizedScore(task.dims, w) \in Nat
           /\ ScoreOf(task, w, offset) \in Nat
  <1>1. task.dims \in Dimensions /\ Riskier(task.dims, task.dims)
    BY DEF IsTask, Dimensions, Riskier
  <1>2. NormalizedScore(task.dims, w) \in Nat
    BY <1>1, ScoreIsMonotone
  <1> QED
    BY <1>2, CalibratedType DEF ScoreOf

LEMMA RiskRaisesScore ==
    ASSUME NEW s, NEW t, IsTask(s), IsTask(t), RiskierTask(s, t), NEW w \in Weights,
           NEW offset \in Int
    PROVE  ScoreOf(s, w, offset) <= ScoreOf(t, w, offset)
  <1>1. s.dims \in Dimensions /\ t.dims \in Dimensions /\ Riskier(s.dims, t.dims)
    BY DEF IsTask, RiskierTask
  <1>2. /\ NormalizedScore(s.dims, w) \in Nat
        /\ NormalizedScore(t.dims, w) \in Nat
        /\ NormalizedScore(s.dims, w) <= NormalizedScore(t.dims, w)
    BY <1>1, ScoreIsMonotone
  <1> QED
    BY <1>2, CalibrationIsMonotone DEF ScoreOf, RiskierTask

LEMMA OffsetMovesScore ==
    ASSUME NEW task, IsTask(task), NEW w \in Weights, NEW offset \in Int
    PROVE  /\ offset >= 0 => ScoreOf(task, w, 0) <= ScoreOf(task, w, offset)
           /\ offset <= 0 \/ task.type \in {"documentation", "mechanical"} =>
                 ScoreOf(task, w, offset) <= ScoreOf(task, w, 0)
  <1>1. NormalizedScore(task.dims, w) \in Nat
    BY ScoreType
  <1> QED
    BY <1>1 DEF ScoreOf, CalibratedScore, AtMost, AtLeast

LEMMA CandidacyIsMonotone ==
    ASSUME NEW s, NEW t, IsTask(s), IsTask(t), RiskierTask(s, t), NEW w \in Weights,
           UltraCandidate(s, w)
    PROVE  UltraCandidate(t, w)
  <1>1. s.dims \in Dimensions /\ t.dims \in Dimensions /\ Riskier(s.dims, t.dims)
    BY DEF IsTask, RiskierTask
  <1>2. /\ NormalizedScore(s.dims, w) \in Nat
        /\ NormalizedScore(t.dims, w) \in Nat
        /\ NormalizedScore(s.dims, w) <= NormalizedScore(t.dims, w)
    BY <1>1, ScoreIsMonotone
  <1> QED
    BY <1>1, <1>2 DEF UltraCandidate, RiskierTask, Riskier

LEMMA WantedIsMonotone ==
    ASSUME NEW s, NEW t, IsTask(s), IsTask(t), RiskierTask(s, t), NEW w \in Weights,
           NEW c \in SelectionConstraints, NEW o \in Int, NEW q \in Int, ScoreOf(s, w, o) <= ScoreOf(t, w, q), NEW prior \in Priors,
           NEW margin \in Nat
    PROVE  Wanted(s, w, c, o, prior, margin) <= Wanted(t, w, c, q, prior, margin)
  <1> DEFINE low == ScoreOf(s, w, o)
             high == ScoreOf(t, w, q)
             sequential(score) == EffortWithHysteresis(score, prior.effort, margin)
             forced(u) == UltraCandidate(u, w) /\ c.explicitEffort = None
             top == IF c.authorized THEN Ultra ELSE MaxLevel
             before(u, score) == IF forced(u) THEN top ELSE sequential(score)
  <1>1. low \in Nat /\ high \in Nat /\ low <= high
    BY ScoreType
  <1>2. prior.effort \in Levels \cup {None}
    BY DEF Priors, OptLevel
  <1>3. sequential(low) \in Levels /\ sequential(high) \in Levels /\ sequential(low) <= sequential(high)
    <2> HIDE DEF low, high
    <2> QED
      BY <1>1, <1>2, EffortType, EffortIsMonotone
  <1>4. forced(s) => forced(t)
    BY CandidacyIsMonotone
  <1>5. sequential(low) <= MaxLevel \/ prior.effort = Ultra
    <2> HIDE DEF low, high
    <2> QED
      BY <1>1, <1>2, EffortUnfolds, EffortForType
  <1>6. sequential(low) <= MaxLevel
    <2>1. ~ Kept(low, Ultra, EffortFor(low), margin)
      <3> HIDE DEF low, high
      <3> QED
        BY <1>1, EffortForType, KeptMeans
    <2> HIDE DEF low, high
    <2> QED
      BY <2>1, <1>1, <1>2, <1>5, EffortUnfolds, EffortForType
  <1>7. /\ before(s, low) \in Levels /\ before(t, high) \in Levels
        /\ before(s, low) <= before(t, high)
    <2> HIDE DEF low, high, sequential, forced
    <2> QED
      BY <1>3, <1>4, <1>6
  <1>8. /\ Wanted(s, w, c, o, prior, margin) = ApplyEffortConstraints(before(s, low), c)
        /\ Wanted(t, w, c, q, prior, margin) = ApplyEffortConstraints(before(t, high), c)
    BY DEF Wanted, ScoreOf
  <1> HIDE DEF before
  <1> QED
    BY <1>7, <1>8, EffortBoundsAreMonotone

LEMMA FamilyWantedIsMonotone ==
    ASSUME NEW s, NEW t, IsTask(s), IsTask(t), RiskierTask(s, t), NEW w \in Weights,
           NEW c \in SelectionConstraints, NEW o \in Int, NEW q \in Int, ScoreOf(s, w, o) <= ScoreOf(t, w, q), NEW prior \in Priors,
           NEW margin \in Nat
    PROVE  FamilyRank(FamilyWanted(s, w, c, o, prior, margin))
             <= FamilyRank(FamilyWanted(t, w, c, q, prior, margin))
  <1> DEFINE low == ScoreOf(s, w, o)
             high == ScoreOf(t, w, q)
             before(u, score) == FamilyWithHysteresis(u.dims, score, prior.family, margin)
  <1>1. low \in Nat /\ high \in Nat /\ low <= high
    BY ScoreType
  <1>2. s.dims \in Dimensions /\ t.dims \in Dimensions /\ Riskier(s.dims, t.dims)
    BY DEF IsTask, RiskierTask
  <1>3. prior.family \in Families \cup {None}
    BY DEF Priors, OptFamily
  <1>4. /\ before(s, low) \in {Luna, Terra, Sol} /\ before(t, high) \in {Luna, Terra, Sol}
        /\ before(s, low) <= before(t, high)
    <2> HIDE DEF low, high
    <2>1. before(s, low) \in {Luna, Terra, Sol} /\ before(t, high) \in {Luna, Terra, Sol}
      BY <1>1, <1>3, FamilyType
    <2>2. before(s, low) <= before(t, high)
      BY <1>1, <1>2, <1>3, FamilyIsMonotone
    <2> QED
      BY <2>1, <2>2
  <1>5. /\ FamilyWanted(s, w, c, o, prior, margin) = ApplyFamilyConstraints(before(s, low), c)
        /\ FamilyWanted(t, w, c, q, prior, margin) = ApplyFamilyConstraints(before(t, high), c)
    BY DEF FamilyWanted, ScoreOf
  <1> HIDE DEF before
  <1> QED
    BY <1>4, <1>5, FamilyBoundsAreMonotone

LEMMA SelectIsMonotone ==
    ASSUME NEW s, NEW t, IsTask(s), IsTask(t), RiskierTask(s, t), NEW w \in Weights,
           NEW c \in SelectionConstraints, NEW o \in Int, NEW q \in Int, ScoreOf(s, w, o) <= ScoreOf(t, w, q), NEW prior \in Priors,
           NEW margin \in Nat
    PROVE  LET a == Select(s, w, c, o, prior, margin)
               b == Select(t, w, c, q, prior, margin)
           IN /\ a.family \in Families /\ b.family \in Families
              /\ a.effort \in Levels /\ b.effort \in Levels
              /\ a.effort <= b.effort
              /\ FamilyRank(a.family) <= FamilyRank(b.family)
  <1> DEFINE wa == Wanted(s, w, c, o, prior, margin)
             wb == Wanted(t, w, c, q, prior, margin)
             fa == FamilyWanted(s, w, c, o, prior, margin)
             fb == FamilyWanted(t, w, c, q, prior, margin)
             sola == ToSol(s, w, c, o, prior, margin)
             solb == ToSol(t, w, c, q, prior, margin)
             a == Select(s, w, c, o, prior, margin)
             b == Select(t, w, c, q, prior, margin)
  <1>1. /\ wa \in Levels /\ wb \in Levels /\ fa \in Families /\ fb \in Families
        /\ a.family \in Families /\ b.family \in Families /\ a.effort \in Levels /\ b.effort \in Levels
    BY SelectTypes
  <1>2. wa <= wb
    BY WantedIsMonotone
  <1>3. FamilyRank(fa) <= FamilyRank(fb)
    BY FamilyWantedIsMonotone
  <1>4. sola => solb
    BY <1>1, <1>2, CandidacyIsMonotone DEF ToSol
  <1>5. /\ a.family = IF sola THEN Sol ELSE fa
        /\ b.family = IF solb THEN Sol ELSE fb
        /\ a.effort = IF wa = Ultra /\ ~c.authorized THEN MaxLevel ELSE wa
        /\ b.effort = IF wb = Ultra /\ ~c.authorized THEN MaxLevel ELSE wb
    BY SelectUnfolds
  <1>6. c.authorized \in BOOLEAN
    BY DEF SelectionConstraints
  <1> HIDE DEF wa, wb, fa, fb, sola, solb, a, b
  <1>7. a.effort <= b.effort
    BY <1>1, <1>2, <1>5
  <1>8. FamilyRank(a.family) <= FamilyRank(b.family)
    BY <1>1, <1>3, <1>4, <1>5, RankMeans
  <1> QED
    BY <1>1, <1>7, <1>8 DEF a, b

\* Whether the risk floor raises what Select chose.
RaisesFamily(task, c, family) ==
    /\ RiskFloor(task.type, task.dims)
    /\ c.explicitFamily = None
    /\ FamilyRank(family) < 2
    /\ c.familyCeiling # None => 2 <= FamilyRank(c.familyCeiling)
RaisesEffort(task, c, effort) ==
    /\ RiskFloor(task.type, task.dims)
    /\ c.explicitEffort = None
    /\ effort < High
    /\ c.effortCeiling # None => High <= c.effortCeiling

LEMMA RecommendUnfolds ==
    ASSUME NEW task, NEW w, NEW c, NEW offset, NEW prior, NEW margin
    PROVE  LET r == Select(task, w, c, offset, prior, margin)
               x == Recommend(task, w, c, offset, prior, margin)
           IN /\ x.family = IF RaisesFamily(task, c, r.family) THEN Sol ELSE r.family
              /\ x.effort = IF RaisesEffort(task, c, r.effort) THEN High ELSE r.effort
  <1>1. FamilyRank(Sol) = 2
    BY DEF FamilyRank
  <1> QED
    BY <1>1 DEF Recommend, RaisesFamily, RaisesEffort

\* A task at least as risky, with a score at least as high, is never recommended a
\* weaker level or family.
LEMMA RecommendIsMonotone ==
    ASSUME NEW s, NEW t, IsTask(s), IsTask(t), RiskierTask(s, t), NEW w \in Weights,
           NEW c \in SelectionConstraints, NEW o \in Int, NEW q \in Int, ScoreOf(s, w, o) <= ScoreOf(t, w, q), NEW prior \in Priors,
           NEW margin \in Nat
    PROVE  LET a == Recommend(s, w, c, o, prior, margin)
               b == Recommend(t, w, c, q, prior, margin)
           IN a.effort <= b.effort /\ FamilyRank(a.family) <= FamilyRank(b.family)
  <1> DEFINE a == Select(s, w, c, o, prior, margin)
             b == Select(t, w, c, q, prior, margin)
             x == Recommend(s, w, c, o, prior, margin)
             y == Recommend(t, w, c, q, prior, margin)
  <1>1. /\ a.family \in Families /\ b.family \in Families
        /\ a.effort \in Levels /\ b.effort \in Levels
        /\ a.effort <= b.effort
        /\ FamilyRank(a.family) <= FamilyRank(b.family)
    BY SelectIsMonotone
  <1>2. /\ x.family = IF RaisesFamily(s, c, a.family) THEN Sol ELSE a.family
        /\ x.effort = IF RaisesEffort(s, c, a.effort) THEN High ELSE a.effort
        /\ y.family = IF RaisesFamily(t, c, b.family) THEN Sol ELSE b.family
        /\ y.effort = IF RaisesEffort(t, c, b.effort) THEN High ELSE b.effort
    BY RecommendUnfolds
  <1>3. RiskFloor(s.type, s.dims) => RiskFloor(t.type, t.dims)
    BY RiskIsMonotone DEF IsTask, RiskierTask
  <1> HIDE DEF a, b, x, y
  <1>4. x.effort <= y.effort
    BY <1>1, <1>2, <1>3 DEF RaisesEffort
  <1>5. /\ FamilyRank(a.family) \in 0..2 /\ FamilyRank(b.family) \in 0..2 /\ FamilyRank(Sol) = 2
    BY <1>1, RankMeans
  <1>6. FamilyRank(x.family) <= FamilyRank(y.family)
    BY <1>1, <1>2, <1>3, <1>5 DEF RaisesFamily
  <1> QED
    BY <1>4, <1>6 DEF x, y

\* Raising any risk never weakens the recommended level or family, for every
\* policy, explicit choice, calibration, hysteresis band and last route.
THEOREM RouteIsMonotone ==
    ASSUME NEW s, NEW t, IsTask(s), IsTask(t), RiskierTask(s, t), NEW w \in Weights,
           NEW c \in SelectionConstraints, NEW offset \in Int, NEW prior \in Priors,
           NEW margin \in Nat
    PROVE  LET x == Recommend(s, w, c, offset, prior, margin)
               y == Recommend(t, w, c, offset, prior, margin)
           IN x.effort <= y.effort /\ FamilyRank(x.family) <= FamilyRank(y.family)
  BY RiskRaisesScore, RecommendIsMonotone

\* A calibration upwards never weakens a route; one downwards, or any of light
\* work, never strengthens it: calibrated_score.
THEOREM CalibrationIsDirected ==
    ASSUME NEW task, IsTask(task), NEW w \in Weights, NEW c \in SelectionConstraints,
           NEW offset \in Int, NEW prior \in Priors, NEW margin \in Nat
    PROVE  LET x == Recommend(task, w, c, 0, prior, margin)
               y == Recommend(task, w, c, offset, prior, margin)
           IN /\ offset >= 0 =>
                    x.effort <= y.effort /\ FamilyRank(x.family) <= FamilyRank(y.family)
              /\ offset <= 0 \/ task.type \in {"documentation", "mechanical"} =>
                    y.effort <= x.effort /\ FamilyRank(y.family) <= FamilyRank(x.family)
  <1>1. RiskierTask(task, task)
    BY DEF RiskierTask, IsTask, Dimensions, Riskier
  <1> QED
    BY <1>1, OffsetMovesScore, RecommendIsMonotone

\* Without a family ceiling or an explicit family, a weak family is recommended
\* only for a task that is safe for it, whatever the last route was.
THEOREM WeakRouteIsSafe ==
    ASSUME NEW task, IsTask(task), NEW w \in Weights, NEW c \in SelectionConstraints,
           NEW offset \in Int, NEW prior \in Priors, NEW margin \in Nat,
           c.familyCeiling = None, c.explicitFamily = None
    PROVE  LET x == Recommend(task, w, c, offset, prior, margin) IN
           /\ x.family = Luna => Safe(task.dims, 1)
           /\ x.family = Terra => Safe(task.dims, 2)
  <1> DEFINE score == ScoreOf(task, w, offset)
             before == FamilyWithHysteresis(task.dims, score, prior.family, margin)
             wanted == FamilyWanted(task, w, c, offset, prior, margin)
             r == Select(task, w, c, offset, prior, margin)
             x == Recommend(task, w, c, offset, prior, margin)
  <1>1. task.dims \in Dimensions /\ prior.family \in Families \cup {None}
    BY DEF IsTask, Priors, OptFamily
  <1>2. score \in Int
    BY ScoreType
  <1>3. /\ before \in {Luna, Terra, Sol}
        /\ before = Luna => Safe(task.dims, 1)
        /\ before = Terra => Safe(task.dims, 2)
    <2> HIDE DEF score
    <2> QED
      BY <1>1, <1>2, FamilyType, WeakFamilyIsSafe
  <1>4. wanted = ApplyFamilyConstraints(before, c)
    BY DEF FamilyWanted, ScoreOf
  <1>5. /\ wanted = Luna => before = Luna
        /\ wanted = Terra => before \in {Luna, Terra}
    <2> HIDE DEF before, wanted
    <2> QED
      BY <1>3, <1>4 DEF ApplyFamilyConstraints, FamilyRank, SelectionConstraints, FamilyBound
  <1>6. r.family \in {Sol, wanted} /\ x.family \in {Sol, r.family}
    BY SelectUnfolds, RecommendUnfolds
  <1> HIDE DEF before, wanted, r, x
  <1> QED
    BY <1>1, <1>3, <1>5, <1>6, SafeMeans DEF x

\* Correlated risk recommends at least Sol and High unless a ceiling or an
\* explicit choice is there: risk_effort_floor, applied last.
THEOREM RiskIsFloored ==
    ASSUME NEW task, IsTask(task), NEW w \in Weights, NEW c \in SelectionConstraints,
           NEW offset \in Int, NEW prior \in Priors, NEW margin \in Nat,
           RiskFloor(task.type, task.dims)
    PROVE  LET x == Recommend(task, w, c, offset, prior, margin) IN
           /\ c.effortCeiling = None /\ c.explicitEffort = None => x.effort >= High
           /\ c.familyCeiling = None /\ c.explicitFamily = None => FamilyRank(x.family) = 2
  <1> DEFINE r == Select(task, w, c, offset, prior, margin)
             x == Recommend(task, w, c, offset, prior, margin)
  <1>1. r.family \in Families /\ r.effort \in Levels
    BY SelectTypes
  <1>2. /\ x.family = IF RaisesFamily(task, c, r.family) THEN Sol ELSE r.family
        /\ x.effort = IF RaisesEffort(task, c, r.effort) THEN High ELSE r.effort
    BY RecommendUnfolds
  <1> HIDE DEF r, x
  <1> QED
    BY <1>1, <1>2, RankMeans DEF RaisesFamily, RaisesEffort, x

\* A level hysteresis keeps or score selects is never Ultra.
LEMMA SequentialIsBelowUltra ==
    ASSUME NEW score \in Int, NEW prior \in Levels \cup {None}, NEW margin \in Nat
    PROVE  EffortWithHysteresis(score, prior, margin) \in Minimal..MaxLevel
  <1>1. EffortFor(score) \in 1..5
    BY EffortForType
  <1>2. ~Kept(score, Ultra, EffortFor(score), margin)
    BY <1>1, KeptMeans
  <1> QED
    BY <1>1, <1>2, EffortUnfolds

\* Unless it is asked for by name, Ultra is recommended only with authority to
\* delegate, to a candidate for it or at the demand of a policy floor.
THEOREM UltraNeedsCandidacy ==
    ASSUME NEW task, IsTask(task), NEW w \in Weights, NEW c \in SelectionConstraints,
           NEW offset \in Int, NEW prior \in Priors, NEW margin \in Nat,
           Recommend(task, w, c, offset, prior, margin).effort = Ultra,
           c.explicitEffort # Ultra
    PROVE  c.authorized /\ (UltraCandidate(task, w) \/ c.effortFloor = Ultra)
  <1> DEFINE score == ScoreOf(task, w, offset)
             sequential == EffortWithHysteresis(score, prior.effort, margin)
             wanted == Wanted(task, w, c, offset, prior, margin)
             r == Select(task, w, c, offset, prior, margin)
  <1>1. sequential \in Minimal..MaxLevel
    <2>1. score \in Int /\ prior.effort \in Levels \cup {None}
      BY ScoreType DEF Priors, OptLevel
    <2> HIDE DEF score
    <2> QED
      BY <2>1, SequentialIsBelowUltra
  <1>2. r.effort = Ultra
    BY RecommendUnfolds
  <1>3. wanted = Ultra /\ c.authorized
    BY <1>2, SelectUnfolds
  <1>4. wanted = ApplyEffortConstraints(
                    IF UltraCandidate(task, w) /\ c.explicitEffort = None
                    THEN IF c.authorized THEN Ultra ELSE MaxLevel ELSE sequential, c)
    BY DEF Wanted, ScoreOf
  <1> HIDE DEF sequential, wanted
  <1>5. ASSUME ~UltraCandidate(task, w) PROVE c.effortFloor = Ultra
    <2>1. ApplyEffortConstraints(sequential, c) = Ultra
      BY <1>3, <1>4, <1>5
    <2>2. /\ c.effortFloor \in Levels \cup {None} /\ c.effortCeiling \in Levels \cup {None}
          /\ c.explicitEffort \in Levels \cup {None}
      BY DEF SelectionConstraints, OptLevel
    <2> QED
      BY <1>1, <2>1, <2>2 DEF ApplyEffortConstraints
  <1> QED
    BY <1>3, <1>5

-----------------------------------------------------------------------------
(* Hysteresis settles *)

\* What the router makes of the level and of the family it selected or kept: the
\* bounds, the explicit choices, Ultra and the risk floor.
FinalEffort(task, w, c, sequential) ==
    LET wanted == ApplyEffortConstraints(
                      IF UltraCandidate(task, w) /\ c.explicitEffort = None
                      THEN IF c.authorized THEN Ultra ELSE MaxLevel ELSE sequential, c)
        selected == IF wanted = Ultra /\ ~c.authorized THEN MaxLevel ELSE wanted
    IN IF RaisesEffort(task, c, selected) THEN High ELSE selected
GoesToSol(task, w, c) ==
    \/ UltraCandidate(task, w) /\ c.explicitEffort = None
    \/ /\ c.explicitFamily = None
       /\ c.explicitEffort = Ultra \/ (c.explicitEffort = None /\ c.effortFloor = Ultra)
FinalFamily(task, w, c, family) ==
    LET selected == IF GoesToSol(task, w, c) THEN Sol ELSE ApplyFamilyConstraints(family, c)
    IN IF RaisesFamily(task, c, selected) THEN Sol ELSE selected

\* Only the prior's level plays a part in the level, and only its family in the
\* family: whether Ultra takes the task to Sol does not depend on the prior.
LEMMA RecommendSplits ==
    ASSUME NEW task, IsTask(task), NEW w \in Weights, NEW c \in SelectionConstraints,
           NEW offset \in Int, NEW prior \in Priors, NEW margin \in Nat
    PROVE  LET x == Recommend(task, w, c, offset, prior, margin)
               score == ScoreOf(task, w, offset)
           IN /\ x.effort = FinalEffort(task, w, c, EffortWithHysteresis(score, prior.effort, margin))
              /\ x.family = FinalFamily(task, w, c,
                                FamilyWithHysteresis(task.dims, score, prior.family, margin))
  <1> DEFINE score == ScoreOf(task, w, offset)
             sequential == EffortWithHysteresis(score, prior.effort, margin)
             wanted == Wanted(task, w, c, offset, prior, margin)
             r == Select(task, w, c, offset, prior, margin)
             x == Recommend(task, w, c, offset, prior, margin)
  <1>1. sequential \in Minimal..MaxLevel
    <2>1. score \in Int /\ prior.effort \in Levels \cup {None}
      BY ScoreType DEF Priors, OptLevel
    <2> HIDE DEF score
    <2> QED
      BY <2>1, SequentialIsBelowUltra
  <1>2. wanted = ApplyEffortConstraints(
                    IF UltraCandidate(task, w) /\ c.explicitEffort = None
                    THEN IF c.authorized THEN Ultra ELSE MaxLevel ELSE sequential, c)
    BY DEF Wanted, ScoreOf
  <1>3. FamilyWanted(task, w, c, offset, prior, margin) =
          ApplyFamilyConstraints(FamilyWithHysteresis(task.dims, score, prior.family, margin), c)
    BY DEF FamilyWanted, ScoreOf
  <1>4. ToSol(task, w, c, offset, prior, margin) <=> GoesToSol(task, w, c)
    <2>1. /\ c.effortFloor \in Levels \cup {None} /\ c.effortCeiling \in Levels \cup {None}
          /\ c.explicitEffort \in Levels \cup {None}
      BY DEF SelectionConstraints, OptLevel
    <2> HIDE DEF sequential, wanted
    <2>2. ASSUME ~ (UltraCandidate(task, w) /\ c.explicitEffort = None)
          PROVE  wanted = Ultra <=>
                   c.explicitEffort = Ultra \/ (c.explicitEffort = None /\ c.effortFloor = Ultra)
      <3>1. wanted = ApplyEffortConstraints(sequential, c)
        BY <1>2, <2>2
      <3> QED
        BY <1>1, <2>1, <3>1 DEF ApplyEffortConstraints
    <2> QED
      BY <2>2, Zenon DEF ToSol, GoesToSol, wanted
  <1>5. /\ r.family = IF GoesToSol(task, w, c) THEN Sol
                      ELSE ApplyFamilyConstraints(
                               FamilyWithHysteresis(task.dims, score, prior.family, margin), c)
        /\ r.effort = IF wanted = Ultra /\ ~c.authorized THEN MaxLevel ELSE wanted
    BY <1>3, <1>4, SelectUnfolds
  <1>6. /\ x.family = IF RaisesFamily(task, c, r.family) THEN Sol ELSE r.family
        /\ x.effort = IF RaisesEffort(task, c, r.effort) THEN High ELSE r.effort
    BY RecommendUnfolds
  <1>7. x.effort = FinalEffort(task, w, c, sequential)
    <2> HIDE DEF sequential, wanted, r, x
    <2> QED
      BY <1>2, <1>5, <1>6, Zenon DEF FinalEffort
  <1>8. x.family = FinalFamily(task, w, c,
                        FamilyWithHysteresis(task.dims, score, prior.family, margin))
    <2> HIDE DEF sequential, wanted, r, x, score
    <2> QED
      BY <1>5, <1>6, Zenon DEF FinalFamily
  <1> QED
    BY <1>7, <1>8

\* The bounds close: a level no higher than what they make of some level stays no
\* higher than what they make of itself, which is no higher either.
LEMMA FinalEffortCloses ==
    ASSUME NEW task, IsTask(task), NEW w \in Weights, NEW c \in SelectionConstraints,
           NEW x \in Minimal..MaxLevel, NEW y \in Minimal..MaxLevel,
           y <= FinalEffort(task, w, c, x)
    PROVE  /\ FinalEffort(task, w, c, x) \in Levels /\ FinalEffort(task, w, c, y) \in Levels
           /\ y <= FinalEffort(task, w, c, y)
           /\ FinalEffort(task, w, c, y) <= FinalEffort(task, w, c, x)
  <1>1. /\ c.effortFloor \in -1..6 /\ c.effortCeiling \in -1..6 /\ c.explicitEffort \in -1..6
    BY DEF SelectionConstraints, OptLevel
  <1>2. CASE UltraCandidate(task, w) /\ c.explicitEffort = None
    BY <1>1, <1>2 DEF FinalEffort, ApplyEffortConstraints, RaisesEffort
  <1>3. CASE ~ (UltraCandidate(task, w) /\ c.explicitEffort = None)
    <2>1. ASSUME NEW z \in Minimal..MaxLevel
          PROVE  FinalEffort(task, w, c, z) =
                   LET wanted == ApplyEffortConstraints(z, c)
                       selected == IF wanted = Ultra /\ ~c.authorized THEN MaxLevel ELSE wanted
                   IN IF RaisesEffort(task, c, selected) THEN High ELSE selected
      BY <1>3, Zenon DEF FinalEffort
    <2> QED
      BY <1>1, <2>1, SMTT(60) DEF ApplyEffortConstraints, RaisesEffort
  <1> QED
    BY <1>2, <1>3

\* The strongest level of a catalog's entry that is no higher than a bound.
StrongestOf(levels, bound, level) ==
    level \in levels /\ level <= bound /\ \A o \in levels : o <= bound => o <= level

\* Each of three levels is the strongest one at or below what the router makes of
\* the one before it: the third is the second, wherever the first came from.
LEMMA EffortSettles ==
    ASSUME NEW task, IsTask(task), NEW w \in Weights, NEW c \in SelectionConstraints,
           NEW offset \in Int, NEW margin \in Nat, NEW levels \in SUBSET Levels,
           NEW prior \in OptLevel, NEW first \in Levels, NEW second \in Levels, NEW third \in Levels,
           LET after(e) == FinalEffort(task, w, c,
                               EffortWithHysteresis(ScoreOf(task, w, offset), e, margin))
           IN /\ StrongestOf(levels, after(prior), first)
              /\ StrongestOf(levels, after(first), second)
              /\ StrongestOf(levels, after(second), third)
    PROVE  third = second
  <1> DEFINE score == ScoreOf(task, w, offset)
             kept(e) == EffortWithHysteresis(score, e, margin)
             final(x) == FinalEffort(task, w, c, x)
  <1>1. \A e \in OptLevel :
           /\ kept(e) \in Minimal..MaxLevel
           /\ kept(e) = e \/ kept(e) = EffortFor(score)
    <2>1. score \in Int
      BY ScoreType
    <2> HIDE DEF score
    <2> QED
      BY <2>1, SequentialIsBelowUltra, EffortUnfolds DEF OptLevel
  <1>2. \A x, y \in Minimal..MaxLevel : y <= final(x) =>
           /\ final(x) \in Levels /\ final(y) \in Levels
           /\ y <= final(y) /\ final(y) <= final(x)
    BY FinalEffortCloses
  <1>3. /\ prior \in OptLevel /\ first \in OptLevel /\ second \in OptLevel
    BY DEF OptLevel
  <1>4. /\ StrongestOf(levels, final(kept(prior)), first)
        /\ StrongestOf(levels, final(kept(first)), second)
        /\ StrongestOf(levels, final(kept(second)), third)
    OBVIOUS
  <1> HIDE DEF kept, final
  <1>5. ASSUME NEW x \in Minimal..MaxLevel, NEW y \in Levels, NEW z \in Levels,
               StrongestOf(levels, final(x), y), y \in Minimal..MaxLevel,
               StrongestOf(levels, final(y), z)
        PROVE  z = y
    <2>1. /\ y <= final(x) /\ y \in levels /\ z \in levels
          /\ z <= final(y)
          /\ z <= final(x) => z <= y
          /\ y <= final(y) => y <= z
      BY <1>5, Zenon DEF StrongestOf
    <2>2. /\ final(x) \in Levels /\ final(y) \in Levels
          /\ y <= final(y) /\ final(y) <= final(x)
      BY <1>2, <1>5, <2>1
    <2> QED
      BY <2>1, <2>2
  <1>6. ASSUME NEW x, NEW y \in Levels, NEW z \in Levels,
               StrongestOf(levels, x, y), StrongestOf(levels, x, z)
        PROVE  z = y
    <2>1. y <= z /\ z <= y
      BY <1>6, Zenon DEF StrongestOf
    <2> QED
      BY <2>1
  <1>7. CASE kept(second) = second
    BY <1>1, <1>3, <1>4, <1>5, <1>7
  <1>8. CASE kept(second) # second /\ kept(first) # first
    BY <1>1, <1>3, <1>4, <1>6, <1>8
  <1>9. CASE kept(second) # second /\ kept(first) = first
    <2>1. second = first
      BY <1>1, <1>3, <1>4, <1>5, <1>9
    <2> QED
      BY <1>9, <2>1
  <1> QED
    BY <1>7, <1>8, <1>9

\* An explicit family does not depend on the last route's.
LEMMA ExplicitFamilyIsFinal ==
    ASSUME NEW task, NEW w, NEW c, NEW x, NEW y, c.explicitFamily # None
    PROVE  FinalFamily(task, w, c, x) = FinalFamily(task, w, c, y)
  BY DEF FinalFamily, ApplyFamilyConstraints

\* A family that is kept is next to the selected one.
LEMMA KeptIsNeighbour ==
    ASSUME NEW d, NEW score, NEW prior, NEW selected, NEW margin,
           KeptFamily(d, score, prior, selected, margin)
    PROVE  prior = selected + 1 \/ prior = selected - 1
  <1>1. {prior, selected} = {0, 1} \/ {prior, selected} = {1, 2}
    BY DEF KeptFamily
  <1>2. \/ (prior = 0 /\ selected = 1) \/ (prior = 1 /\ selected = 0)
        \/ (prior = 1 /\ selected = 2) \/ (prior = 2 /\ selected = 1)
    BY <1>1
  <1> QED
    BY <1>2

\* A recommended family, as the last route's, is recommended again.
LEMMA FamilySettles ==
    ASSUME NEW task, IsTask(task), NEW w \in Weights, NEW c \in SelectionConstraints,
           NEW offset \in Int, NEW prior \in OptFamily, NEW margin \in Nat
    PROVE  LET after(f) == FinalFamily(task, w, c,
                               FamilyWithHysteresis(task.dims, ScoreOf(task, w, offset), f, margin))
           IN after(after(prior)) = after(prior)
  <1> DEFINE score == ScoreOf(task, w, offset)
             kept(f) == FamilyWithHysteresis(task.dims, score, f, margin)
             final(f) == FinalFamily(task, w, c, f)
             selected == FamilyFor(task.dims, score)
  <1>1. c.familyFloor \in -1..2 /\ c.familyCeiling \in -1..2 /\ c.explicitFamily \in -1..3
    BY DEF SelectionConstraints, FamilyBound, OptFamily
  <1>2. selected \in 0..2 /\ score \in Int
    <2>1. score \in Int
      BY ScoreType
    <2> HIDE DEF score
    <2> QED
      BY <2>1, FamilyForType
  <1>3. \A f \in -1..3 : kept(f) \in 0..2
    <2> HIDE DEF score
    <2> QED
      BY <1>2, FamilyType
  <1>4. \A f \in -1..3 : \/ kept(f) = selected
                         \/ kept(f) = f /\ (f = selected + 1 \/ f = selected - 1)
    <2> SUFFICES ASSUME NEW f \in -1..3, kept(f) # selected
                 PROVE  kept(f) = f /\ (f = selected + 1 \/ f = selected - 1)
      OBVIOUS
    <2>1. kept(f) = f /\ KeptFamily(task.dims, score, f, selected, margin)
      <3> HIDE DEF score
      <3> QED
        BY <1>2, FamilyUnfolds
    <2> HIDE DEF score, selected, kept
    <2>3. f = selected + 1 \/ f = selected - 1
      BY <2>1, KeptIsNeighbour
    <2> QED
      BY <2>1, <2>3
  <1> HIDE DEF kept, selected
  <1>5. CASE c.explicitFamily # None \/ GoesToSol(task, w, c)
    BY <1>5, RankMeans DEF FinalFamily, ApplyFamilyConstraints, RaisesFamily
  <1>6. CASE c.explicitFamily = None /\ ~GoesToSol(task, w, c)
    <2> DEFINE raises == RiskFloor(task.type, task.dims)
               clamped(f) ==
                   LET raised == IF c.familyFloor # None /\ f < c.familyFloor
                                 THEN c.familyFloor ELSE f
                   IN IF /\ c.familyCeiling # None /\ raised > c.familyCeiling
                         /\ c.familyFloor # None => c.familyFloor <= c.familyCeiling
                      THEN c.familyCeiling ELSE raised
    <2>1. \A f \in 0..2 : ApplyFamilyConstraints(f, c) = clamped(f) /\ clamped(f) \in 0..2
      BY <1>1, <1>6 DEF ApplyFamilyConstraints, FamilyRank
    <2>2. \A f \in 0..2 : RaisesFamily(task, c, f) <=>
             raises /\ f < 2 /\ (c.familyCeiling # None => 2 <= c.familyCeiling)
      BY <1>1, <1>6 DEF RaisesFamily, FamilyRank
    <2> HIDE DEF raises, clamped
    <2>3. \A f \in 0..2 : final(f) =
             IF raises /\ clamped(f) < 2 /\ (c.familyCeiling # None => 2 <= c.familyCeiling)
             THEN 2 ELSE clamped(f)
      BY <1>6, <2>1, <2>2 DEF FinalFamily
    <2> HIDE DEF final
    <2> DEFINE x == kept(prior)
               y == kept(final(x))
    <2>4. /\ x \in 0..2 /\ final(x) \in 0..2 /\ y \in 0..2
          /\ prior \in -1..3
          /\ x = selected \/ (x = prior /\ (prior = selected + 1 \/ prior = selected - 1))
          /\ y = selected \/ y = final(x)
          /\ x = final(x) => y = x
      BY <1>3, <1>4, <2>1, <2>3 DEF OptFamily
    <2>5. /\ final(x) = IF raises /\ clamped(x) < 2 /\ (c.familyCeiling # None => 2 <= c.familyCeiling)
                        THEN 2 ELSE clamped(x)
          /\ final(y) = IF raises /\ clamped(y) < 2 /\ (c.familyCeiling # None => 2 <= c.familyCeiling)
                        THEN 2 ELSE clamped(y)
      BY <2>3, <2>4
    <2> HIDE DEF x, y
    <2>6. final(y) = final(x)
      BY <1>1, <1>2, <2>4, <2>5, SMTT(60) DEF clamped
    <2> QED
      BY <2>6 DEF x, y, final, kept
  <1> QED
    BY <1>5, <1>6 DEF kept

-----------------------------------------------------------------------------
(* Bounds *)

\* Without an explicit level the route is within the bounds of the level, short of
\* Ultra without authorization and above the ceiling only where the floor is; without
\* an explicit family it is within those of the family, unless Ultra takes it to Sol.
THEOREM BoundsAreKept ==
    ASSUME NEW task, IsTask(task), NEW w \in Weights, NEW c \in SelectionConstraints,
           NEW offset \in Int, NEW prior \in Priors, NEW margin \in Nat
    PROVE  LET x == Recommend(task, w, c, offset, prior, margin) IN
           /\ c.explicitEffort = None =>
                 /\ x.effort >= IF c.authorized THEN c.effortFloor ELSE AtMost(c.effortFloor, MaxLevel)
                 /\ \/ c.effortCeiling = None \/ x.effort <= c.effortCeiling
                    \/ c.effortFloor # None /\ c.effortFloor > c.effortCeiling
           /\ c.explicitFamily = None =>
                 /\ FamilyRank(x.family) >= c.familyFloor
                 /\ \/ c.familyCeiling = None \/ FamilyRank(x.family) <= c.familyCeiling
                    \/ c.familyFloor # None /\ c.familyFloor > c.familyCeiling
                    \/ GoesToSol(task, w, c)
  <1> DEFINE score == ScoreOf(task, w, offset)
             sequential == EffortWithHysteresis(score, prior.effort, margin)
             kept == FamilyWithHysteresis(task.dims, score, prior.family, margin)
             x == Recommend(task, w, c, offset, prior, margin)
  <1>1. sequential \in Levels /\ kept \in {Luna, Terra, Sol}
    <2>1. score \in Int /\ prior.effort \in Levels \cup {None} /\ prior.family \in Families \cup {None}
      BY ScoreType DEF Priors, OptLevel, OptFamily
    <2> HIDE DEF score
    <2> QED
      BY <2>1, EffortType, FamilyType
  <1>2. x.effort = FinalEffort(task, w, c, sequential) /\ x.family = FinalFamily(task, w, c, kept)
    BY RecommendSplits
  <1>3. /\ c.effortFloor \in Levels \cup {None} /\ c.effortCeiling \in Levels \cup {None}
        /\ c.familyFloor \in {0, 1, 2, -1} /\ c.familyCeiling \in {0, 1, 2, -1}
    BY DEF SelectionConstraints, OptLevel, FamilyBound
  <1> HIDE DEF sequential, kept, x
  <1>4. ASSUME c.explicitEffort = None
        PROVE  /\ x.effort >= IF c.authorized THEN c.effortFloor
                              ELSE AtMost(c.effortFloor, MaxLevel)
               /\ \/ c.effortCeiling = None \/ x.effort <= c.effortCeiling
                  \/ c.effortFloor # None /\ c.effortFloor > c.effortCeiling
    <2> DEFINE chosen == IF UltraCandidate(task, w) /\ c.explicitEffort = None
                         THEN IF c.authorized THEN Ultra ELSE MaxLevel ELSE sequential
               wanted == ApplyEffortConstraints(chosen, c)
               selected == IF wanted = Ultra /\ ~c.authorized THEN MaxLevel ELSE wanted
    <2>1. chosen \in Levels
      BY <1>1
    <2> HIDE DEF chosen
    <2>2. /\ wanted \in Levels /\ wanted >= c.effortFloor
          /\ \/ c.effortCeiling = None \/ wanted <= c.effortCeiling
             \/ c.effortFloor # None /\ c.effortFloor > c.effortCeiling
      BY <1>3, <1>4, <2>1 DEF ApplyEffortConstraints
    <2>3. x.effort = IF RaisesEffort(task, c, selected) THEN High ELSE selected
      BY <1>2 DEF FinalEffort, chosen
    <2> HIDE DEF wanted
    <2>4. RaisesEffort(task, c, selected) =>
             selected < High /\ (c.effortCeiling # None => High <= c.effortCeiling)
      BY DEF RaisesEffort
    <2> QED
      BY <1>3, <2>2, <2>3, <2>4, SMTT(60) DEF AtMost
  <1>5. ASSUME c.explicitFamily = None
        PROVE  /\ FamilyRank(x.family) >= c.familyFloor
               /\ \/ c.familyCeiling = None \/ FamilyRank(x.family) <= c.familyCeiling
                  \/ c.familyFloor # None /\ c.familyFloor > c.familyCeiling
                  \/ GoesToSol(task, w, c)
    <2> DEFINE applied == ApplyFamilyConstraints(kept, c)
               selected == IF GoesToSol(task, w, c) THEN Sol ELSE applied
    <2>1. /\ applied \in {0, 1, 2} /\ applied >= c.familyFloor
          /\ \/ c.familyCeiling = None \/ applied <= c.familyCeiling
             \/ c.familyFloor # None /\ c.familyFloor > c.familyCeiling
      BY <1>1, <1>3, <1>5 DEF ApplyFamilyConstraints, FamilyRank
    <2>2. x.family = IF RaisesFamily(task, c, selected) THEN Sol ELSE selected
      BY <1>2 DEF FinalFamily
    <2>3. RaisesFamily(task, c, selected) => (c.familyCeiling # None => 2 <= c.familyCeiling)
      BY <1>3 DEF RaisesFamily, FamilyRank
    <2> HIDE DEF applied
    <2> QED
      BY <1>3, <2>1, <2>2, <2>3, SMTT(60) DEF FamilyRank
  <1> QED
    BY <1>4, <1>5 DEF x
=============================================================================
