--------------------------- MODULE RouteSelection ---------------------------
(***************************************************************************)
(* The deterministic router (routing/mod.rs, select.rs, score.rs and       *)
(* semantic.rs): from the dimensions of a task, the policy's bounds, the   *)
(* explicit choices, the repository's calibration and its last route to a  *)
(* recommended model family and reasoning level.                           *)
(*                                                                         *)
(* Reasoning levels and families are numbers in the order of the code's    *)
(* enumerations; None is Option::None for both.                            *)
(***************************************************************************)
EXTENDS Integers

None == -1

Luna == 0
Terra == 1
Sol == 2
Other == 3
Families == {Luna, Terra, Sol, Other}
\* ModelFamily::rank: a family outside the taxonomy ranks with Sol.
FamilyRank(family) == IF family = Other THEN 2 ELSE family

Minimal == 0
Low == 1
Medium == 2
High == 3
ExtraHigh == 4
MaxLevel == 5
Ultra == 6
Levels == Minimal..Ultra

TaskTypes == {"empty", "documentation", "mechanical", "coding", "diagnosis",
              "architecture", "research", "review"}
Dimensions ==
    [scope : 0..4, ambiguity : 0..4, cost : 0..4, runtime : 0..4, depth : 0..4,
     verification : 0..4, parallel : 0..4]
Weights ==
    [scope : 0..100, ambiguity : 0..100, cost : 0..100, runtime : 0..100,
     depth : 0..100, verification : 0..100]
DefaultWeights ==
    [scope |-> 20, ambiguity |-> 20, cost |-> 20, runtime |-> 15, depth |-> 15,
     verification |-> 10]

AtMost(a, b) == IF a < b THEN a ELSE b
AtLeast(a, b) == IF a < b THEN b ELSE a
Near(a, b, margin) == a - b \in -margin..margin

-----------------------------------------------------------------------------
(* Score *)

Total(w) == w.scope + w.ambiguity + w.cost + w.runtime + w.depth + w.verification
Weighted(d, w) ==
    d.scope * w.scope + d.ambiguity * w.ambiguity + d.cost * w.cost
    + d.runtime * w.runtime + d.depth * w.depth + d.verification * w.verification

\* Rounded to the nearest point of 0..100; without any weight the score is 0.
NormalizedScore(d, w) ==
    IF Total(w) = 0 THEN 0
    ELSE LET denominator == 4 * Total(w) IN
         AtMost(100, (Weighted(d, w) * 100 + denominator \div 2) \div denominator)

\* calibrated_score: an offset upwards is ignored for light work and where the
\* baseline already selects Max, and stops short of Max; one downwards stops at 0.
\* (Fault: the subtraction wraps as a u8.)
CalibratedScoreWrapping(type, base, offset) ==
    IF offset > 0
    THEN IF type \in {"documentation", "mechanical"} \/ base >= 85
         THEN base ELSE AtMost(84, base + offset)
    ELSE (base + offset) % 256
CalibratedScore(type, base, offset) ==
    IF offset > 0
    THEN IF type \in {"documentation", "mechanical"} \/ base >= 85
         THEN base ELSE AtMost(84, base + offset)
    ELSE AtLeast(0, base + offset)

-----------------------------------------------------------------------------
(* Family and level *)

\* No dimension of risk above the bound.
Safe(d, bound) ==
    d.ambiguity <= bound /\ d.cost <= bound /\ d.runtime <= bound /\ d.depth <= bound

FamilyFor(d, score) ==
    IF score <= 20 /\ Safe(d, 1) THEN Luna
    ELSE IF score <= 45 /\ Safe(d, 2) THEN Terra
    ELSE Sol

EffortFor(score) ==
    IF score <= 20 THEN Low
    ELSE IF score <= 45 THEN Medium
    ELSE IF score <= 68 THEN High
    ELSE IF score <= 84 THEN ExtraHigh
    ELSE MaxLevel

\* family_with_hysteresis: the prior family stays within the band around the
\* boundary it shares with the selected one, a weaker prior only where the task
\* is safe for it.  (Fault: the safety of the weaker prior is not looked at.)
FamilyWithHysteresisUnguarded(d, score, prior, margin) ==
    LET selected == FamilyFor(d, score)
        retain ==
            \/ {prior, selected} = {Luna, Terra} /\ Near(score, 20, margin)
            \/ {prior, selected} = {Terra, Sol} /\ Near(score, 45, margin)
    IN IF margin # 0 /\ prior # None /\ retain THEN prior ELSE selected
FamilyWithHysteresis(d, score, prior, margin) ==
    LET selected == FamilyFor(d, score)
        retain ==
            \/ /\ {prior, selected} = {Luna, Terra}
               /\ Near(score, 20, margin)
               /\ prior = Luna => Safe(d, 1)
            \/ /\ {prior, selected} = {Terra, Sol}
               /\ Near(score, 45, margin)
               /\ prior = Terra => Safe(d, 2)
    IN IF margin # 0 /\ prior # None /\ retain THEN prior ELSE selected

\* The score that separates two adjacent levels, with the levels it separates.
Boundaries == {<<Low, Medium, 20>>, <<Medium, High, 45>>,
               <<High, ExtraHigh, 68>>, <<ExtraHigh, MaxLevel, 84>>}

\* effort_with_hysteresis: the prior level stays within the band around the
\* boundary it shares with the selected one.
\* (Fault: any prior stays near any boundary.)
EffortWithHysteresisOfAnyPrior(score, prior, margin) ==
    LET retain == \E b \in Boundaries : Near(score, b[3], margin)
    IN IF margin # 0 /\ prior # None /\ retain THEN prior ELSE EffortFor(score)
EffortWithHysteresis(score, prior, margin) ==
    LET selected == EffortFor(score)
        retain == \E b \in Boundaries :
                      {prior, selected} = {b[1], b[2]} /\ Near(score, b[3], margin)
    IN IF margin # 0 /\ prior # None /\ retain THEN prior ELSE selected

\* SelectionConstraints.  Policy bounds name families of the taxonomy only.
OptFamily == Families \cup {None}
OptLevel == Levels \cup {None}
FamilyBound == {Luna, Terra, Sol, None}
SelectionConstraints ==
    [explicitFamily : OptFamily, explicitEffort : OptLevel, authorized : BOOLEAN,
     familyFloor : FamilyBound, familyCeiling : FamilyBound,
     effortFloor : OptLevel, effortCeiling : OptLevel]

\* apply_family_constraints and apply_effort_constraints: the floor, then the
\* ceiling unless it contradicts the floor, and over both an explicit choice.
ApplyFamilyConstraints(family, c) ==
    LET raised  == IF c.familyFloor # None /\ FamilyRank(family) < FamilyRank(c.familyFloor)
                   THEN c.familyFloor ELSE family
        lowered == IF /\ c.familyCeiling # None
                      /\ FamilyRank(raised) > FamilyRank(c.familyCeiling)
                      /\ c.familyFloor # None =>
                             FamilyRank(c.familyFloor) <= FamilyRank(c.familyCeiling)
                   THEN c.familyCeiling ELSE raised
    IN IF c.explicitFamily # None THEN c.explicitFamily ELSE lowered

\* (Fault: no ceiling is taken for the lowest one.)
ApplyEffortConstraintsAbsentCeiling(effort, c) ==
    IF c.explicitEffort # None THEN c.explicitEffort
    ELSE AtMost(AtLeast(effort, c.effortFloor), c.effortCeiling)
ApplyEffortConstraints(effort, c) ==
    LET raised  == IF c.effortFloor # None /\ effort < c.effortFloor
                   THEN c.effortFloor ELSE effort
        lowered == IF /\ c.effortCeiling # None
                      /\ raised > c.effortCeiling
                      /\ c.effortFloor # None => c.effortFloor <= c.effortCeiling
                   THEN c.effortCeiling ELSE raised
    IN IF c.explicitEffort # None THEN c.explicitEffort ELSE lowered

\* risk_effort_floor: whether the task's correlated risks require at least High.
\* (Fault: a single dimension no longer counts as critical.)
RiskFloorWithoutCritical(type, d) ==
    /\ d.cost >= 3
    /\ d.ambiguity >= 2 \/ d.runtime >= 2 \/ d.verification >= 2
SevereCount(d) ==
    LET severe(v) == IF v >= 3 THEN 1 ELSE 0 IN
    severe(d.ambiguity) + severe(d.cost) + severe(d.runtime) + severe(d.depth)
    + severe(d.verification)
RiskFloor(type, d) ==
    \/ d.cost >= 4 \/ d.runtime >= 4 \/ d.verification >= 4
    \/ d.cost >= 3 /\ (d.ambiguity >= 2 \/ d.runtime >= 2 \/ d.verification >= 2)
    \/ SevereCount(d) >= 2
    \/ type \in {"research", "architecture"} /\ (d.ambiguity >= 3 \/ d.depth >= 3)
    \/ type = "diagnosis" /\ d.ambiguity >= 3 /\ (d.runtime >= 2 \/ d.verification >= 2)

-----------------------------------------------------------------------------
(* The route *)

\* A task: its type, its dimensions after the policy's rules and whether it
\* really has independent parallel tracks.
\* (Fault: the tracks are not looked at.)
UltraCandidateWithoutTracks(task, w) ==
    NormalizedScore(task.dims, w) >= 69 /\ task.dims.parallel >= 3
UltraCandidate(task, w) ==
    /\ NormalizedScore(task.dims, w) >= 69
    /\ task.dims.parallel >= 3
    /\ task.tracks

\* select::route.  A candidate for Ultra goes to Sol after the family bounds were
\* applied; the level passes its bounds afterwards.
Select(task, w, c, offset, prior, margin) ==
    LET score  == CalibratedScore(task.type, NormalizedScore(task.dims, w), offset)
        forced == UltraCandidate(task, w) /\ c.explicitEffort = None
        wanted == ApplyEffortConstraints(
                      IF forced THEN IF c.authorized THEN Ultra ELSE MaxLevel
                      ELSE EffortWithHysteresis(score, prior.effort, margin), c)
        family == IF forced \/ (wanted = Ultra /\ c.explicitFamily = None) THEN Sol
                  ELSE ApplyFamilyConstraints(
                           FamilyWithHysteresis(task.dims, score, prior.family, margin), c)
    IN [family |-> family,
        effort |-> IF wanted = Ultra /\ ~c.authorized THEN MaxLevel ELSE wanted]

\* routing::route: the risk floor comes last, below explicit choices and ceilings.
Recommend(task, w, c, offset, prior, margin) ==
    LET r == Select(task, w, c, offset, prior, margin)
        risky == RiskFloor(task.type, task.dims)
        raiseFamily == /\ risky
                       /\ c.explicitFamily = None
                       /\ FamilyRank(r.family) < FamilyRank(Sol)
                       /\ c.familyCeiling # None => FamilyRank(Sol) <= FamilyRank(c.familyCeiling)
        raiseEffort == /\ risky
                       /\ c.explicitEffort = None
                       /\ r.effort < High
                       /\ c.effortCeiling # None => High <= c.effortCeiling
    IN [family |-> IF raiseFamily THEN Sol ELSE r.family,
        effort |-> IF raiseEffort THEN High ELSE r.effort]
=============================================================================
