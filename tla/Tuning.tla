------------------------------- MODULE Tuning -------------------------------
(***************************************************************************)
(* The pure part of state/tuning.rs: joining feedback events to logged     *)
(* decisions, counting the eligible ones, and turning the counts into the  *)
(* score offset that is stored for the repository.  0 stands for "no       *)
(* offset": a repository without an entry routes exactly like one whose    *)
(* offset is zero (ScoreCalibration::is_zero).                             *)
(***************************************************************************)
EXTENDS Integers, FiniteSets

FeedbackKinds == {"right", "overkill", "underpowered", "failed"}
RouteSources == {"local", "native", "explicit"}
DecisionModes == {"launched", "agent", "preview"}

Counts == [FeedbackKinds -> Nat]

\* A decision whose feedback is allowed to teach anything: previews and routes
\* that cauto only preserved are excluded from the join.
\* (Fault: preserved routes teach as well.)
TeachesNative(decision) == decision.mode # "preview"
Teaches(decision) ==
    /\ decision.mode # "preview"
    /\ decision.source # "native"

\* analyze_repository: events whose decision is unknown are skipped.
CountFeedback(decisions, feedback) ==
    [kind \in FeedbackKinds |->
        Cardinality({i \in DOMAIN feedback :
            /\ feedback[i].kind = kind
            /\ feedback[i].decision \in DOMAIN decisions
            /\ Teaches(decisions[feedback[i].decision])})]

AddCounts(a, b) == [kind \in FeedbackKinds |-> a[kind] + b[kind]]

EligibleTotal(counts) ==
    counts["right"] + counts["underpowered"] + counts["overkill"]

RecommendedOffset == 5
Offsets == {-RecommendedOffset, 0, RecommendedOffset}

Recommendation(counts) ==
    LET eligible == EligibleTotal(counts) IN
    IF eligible < 3 THEN 0
    ELSE IF counts["underpowered"] * 10 >= eligible * 7 THEN RecommendedOffset
    ELSE IF counts["overkill"] * 10 >= eligible * 7 THEN -RecommendedOffset
    ELSE 0

\* save_recommendation on one entry: without a recommendation the entry stays.
\* (Fault: the recommendation is added to the entry.)
SavedOffsetAdded(current, recommended) == current + recommended
SavedOffset(current, recommended) ==
    IF recommended = 0 THEN current ELSE recommended
=============================================================================
