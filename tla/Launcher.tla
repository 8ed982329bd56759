------------------------------ MODULE Launcher ------------------------------
(***************************************************************************)
(* The one-shot launcher (application/route.rs) over the decision log: each *)
(* command routes a task with the repository's last logged route as prior,  *)
(* resolves the recommendation against the installed catalog and appends a  *)
(* decision record that later commands of the same repository start from.   *)
(* A command whose record cannot be written leaves no trace in this state.  *)
(***************************************************************************)
EXTENDS PolicyRules

CONSTANTS
    Repos,      \* repositories
    ModelIds,   \* model identifiers, listed in the catalog or not
    FamilyOf,   \* ModelFamily::from_model_id
    Scenarios   \* a sequence of machines: configuration, catalog, what is asked

NoModel == "no model"

\* A listed model.  Its family follows from its id.
ModelCapability ==
    [id : ModelIds, efforts : SUBSET Levels, hidden : BOOLEAN, supported : BOOLEAN,
     fastTier : BOOLEAN]

\* The command line: exact model, family, effort (cauto's or native), whether the
\* native effort is none of the levels, --allow-ultra, --allow-downgrade, whether Fast
\* is asked for (there or in the configuration), and whether there is a prompt at all.
Choice ==
    [model : ModelIds \cup {NoModel}, family : OptFamily, effort : OptLevel,
     foreignEffort : BOOLEAN, allowUltra : BOOLEAN, allowDowngrade : BOOLEAN,
     fast : BOOLEAN, prompt : BOOLEAN]

Route == [family : Families, effort : Levels]
Record ==
    [repo : Repos, mode : {"launched", "preview"}, request : Request, task : Task,
     choice : Choice,
     offset : -10..10, recommended : Route, model : ModelIds, family : Families,
     effort : Levels]
AgentRecord == [repo : Repos, mode : {"agent"}, family : Families, effort : Levels]

\* A machine: settings of config.toml, the rules of the user and of the project as
\* they are written, what AGENTS.md says of delegation, the catalog, how much of the
\* log's tail is read (in records), the logs earlier sessions left, and the bounds on
\* what the model tries.
Scenario ==
    [margin : 0..20, weights : Weights, optIn : BOOLEAN, autoDowngrade : BOOLEAN,
     defaultModel : ModelIds, defaultEffort : Levels,
     userRules : Seq(Rule), projectRules : Seq(Rule),
     instructed : BOOLEAN, explicitOnly : BOOLEAN,
     catalog : Seq(ModelCapability), tail : Nat,
     requests : SUBSET Request, choices : SUBSET Choice, offsets : SUBSET (-10..10),
     agentRoutes : SUBSET Route, earlier : SUBSET Seq(AgentRecord), maxLog : Nat]

ASSUME LauncherConstantsOK ==
    /\ FamilyOf \in [ModelIds -> Families]
    /\ NoModel \notin ModelIds
    /\ Scenarios \in Seq(Scenario)

VARIABLES
    scenario,  \* the number of the machine, fixed
    log        \* decisions.jsonl: the decision records of all repositories

vars == <<scenario, log>>

Machine == Scenarios[scenario]
Policy == Merge(Machine.userRules, Machine.projectRules)

Init ==
    /\ scenario \in DOMAIN Scenarios
    /\ log \in Machine.earlier

-----------------------------------------------------------------------------
(* What a command starts from *)

NoRoute == [family |-> None, effort |-> None]

\* latest_route: the last decision of the repository that is not a preview, in
\* the tail of the log.
\* (Faults: previews count; the repository is not compared.)
EligibleInAnyMode(d, repo) == d.repo = repo
EligibleInAnyRepo(d, repo) == d.mode # "preview"
Eligible(d, repo) == d.mode # "preview" /\ d.repo = repo

LatestRoute(records, repo) ==
    LET n == SelectLastInSubSeq(records, AtLeast(1, Len(records) - Machine.tail + 1),
                 Len(records), LAMBDA d : Eligible(d, repo))
    IN IF n = 0 THEN NoRoute
       ELSE [family |-> records[n].family, effort |-> records[n].effort]

\* prepare_route: history is only consulted when hysteresis is configured.
Prior(records, repo) ==
    IF Machine.margin > 0 THEN LatestRoute(records, repo) ELSE NoRoute

OrElse(a, b) == IF a # None THEN a ELSE b

\* The constraints resolve_prepared builds.  Without a prompt the configured
\* default model and effort stand in for explicit ones.
Constraints(task, choice) ==
    LET asked == OrElse(choice.family,
                        IF choice.model # NoModel THEN FamilyOf[choice.model] ELSE None)
        family == IF choice.prompt THEN asked ELSE OrElse(asked, FamilyOf[Machine.defaultModel])
        effort == IF choice.prompt THEN choice.effort
                  ELSE OrElse(choice.effort, Machine.defaultEffort)
    IN [explicitFamily |-> family,
        explicitEffort |-> effort,
        familyFloor |-> task.familyFloor, familyCeiling |-> task.familyCeiling,
        effortFloor |-> task.effortFloor, effortCeiling |-> task.effortCeiling,
        authorized |-> \/ choice.allowUltra
                       \/ task.delegation
                       \/ Machine.instructed /\ ~Machine.explicitOnly
                       \/ ~Machine.optIn /\ ~Machine.explicitOnly
                       \/ effort = Ultra]

Recommended(task, choice, offset, prior) ==
    Recommend(task, Machine.weights, Constraints(task, choice), offset, prior, Machine.margin)

-----------------------------------------------------------------------------
(* Resolution against the catalog *)

\* catalog.find and catalog.first_family, 0 when there is none.
Find(modelId) == SelectInSeq(Machine.catalog, LAMBDA m : m.id = modelId)
FirstFamily(family) ==
    SelectInSeq(Machine.catalog, LAMBDA m : ~m.hidden /\ FamilyOf[m.id] = family)

\* strongest_supported_at_or_below
StrongestAtOrBelow(efforts, level) ==
    CHOOSE e \in efforts : e <= level /\ \A o \in efforts : o <= level => o <= e

\* An effort was given, even if it is none of the levels and so constrains nothing.
ExplicitEffort(choice) == choice.effort # None \/ choice.foreignEffort

\* --allow-downgrade, or the setting where neither model nor effort is explicit.
\* (Fault: the setting covers explicit choices too.)
MayDowngradeBySetting(choice) == choice.allowDowngrade \/ Machine.autoDowngrade
MayDowngrade(choice) ==
    \/ choice.allowDowngrade
    \/ choice.model = NoModel /\ ~ExplicitEffort(choice) /\ Machine.autoDowngrade

Preset(model, effort) == [model |-> model, family |-> FamilyOf[model], effort |-> effort]

\* resolve_preset: the set of presets, empty when the command is refused.  An
\* explicit model the catalog does not list is taken as it is below Max; a listed
\* one must be selectable, have a Fast tier if that is asked for, and expose the level,
\* or a weaker one if that is allowed.
Resolve(route, choice) ==
    LET modelId == IF choice.model # NoModel THEN choice.model
                   ELSE IF choice.prompt THEN NoModel ELSE Machine.defaultModel
        n == IF modelId # NoModel THEN Find(modelId) ELSE FirstFamily(route.family)
    IN IF n = 0
       THEN IF choice.model # NoModel /\ route.effort < MaxLevel
            THEN {Preset(choice.model, route.effort)} ELSE {}
       ELSE LET m == Machine.catalog[n] IN
            IF ~m.supported \/ (choice.fast /\ ~m.fastTier) THEN {}
            ELSE IF route.effort \in m.efforts THEN {Preset(m.id, route.effort)}
            ELSE IF MayDowngrade(choice) /\ \E e \in m.efforts : e <= route.effort
                 THEN {Preset(m.id, StrongestAtOrBelow(m.efforts, route.effort))}
                 ELSE {}

-----------------------------------------------------------------------------
(* Commands *)

\* run_route: one command in a repository, launching Codex or (dry run, explain)
\* only previewing.  The record is written before Codex replaces the process; a
\* command that is refused, by an invalid rule to begin with, writes nothing.
RunRoute(repo, mode, request, choice, offset) ==
    LET task == TaskOf(Policy, request)
        r == Recommended(task, choice, offset, Prior(log, repo)) IN
    /\ Loads(Machine.userRules, Machine.projectRules)
    /\ \E p \in Resolve(r, choice) :
        log' = Append(log,
            [repo |-> repo, mode |-> mode, request |-> request, task |-> task,
             choice |-> choice, offset |-> offset, recommended |-> r, model |-> p.model,
             family |-> p.family, effort |-> p.effort])

\* A session of the adaptive agent (AgentRouter) logs a decision of its own: the
\* route it chose without history, or a native one it preserved.
AgentLogs(repo, route) ==
    log' = Append(log, [repo |-> repo, mode |-> "agent", family |-> route.family,
                        effort |-> route.effort])

Next ==
    /\ Len(log) < Machine.maxLog
    /\ UNCHANGED scenario
    /\ \E repo \in Repos :
          \/ \E mode \in {"launched", "preview"}, request \in Machine.requests,
                choice \in Machine.choices, offset \in Machine.offsets :
                RunRoute(repo, mode, request, choice, offset)
          \/ \E route \in Machine.agentRoutes : AgentLogs(repo, route)

Spec == Init /\ [][Next]_vars

-----------------------------------------------------------------------------
(* Properties *)

TypeOK ==
    /\ scenario \in DOMAIN Scenarios
    /\ log \in Seq(Record \cup AgentRecord)

\* The route cauto launched or previewed last, and the prior it started from.
Newest == log[Len(log)]
NewestIsRouted == Len(log) > 0 /\ Newest.mode # "agent"
NewestPrior == Prior(Front(log), Newest.repo)
Unbounded(task) == task.familyCeiling = None /\ task.effortCeiling = None
Asked == Constraints(Newest.task, Newest.choice)

\* Positions of the repository's launches and agent decisions, and whether one is
\* the next such decision after the other with nothing of its own cut off.
OwnDecisions(repo) == {n \in DOMAIN log : log[n].repo = repo /\ log[n].mode # "preview"}
Consecutive(m, n) ==
    /\ m \in OwnDecisions(log[n].repo) /\ n \in OwnDecisions(log[m].repo) /\ m < n
    /\ \A o \in m+1..n-1 : o \notin OwnDecisions(log[n].repo)
    /\ n - m <= Machine.tail
SameRequest(d, e) ==
    /\ d.mode = "launched" /\ e.mode = "launched"
    /\ d.task = e.task /\ d.choice = e.choice /\ d.offset = e.offset

\* Hysteresis settles: whatever a repository's history was, the third launch of
\* the same task repeats the second, with any previews and any other
\* repositories' decisions in between.
RepeatedLaunchesSettle ==
    \A i, j, k \in DOMAIN log :
        (Consecutive(i, j) /\ Consecutive(j, k)
         /\ SameRequest(log[i], log[j]) /\ SameRequest(log[j], log[k])) =>
           /\ log[k].model = log[j].model
           /\ log[k].effort = log[j].effort

\* Raising one dimension of risk never weakens the recommendation, whatever the
\* policy, the calibration and the repository's history (tests/routing.rs claims
\* it of the score alone).
RiskDimensions == {"scope", "ambiguity", "cost", "runtime", "depth", "verification"}
RaisingRiskNeverWeakens ==
    NewestIsRouted => \A dim \in RiskDimensions : Newest.task.dims[dim] < 4 =>
        LET riskier == [Newest.task EXCEPT !.dims[dim] = @ + 1]
            r == Recommended(riskier, Newest.choice, Newest.offset, NewestPrior)
        IN /\ r.effort >= Newest.recommended.effort
           /\ FamilyRank(r.family) >= FamilyRank(Newest.recommended.family)

\* A repository's calibration moves a route only its own way, and never lifts
\* documentation or mechanical work (README.md, "Calibration").
CalibrationDirection ==
    NewestIsRouted =>
        LET r == Recommended(Newest.task, Newest.choice, 0, NewestPrior)
            above == /\ Newest.recommended.effort >= r.effort
                     /\ FamilyRank(Newest.recommended.family) >= FamilyRank(r.family)
            below == /\ Newest.recommended.effort <= r.effort
                     /\ FamilyRank(Newest.recommended.family) <= FamilyRank(r.family)
        IN /\ Newest.offset > 0 => above
           /\ Newest.offset < 0 \/ Newest.task.type \in {"documentation", "mechanical"} => below

\* Work with correlated high risk is never recommended below Sol and High unless
\* the user or a policy ceiling says so: neither history nor calibration erases
\* the risk floors (ROUTING.md, "Calibration").
RiskFloorHolds ==
    NewestIsRouted =>
        LET d == Newest.task.dims
            risky == \/ \E v \in {d.cost, d.runtime, d.verification} : v = 4
                     \/ d.cost = 3 /\ \E v \in {d.ambiguity, d.runtime, d.verification} : v >= 2
        IN (risky /\ Unbounded(Newest.task)) =>
              /\ Asked.explicitEffort = None => Newest.recommended.effort >= High
              /\ Asked.explicitFamily = None => FamilyRank(Newest.recommended.family) = 2

\* Luna and Terra are only chosen for tasks whose every risk they are meant for,
\* also when a route is kept because the last one of the repository used them.
WeakFamilyOnlyWhereSafe ==
    (NewestIsRouted /\ Unbounded(Newest.task) /\ Asked.explicitFamily = None) =>
        /\ Newest.recommended.family = Luna => Safe(Newest.task.dims, 1)
        /\ Newest.recommended.family = Terra => Safe(Newest.task.dims, 2)

\* cauto starts Ultra of its own accord only with an authorization to delegate, and
\* only where the task's uncalibrated score and parallel tracks call for it or a
\* matched rule has it as its effort floor.
UltraIsEarned ==
    (NewestIsRouted /\ Newest.effort = Ultra /\ Asked.explicitEffort # Ultra) =>
        /\ Asked.authorized
        /\ \/ /\ Newest.task.tracks
              /\ Newest.task.dims.parallel >= 3
              /\ NormalizedScore(Newest.task.dims, Machine.weights) >= 69
           \/ Newest.task.effortFloor = Ultra

\* What is launched is never above what was recommended, and an explicit effort is
\* lowered only where the user allowed that.
DowngradesArePermitted ==
    NewestIsRouted =>
        /\ Newest.effort <= Newest.recommended.effort
        /\ (Newest.effort < Newest.recommended.effort /\ ExplicitEffort(Newest.choice)) =>
              Newest.choice.allowDowngrade

\* select.rs: an explicit family "takes precedence over policy bounds", and
\* README.md: "Explicit choices win."
ExplicitFamilyWins ==
    (NewestIsRouted /\ Newest.choice.family # None) => Newest.family = Newest.choice.family

\* The rules in force: the project's, and the user's whose ids the project has not
\* taken (ARCHITECTURE.md: "Duplicate project rule IDs replace lower-layer IDs").
InForce ==
    LET project == ToSet(Machine.projectRules) IN
    project \cup {r \in ToSet(Machine.userRules) : \A p \in project : p.id # r.id}

\* Where a rule's phrases stand in a prompt, and the rules whose evidence no other
\* rule's phrase overlaps.
Places(r, prompt) ==
    {x \in (DOMAIN prompt) \X (DOMAIN prompt) :
        x[1] <= x[2] /\ SubSeq(prompt, x[1], x[2]) \in ToSet(r.phrases)}
Evident(r, request) ==
    \/ PathMatches(r, request)
    \/ \E x \in Places(r, request.prompt) :
          \A o \in InForce \ {r} : \A y \in Places(o, request.prompt) :
              y[2] < x[1] \/ x[2] < y[1]

\* Policy is honoured.  A rule whose evidence is in the prompt takes part, and its
\* floors hold, whatever other rules, calibration and history say.  Its ceilings give
\* way only to the floor of another rule, which the record then shows as a conflict
\* (ARCHITECTURE.md: "conflicts between independently matched rules remain visible"),
\* and that of the family to Ultra.  Explicit choices come first, and Ultra needs its
\* authorization.
PolicyHonoured ==
    NewestIsRouted => \A r \in InForce : Evident(r, Newest.request) =>
        LET route == Newest.recommended
            conflicts == Newest.task.conflicts
            disputed(floor, ceiling) == \E s, t \in InForce :
                /\ {s.id, t.id} \subseteq Newest.task.rules /\ s # t
                /\ s[floor] > t[ceiling] /\ t[ceiling] # None
        IN /\ r.id \in Newest.task.rules
           /\ Asked.explicitEffort = None =>
                 /\ route.effort >= IF Asked.authorized THEN r.effortFloor
                                    ELSE AtMost(r.effortFloor, MaxLevel)
                 /\ \/ r.effortCeiling = None \/ route.effort <= r.effortCeiling
                    \/ "effort" \in conflicts /\ disputed("effortFloor", "effortCeiling")
           /\ Asked.explicitFamily = None =>
                 /\ FamilyRank(route.family) >= r.familyFloor
                 /\ \/ r.familyCeiling = None \/ FamilyRank(route.family) <= r.familyCeiling
                    \/ "family" \in conflicts /\ disputed("familyFloor", "familyCeiling")
                    \/ UltraCandidate(Newest.task, Machine.weights)
                    \/ Newest.task.effortFloor = Ultra \/ Asked.explicitEffort = Ultra

\* ARCHITECTURE.md: "GlobSet maps mentioned paths back to rules."
MentionedPathsCount ==
    NewestIsRouted => \A r \in InForce :
        (\E g \in ToSet(r.globs) : g \cap Newest.request.paths # {}) =>
            r.id \in Newest.task.rules
=============================================================================
