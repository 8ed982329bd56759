--------------------------- MODULE LauncherProofs ---------------------------
(***************************************************************************)
(* Safety of the launcher for every machine, catalog, task and history.     *)
(* A record's recommendation is the one the router makes of the record's    *)
(* own request and the prior the log held when it was appended; each        *)
(* property is then a fact about that one evaluation of the router.         *)
(***************************************************************************)
EXTENDS Launcher, PolicyRulesProofs

USE LauncherConstantsOK
USE DEF None, Minimal, Low, Medium, High, ExtraHigh, MaxLevel, Ultra, Levels,
        Luna, Terra, Sol, Other, Families

-----------------------------------------------------------------------------
(* Machines *)

LEMMA MachineType ==
    ASSUME scenario \in DOMAIN Scenarios
    PROVE  /\ Machine \in Scenario
           /\ Machine.margin \in Nat /\ Machine.tail \in Nat
           /\ Machine.weights \in Weights
           /\ Machine.defaultModel \in ModelIds /\ Machine.defaultEffort \in Levels
           /\ Machine.optIn \in BOOLEAN /\ Machine.autoDowngrade \in BOOLEAN
           /\ Machine.instructed \in BOOLEAN /\ Machine.explicitOnly \in BOOLEAN
           /\ Machine.catalog \in Seq(ModelCapability)
           /\ Machine.requests \subseteq Request /\ Machine.choices \subseteq Choice
           /\ Machine.offsets \subseteq -10..10 /\ Machine.agentRoutes \subseteq Route
           /\ Machine.earlier \subseteq Seq(AgentRecord)
           /\ Machine.userRules \in Seq(Rule) /\ Machine.projectRules \in Seq(Rule)
  <1>1. Machine \in Scenario
    BY DEF Machine
  <1>2. /\ Machine.tail \in Nat
        /\ Machine.weights \in Weights
        /\ Machine.defaultModel \in ModelIds /\ Machine.defaultEffort \in Levels
    BY <1>1 DEF Scenario
  <1>3. /\ Machine.optIn \in BOOLEAN /\ Machine.autoDowngrade \in BOOLEAN
        /\ Machine.instructed \in BOOLEAN /\ Machine.explicitOnly \in BOOLEAN
        /\ Machine.catalog \in Seq(ModelCapability)
    BY <1>1 DEF Scenario
  <1>4. /\ Machine.requests \subseteq Request /\ Machine.choices \subseteq Choice
        /\ Machine.offsets \subseteq -10..10 /\ Machine.agentRoutes \subseteq Route
        /\ Machine.earlier \subseteq Seq(AgentRecord)
        /\ Machine.userRules \in Seq(Rule) /\ Machine.projectRules \in Seq(Rule)
    BY <1>1 DEF Scenario
  <1>5. Machine.margin \in 0..20
    BY <1>1 DEF Scenario
  <1>6. Machine.margin \in Nat
    BY <1>5
  <1> QED
    BY <1>1, <1>2, <1>3, <1>4, <1>6, Zenon

\* What a record of the log holds, whichever kind it is.
LEMMA RecordShape ==
    ASSUME NEW d \in Record \cup AgentRecord
    PROVE  /\ d.family \in Families /\ d.effort \in Levels
           /\ d.mode # "agent" => d \in Record
  BY DEF Record, AgentRecord

\* latest_route yields the route of a logged decision, or none.
LEMMA PriorType ==
    ASSUME scenario \in DOMAIN Scenarios, NEW records \in Seq(Record \cup AgentRecord), NEW repo
    PROVE  Prior(records, repo) \in Priors
  <1> DEFINE from == AtLeast(1, Len(records) - Machine.tail + 1)
             I == {n \in from..Len(records) : Eligible(records[n], repo)}
             n == IF I # {} THEN Max(I) ELSE 0
  <1>1. from \in Nat /\ from >= 1
    BY MachineType DEF AtLeast
  <1>2. n # 0 => n \in 1..Len(records)
    <2> HIDE DEF from
    <2>1. I \subseteq 0..Len(records) /\ I \subseteq 1..Len(records)
      BY <1>1
    <2>2. I # {} => Max(I) \in I
      <3>1. Len(records) \in Nat
        OBVIOUS
      <3> HIDE DEF I
      <3> QED
        BY <2>1, <3>1, MaxType
    <2> QED
      BY <2>1, <2>2
  <1>3. LatestRoute(records, repo) =
           IF n = 0 THEN NoRoute ELSE [family |-> records[n].family, effort |-> records[n].effort]
    BY DEF LatestRoute, SelectLastInSubSeq
  <1>4. n # 0 => records[n].family \in Families /\ records[n].effort \in Levels
    <2> HIDE DEF n
    <2> QED
      BY <1>2, RecordShape
  <1> HIDE DEF n
  <1> QED
    BY <1>3, <1>4 DEF Prior, NoRoute, Priors, OptFamily, OptLevel

-----------------------------------------------------------------------------
(* Requests and resolution *)

\* The constraints of a command are constraints the router accepts.
LEMMA ConstraintsType ==
    ASSUME scenario \in DOMAIN Scenarios, NEW task \in Task, NEW choice \in Choice
    PROVE  Constraints(task, choice) \in SelectionConstraints
  <1> DEFINE asked == OrElse(choice.family,
                        IF choice.model # NoModel THEN FamilyOf[choice.model] ELSE None)
             family == IF choice.prompt THEN asked
                       ELSE OrElse(asked, FamilyOf[Machine.defaultModel])
             effort == IF choice.prompt THEN choice.effort
                       ELSE OrElse(choice.effort, Machine.defaultEffort)
  <1>1. /\ choice.model \in ModelIds \cup {NoModel} /\ choice.family \in OptFamily
        /\ choice.effort \in OptLevel
    BY DEF Choice
  <1>2. FamilyOf[Machine.defaultModel] \in Families /\ Machine.defaultEffort \in Levels
    BY MachineType DEF LauncherConstantsOK
  <1>3. asked \in OptFamily
    BY <1>1 DEF OrElse, OptFamily, LauncherConstantsOK
  <1>4. family \in OptFamily
    BY <1>2, <1>3 DEF OrElse, OptFamily
  <1>5. effort \in OptLevel
    BY <1>1, <1>2 DEF OrElse, OptLevel
  <1>6. /\ task.familyFloor \in FamilyBound /\ task.familyCeiling \in FamilyBound
        /\ task.effortFloor \in OptLevel /\ task.effortCeiling \in OptLevel
    BY DEF Task
  <1> HIDE DEF family, effort
  <1> QED
    BY <1>4, <1>5, <1>6 DEF Constraints, SelectionConstraints, family, effort

\* A recommendation names a family and a level.
LEMMA RecommendedType ==
    ASSUME scenario \in DOMAIN Scenarios, NEW task \in Task, NEW choice \in Choice,
           NEW offset \in -10..10, NEW prior \in Priors
    PROVE  Recommended(task, choice, offset, prior) \in Route
  <1> DEFINE c == Constraints(task, choice)
             r == Select(task, Machine.weights, c, offset, prior, Machine.margin)
             x == Recommend(task, Machine.weights, c, offset, prior, Machine.margin)
  <1>1. c \in SelectionConstraints
    BY ConstraintsType
  <1>2. IsTask(task) /\ offset \in Int
    BY DEF IsTask, Task
  <1>3. r.family \in Families /\ r.effort \in Levels
    <2> HIDE DEF c
    <2> QED
      BY <1>1, <1>2, MachineType, SelectTypes
  <1>4. x.family \in Families /\ x.effort \in Levels
    <2> HIDE DEF r, x
    <2>1. /\ x.family = IF RaisesFamily(task, c, r.family) THEN Sol ELSE r.family
          /\ x.effort = IF RaisesEffort(task, c, r.effort) THEN High ELSE r.effort
      BY RecommendUnfolds DEF r, x
    <2> QED
      BY <1>3, <2>1
  <1>5. x = [family |-> x.family, effort |-> x.effort]
    BY DEF Recommend
  <1> HIDE DEF x
  <1> QED
    BY <1>4, <1>5 DEF Recommended, Route, x

LEMMA FindType ==
    ASSUME scenario \in DOMAIN Scenarios, NEW modelId, Find(modelId) # 0
    PROVE  Machine.catalog[Find(modelId)] \in ModelCapability
  <1> DEFINE I == {n \in 1..Len(Machine.catalog) : Machine.catalog[n].id = modelId}
  <1>1. I # {} /\ Find(modelId) = Min(I)
    BY DEF Find, SelectInSeq
  <1>2. Min(I) \in I
    <2>1. I \subseteq Nat
      OBVIOUS
    <2> HIDE DEF I
    <2> QED
      BY <1>1, <2>1, MinType
  <1>3. Find(modelId) \in 1..Len(Machine.catalog)
    BY <1>1, <1>2
  <1> QED
    BY <1>3, MachineType

LEMMA FirstFamilyType ==
    ASSUME scenario \in DOMAIN Scenarios, NEW family, FirstFamily(family) # 0
    PROVE  Machine.catalog[FirstFamily(family)] \in ModelCapability
  <1> DEFINE I == {n \in 1..Len(Machine.catalog) :
                      ~Machine.catalog[n].hidden /\ FamilyOf[Machine.catalog[n].id] = family}
  <1>1. I # {} /\ FirstFamily(family) = Min(I)
    BY DEF FirstFamily, SelectInSeq
  <1>2. Min(I) \in I
    <2>1. I \subseteq Nat
      OBVIOUS
    <2> HIDE DEF I
    <2> QED
      BY <1>1, <2>1, MinType
  <1>3. FirstFamily(family) \in 1..Len(Machine.catalog)
    BY <1>1, <1>2
  <1> QED
    BY <1>3, MachineType

\* strongest_supported_at_or_below: a supported level, at or below the bound.
LEMMA StrongestIsSupported ==
    ASSUME NEW efforts \in SUBSET Levels, NEW level \in Levels, \E e \in efforts : e <= level
    PROVE  /\ StrongestAtOrBelow(efforts, level) \in efforts
           /\ StrongestAtOrBelow(efforts, level) <= level
  <1> DEFINE T == {e \in efforts : e <= level}
  <1>1. T \subseteq 0..6 /\ T # {}
    OBVIOUS
  <1>2. PICK x \in T : \A y \in T : x >= y
    BY <1>1, GreatestBelow
  <1>3. /\ x \in efforts /\ x <= level
        /\ \A o \in efforts : o <= level => o <= x
    BY <1>2
  <1> QED
    BY <1>3 DEF StrongestAtOrBelow

\* What a command launches: a model of the taxonomy at a level no higher than the
\* recommended one, and lower only where a downgrade is permitted.
LEMMA ResolveMeans ==
    ASSUME scenario \in DOMAIN Scenarios, NEW r \in Route, NEW choice \in Choice,
           NEW p \in Resolve(r, choice)
    PROVE  /\ p.model \in ModelIds /\ p.family \in Families /\ p.effort \in Levels
           /\ p.effort <= r.effort
           /\ p.effort < r.effort => MayDowngrade(choice)
  <1> DEFINE modelId == IF choice.model # NoModel THEN choice.model
                        ELSE IF choice.prompt THEN NoModel ELSE Machine.defaultModel
             n == IF modelId # NoModel THEN Find(modelId) ELSE FirstFamily(r.family)
             m == Machine.catalog[n]
  <1>1. r.effort \in Levels /\ choice.model \in ModelIds \cup {NoModel}
    BY DEF Route, Choice
  <1>2. CASE n = 0
    <2>1. p = Preset(choice.model, r.effort) /\ choice.model # NoModel
      BY <1>2 DEF Resolve
    <2> QED
      BY <1>1, <2>1 DEF Preset, LauncherConstantsOK
  <1>3. CASE n # 0
    <2>1. m \in ModelCapability
      <3> HIDE DEF modelId
      <3> QED
        BY <1>3, FindType, FirstFamilyType
    <2>2. m.id \in ModelIds /\ m.efforts \in SUBSET Levels
      <3> HIDE DEF m
      <3> QED
        BY <2>1 DEF ModelCapability
    <2>3. \/ r.effort \in m.efforts /\ p = Preset(m.id, r.effort)
          \/ /\ MayDowngrade(choice) /\ \E e \in m.efforts : e <= r.effort
             /\ p = Preset(m.id, StrongestAtOrBelow(m.efforts, r.effort))
      BY <1>3 DEF Resolve
    <2> HIDE DEF m
    <2>4. CASE r.effort \in m.efforts /\ p = Preset(m.id, r.effort)
      BY <1>1, <2>2, <2>4 DEF Preset, LauncherConstantsOK
    <2>5. CASE /\ MayDowngrade(choice) /\ \E e \in m.efforts : e <= r.effort
               /\ p = Preset(m.id, StrongestAtOrBelow(m.efforts, r.effort))
      <3>1. /\ StrongestAtOrBelow(m.efforts, r.effort) \in m.efforts
            /\ StrongestAtOrBelow(m.efforts, r.effort) <= r.effort
        BY <1>1, <2>2, <2>5, StrongestIsSupported
      <3> QED
        BY <2>2, <2>5, <3>1 DEF Preset, LauncherConstantsOK
    <2> QED
      BY <2>3, <2>4, <2>5
  <1> QED
    BY <1>2, <1>3

-----------------------------------------------------------------------------
(* The invariant *)

\* The newest record's recommendation is the router's for its request and the
\* prior its command started from.
RoutedFromPrior ==
    NewestIsRouted =>
        Newest.recommended = Recommended(Newest.task, Newest.choice, Newest.offset, NewestPrior)

LaunchInv == TypeOK /\ RoutedFromPrior /\ DowngradesArePermitted

LEMMA FrontOfAppend ==
    ASSUME NEW S, NEW s \in Seq(S), NEW e \in S
    PROVE  /\ Append(s, e) \in Seq(S)
           /\ Len(Append(s, e)) = Len(s) + 1
           /\ Append(s, e)[Len(Append(s, e))] = e
           /\ Front(Append(s, e)) = s
  BY DEF Front

\* The machine is fixed, so what a step reads of it is what it was.
LEMMA MachineIsFixed ==
    ASSUME UNCHANGED scenario
    PROVE  /\ \A records, repo : Prior(records, repo)' = Prior(records, repo)
           /\ \A task, choice : Constraints(task, choice)' = Constraints(task, choice)
           /\ \A task, choice, offset, prior :
                  Recommended(task, choice, offset, prior)' = Recommended(task, choice, offset, prior)
           /\ \A route, choice : Resolve(route, choice)' = Resolve(route, choice)
  <1>1. Machine' = Machine
    BY DEF Machine
  <1>2. \A records, repo : Prior(records, repo)' = Prior(records, repo)
    BY <1>1, Zenon DEF Prior, LatestRoute, SelectLastInSubSeq
  <1>3. \A task, choice : Constraints(task, choice)' = Constraints(task, choice)
    BY <1>1 DEF Constraints
  <1>4. \A task, choice, offset, prior :
            Recommended(task, choice, offset, prior)' = Recommended(task, choice, offset, prior)
    BY <1>1, <1>3 DEF Recommended
  <1>5. \A route, choice : Resolve(route, choice)' = Resolve(route, choice)
    <2>1. \A modelId : Find(modelId)' = Find(modelId)
      BY <1>1, Zenon DEF Find, SelectInSeq
    <2>2. \A family : FirstFamily(family)' = FirstFamily(family)
      BY <1>1, Zenon DEF FirstFamily, SelectInSeq
    <2>3. \A choice : MayDowngrade(choice)' = MayDowngrade(choice)
      BY <1>1, Zenon DEF MayDowngrade
    <2>4. ASSUME NEW route, NEW choice
          PROVE  Resolve(route, choice)' = Resolve(route, choice)
      BY <1>1, <2>1, <2>2, <2>3 DEF Resolve
    <2> QED
      BY <2>4
  <1> QED
    BY <1>2, <1>3, <1>4, <1>5, Zenon

LEMMA LaunchInit == Init => LaunchInv
  <1> SUFFICES ASSUME Init PROVE LaunchInv
    OBVIOUS
  <1>1. scenario \in DOMAIN Scenarios /\ log \in Seq(AgentRecord)
    BY MachineType DEF Init
  <1>2. TypeOK
    BY <1>1 DEF TypeOK
  <1>3. ~NewestIsRouted
    <2> SUFFICES ASSUME Len(log) > 0 PROVE Newest.mode = "agent"
      BY DEF NewestIsRouted
    <2>1. Newest \in AgentRecord
      BY <1>1 DEF Newest
    <2> QED
      BY <2>1 DEF AgentRecord
  <1> QED
    BY <1>2, <1>3 DEF LaunchInv, RoutedFromPrior, DowngradesArePermitted

LEMMA LaunchNext == LaunchInv /\ [Next]_vars => LaunchInv'
  <1> SUFFICES ASSUME LaunchInv, [Next]_vars PROVE LaunchInv'
    OBVIOUS
  <1>1. scenario \in DOMAIN Scenarios /\ log \in Seq(Record \cup AgentRecord)
    BY DEF LaunchInv, TypeOK
  <1>2. CASE UNCHANGED vars
    <2>1. UNCHANGED scenario /\ log' = log
      BY <1>2 DEF vars
    <2>2. Newest' = Newest /\ NewestIsRouted' = NewestIsRouted
      BY <2>1 DEF Newest, NewestIsRouted
    <2>3. NewestPrior' = NewestPrior
      BY <2>1, <2>2, MachineIsFixed DEF NewestPrior
    <2>4. RoutedFromPrior'
      BY <2>1, <2>2, <2>3, MachineIsFixed DEF LaunchInv, RoutedFromPrior
    <2> QED
      BY <1>1, <2>1, <2>2, <2>4 DEF LaunchInv, TypeOK, DowngradesArePermitted
  <1>3. ASSUME UNCHANGED scenario, NEW repo \in Repos, NEW mode \in {"launched", "preview"},
               NEW request \in Machine.requests, NEW choice \in Machine.choices,
               NEW offset \in Machine.offsets, RunRoute(repo, mode, request, choice, offset)
        PROVE  LaunchInv'
    <2> DEFINE task == TaskOf(Policy, request)
               prior == Prior(log, repo)
               r == Recommended(task, choice, offset, prior)
    <2>1. /\ request \in Request /\ task \in Task /\ choice \in Choice
          /\ offset \in -10..10 /\ prior \in Priors
      <3>1. request \in Request /\ choice \in Choice /\ offset \in -10..10
        BY <1>1, <1>3, MachineType
      <3>2. task \in Task
        BY <3>1, TaskOfType
      <3> QED
        BY <1>1, <3>1, <3>2, PriorType
    <2>2. r \in Route
      <3> HIDE DEF prior
      <3> QED
        BY <1>1, <2>1, RecommendedType
    <2>3. PICK p \in Resolve(r, choice) :
            log' = Append(log,
              [repo |-> repo, mode |-> mode, request |-> request, task |-> task, choice |-> choice,
               offset |-> offset, recommended |-> r, model |-> p.model,
               family |-> p.family, effort |-> p.effort])
      BY <1>3 DEF RunRoute
    <2> DEFINE d == [repo |-> repo, mode |-> mode, request |-> request, task |-> task, choice |-> choice,
                     offset |-> offset, recommended |-> r, model |-> p.model,
                     family |-> p.family, effort |-> p.effort]
    <2>4. /\ p.model \in ModelIds /\ p.family \in Families /\ p.effort \in Levels
          /\ p.effort <= r.effort
          /\ p.effort < r.effort => MayDowngrade(choice)
      <3> HIDE DEF r
      <3> QED
        BY <1>1, <2>1, <2>2, ResolveMeans
    <2>5. d \in Record
      <3> HIDE DEF r
      <3> QED
        BY <1>3, <2>1, <2>2, <2>4 DEF Record
    <2>6. /\ log' \in Seq(Record \cup AgentRecord)
          /\ Newest' = d
          /\ Front(log') = log
      <3> HIDE DEF d
      <3>1. d \in Record \cup AgentRecord /\ log' = Append(log, d)
        BY <2>3, <2>5 DEF d
      <3> QED
        BY <1>1, <3>1, FrontOfAppend DEF Newest
    <2>7. TypeOK'
      BY <1>1, <1>3, <2>6 DEF TypeOK
    <2>8. NewestPrior' = prior
      BY <1>3, <2>6, MachineIsFixed DEF NewestPrior
    <2>9. RoutedFromPrior'
      BY <1>3, <2>6, <2>8, MachineIsFixed DEF RoutedFromPrior
    <2>10. DowngradesArePermitted'
      <3> HIDE DEF r
      <3> QED
        BY <2>1, <2>2, <2>4, <2>6 DEF DowngradesArePermitted, MayDowngrade, Choice, Route
    <2> QED
      BY <2>7, <2>9, <2>10 DEF LaunchInv
  <1>4. ASSUME UNCHANGED scenario, NEW repo \in Repos, NEW route \in Machine.agentRoutes,
               AgentLogs(repo, route)
        PROVE  LaunchInv'
    <2> DEFINE d == [repo |-> repo, mode |-> "agent", family |-> route.family,
                     effort |-> route.effort]
    <2>1. route \in Route
      BY <1>1, <1>4, MachineType
    <2>2. d \in AgentRecord /\ d.mode = "agent"
      BY <1>4, <2>1 DEF AgentRecord, Route
    <2>3. log' \in Seq(Record \cup AgentRecord) /\ Newest' = d
      <3> HIDE DEF d
      <3>1. d \in Record \cup AgentRecord /\ log' = Append(log, d)
        BY <1>4, <2>2 DEF AgentLogs, d
      <3> QED
        BY <1>1, <3>1, FrontOfAppend DEF Newest
    <2>4. TypeOK' /\ ~NewestIsRouted'
      BY <1>1, <1>4, <2>2, <2>3 DEF TypeOK, NewestIsRouted
    <2> QED
      BY <2>4 DEF LaunchInv, RoutedFromPrior, DowngradesArePermitted
  <1> QED
    BY <1>2, <1>3, <1>4 DEF Next

THEOREM LaunchInvariant == Spec => []LaunchInv
  <1> QED
    BY LaunchInit, LaunchNext, PTL DEF Spec

-----------------------------------------------------------------------------
(* The properties *)

\* The newest record as one evaluation of the router.
LEMMA NewestEvaluates ==
    ASSUME LaunchInv, NewestIsRouted
    PROVE  /\ Newest \in Record /\ Newest.task \in Task /\ Newest.choice \in Choice
           /\ Newest.offset \in Int /\ NewestPrior \in Priors
           /\ IsTask(Newest.task) /\ Asked \in SelectionConstraints
           /\ Machine.weights \in Weights /\ Machine.margin \in Nat
           /\ Newest.recommended = Recommend(Newest.task, Machine.weights, Asked,
                                             Newest.offset, NewestPrior, Machine.margin)
           /\ Asked.familyCeiling = Newest.task.familyCeiling
           /\ Asked.effortCeiling = Newest.task.effortCeiling
           /\ Asked.effortFloor = Newest.task.effortFloor
  <1>1. scenario \in DOMAIN Scenarios /\ log \in Seq(Record \cup AgentRecord)
    BY DEF LaunchInv, TypeOK
  <1>2. Newest \in Record
    BY <1>1, RecordShape DEF NewestIsRouted, Newest
  <1>3. Newest.task \in Task /\ Newest.choice \in Choice /\ Newest.offset \in -10..10
    BY <1>2 DEF Record
  <1>4. IsTask(Newest.task)
    BY <1>3 DEF IsTask, Task
  <1>5. Front(log) \in Seq(Record \cup AgentRecord)
    BY <1>1 DEF Front, NewestIsRouted
  <1>6. NewestPrior \in Priors
    BY <1>1, <1>5, PriorType DEF NewestPrior
  <1>7. Asked \in SelectionConstraints
    BY <1>1, <1>3, ConstraintsType DEF Asked
  <1>8. Newest.recommended = Recommend(Newest.task, Machine.weights, Asked,
                                        Newest.offset, NewestPrior, Machine.margin)
    BY DEF LaunchInv, RoutedFromPrior, Recommended, Asked
  <1>9. /\ Asked.familyCeiling = Newest.task.familyCeiling
        /\ Asked.effortCeiling = Newest.task.effortCeiling
        /\ Asked.effortFloor = Newest.task.effortFloor
    BY DEF Asked, Constraints
  <1>10. \A offset \in -10..10 : offset \in Int
    OBVIOUS
  <1> QED
    BY <1>1, <1>2, <1>3, <1>4, <1>6, <1>7, <1>8, <1>9, <1>10, MachineType, Zenon

\* Raising one dimension of a task leaves everything else of it alone.
LEMMA RaisedTask ==
    ASSUME NEW task \in Task, NEW dim \in RiskDimensions, task.dims[dim] < 4
    PROVE  LET riskier == [task EXCEPT !.dims[dim] = @ + 1] IN
           /\ IsTask(riskier) /\ RiskierTask(task, riskier)
           /\ \A choice : Constraints(riskier, choice) = Constraints(task, choice)
  <1> DEFINE riskier == [task EXCEPT !.dims[dim] = @ + 1]
             dims == [task.dims EXCEPT ![dim] = @ + 1]
  <1>1. task.dims \in Dimensions /\ task.type \in TaskTypes /\ task.tracks \in BOOLEAN
    BY DEF Task
  <1>2. /\ riskier.dims = dims /\ riskier.type = task.type /\ riskier.tracks = task.tracks
        /\ riskier.delegation = task.delegation
        /\ riskier.familyFloor = task.familyFloor /\ riskier.familyCeiling = task.familyCeiling
        /\ riskier.effortFloor = task.effortFloor /\ riskier.effortCeiling = task.effortCeiling
    BY DEF Task
  <1>3. dims \in Dimensions /\ Riskier(task.dims, dims)
    BY <1>1 DEF Dimensions, Riskier, RiskDimensions
  <1> HIDE DEF riskier, dims
  <1>4. \A choice : Constraints(riskier, choice) = Constraints(task, choice)
    BY <1>2 DEF Constraints
  <1>5. IsTask(riskier) /\ RiskierTask(task, riskier)
    BY <1>1, <1>2, <1>3 DEF IsTask, RiskierTask
  <1> QED
    BY <1>4, <1>5 DEF riskier

\* The log holds decision records only and the machine never changes.
THEOREM LauncherTypeCorrect == Spec => []TypeOK
  <1>1. LaunchInv => TypeOK
    BY DEF LaunchInv
  <1> QED
    BY <1>1, LaunchInvariant, PTL

\* Explicit efforts are lowered only with the user's leave, and nothing is raised
\* above its recommendation: resolve_preset.
THEOREM DowngradesArePermittedAlways == Spec => []DowngradesArePermitted
  <1>1. LaunchInv => DowngradesArePermitted
    BY DEF LaunchInv
  <1> QED
    BY <1>1, LaunchInvariant, PTL

\* On every machine and after every history, a riskier task is never recommended a
\* weaker model or level.
THEOREM RaisingRiskNeverWeakensAlways == Spec => []RaisingRiskNeverWeakens
  <1>1. ASSUME LaunchInv, NewestIsRouted, NEW dim \in RiskDimensions,
               Newest.task.dims[dim] < 4
        PROVE  LET riskier == [Newest.task EXCEPT !.dims[dim] = @ + 1]
                   r == Recommended(riskier, Newest.choice, Newest.offset, NewestPrior)
               IN /\ r.effort >= Newest.recommended.effort
                  /\ FamilyRank(r.family) >= FamilyRank(Newest.recommended.family)
    <2> DEFINE riskier == [Newest.task EXCEPT !.dims[dim] = @ + 1]
               r == Recommended(riskier, Newest.choice, Newest.offset, NewestPrior)
    <2>1. /\ IsTask(riskier) /\ RiskierTask(Newest.task, riskier)
          /\ Constraints(riskier, Newest.choice) = Asked
      BY <1>1, NewestEvaluates, RaisedTask DEF Asked
    <2> HIDE DEF riskier
    <2>2. r = Recommend(riskier, Machine.weights, Asked, Newest.offset, NewestPrior,
                        Machine.margin)
      BY <2>1 DEF Recommended
    <2> QED
      BY <1>1, <2>1, <2>2, NewestEvaluates, RouteIsMonotone DEF riskier
  <1>2. LaunchInv => RaisingRiskNeverWeakens
    BY <1>1 DEF RaisingRiskNeverWeakens
  <1> QED
    BY <1>2, LaunchInvariant, PTL

\* Calibration moves a route its own way only.
THEOREM CalibrationDirectionAlways == Spec => []CalibrationDirection
  <1>1. ASSUME LaunchInv, NewestIsRouted PROVE CalibrationDirection
    <2> DEFINE x == Recommended(Newest.task, Newest.choice, 0, NewestPrior)
    <2>1. x = Recommend(Newest.task, Machine.weights, Asked, 0, NewestPrior, Machine.margin)
      BY DEF Recommended, Asked
    <2> QED
      BY <1>1, <2>1, NewestEvaluates, CalibrationIsDirected DEF CalibrationDirection
  <1>2. LaunchInv => CalibrationDirection
    BY <1>1 DEF CalibrationDirection
  <1> QED
    BY <1>2, LaunchInvariant, PTL

\* Neither history nor calibration takes work with correlated high risk below Sol
\* and High.
THEOREM RiskFloorHoldsAlways == Spec => []RiskFloorHolds
  <1>1. ASSUME LaunchInv, NewestIsRouted PROVE RiskFloorHolds
    <2> DEFINE d == Newest.task.dims
               risky == \/ \E v \in {d.cost, d.runtime, d.verification} : v = 4
                        \/ d.cost = 3 /\ \E v \in {d.ambiguity, d.runtime, d.verification} : v >= 2
    <2>1. risky => RiskFloor(Newest.task.type, d)
      BY DEF RiskFloor
    <2> HIDE DEF risky
    <2> QED
      BY <1>1, <2>1, NewestEvaluates, RiskIsFloored DEF RiskFloorHolds, Unbounded, risky
  <1>2. LaunchInv => RiskFloorHolds
    BY <1>1 DEF RiskFloorHolds
  <1> QED
    BY <1>2, LaunchInvariant, PTL

\* A weak family is only chosen for a task that is safe for it, whatever history
\* the repository has.
THEOREM WeakFamilyOnlyWhereSafeAlways == Spec => []WeakFamilyOnlyWhereSafe
  <1>1. LaunchInv => WeakFamilyOnlyWhereSafe
    BY NewestEvaluates, WeakRouteIsSafe DEF WeakFamilyOnlyWhereSafe, Unbounded
  <1> QED
    BY <1>1, LaunchInvariant, PTL

\* Ultra is launched only when earned or asked for.
THEOREM UltraIsEarnedAlways == Spec => []UltraIsEarned
  <1>1. ASSUME LaunchInv, NewestIsRouted, Newest.effort = Ultra, Asked.explicitEffort # Ultra
        PROVE  Asked.authorized /\ (UltraCandidate(Newest.task, Machine.weights)
                                     \/ Newest.task.effortFloor = Ultra)
    <2>1. Newest.effort \in Levels /\ Newest.recommended \in Route
      BY <1>1, NewestEvaluates DEF Record
    <2>2. Newest.recommended.effort = Ultra
      BY <1>1, <2>1 DEF LaunchInv, DowngradesArePermitted, Route
    <2> QED
      BY <1>1, <2>2, NewestEvaluates, UltraNeedsCandidacy
  <1>2. LaunchInv => UltraIsEarned
    BY <1>1 DEF UltraIsEarned, UltraCandidate
  <1> QED
    BY <1>2, LaunchInvariant, PTL

-----------------------------------------------------------------------------
(* Hysteresis settles *)

\* The entry of the catalog a command is resolved against, 0 when it is not listed,
\* the model it stands for and the levels that model exposes.
Entry(family, choice) ==
    LET modelId == IF choice.model # NoModel THEN choice.model
                   ELSE IF choice.prompt THEN NoModel ELSE Machine.defaultModel
    IN IF modelId # NoModel THEN Find(modelId) ELSE FirstFamily(family)
ModelOf(family, choice) ==
    IF Entry(family, choice) = 0 THEN choice.model
    ELSE Machine.catalog[Entry(family, choice)].id
LevelsOf(family, choice) ==
    IF Entry(family, choice) = 0 THEN Levels
    ELSE Machine.catalog[Entry(family, choice)].efforts

LEMMA FirstFamilyMeans ==
    ASSUME scenario \in DOMAIN Scenarios, NEW family, FirstFamily(family) # 0
    PROVE  FamilyOf[Machine.catalog[FirstFamily(family)].id] = family
  <1> DEFINE I == {n \in 1..Len(Machine.catalog) :
                      ~Machine.catalog[n].hidden /\ FamilyOf[Machine.catalog[n].id] = family}
  <1>1. I # {} /\ FirstFamily(family) = Min(I)
    BY DEF FirstFamily, SelectInSeq
  <1>2. Min(I) \in I
    <2>1. I \subseteq Nat
      OBVIOUS
    <2> HIDE DEF I
    <2> QED
      BY <1>1, <2>1, MinType
  <1> QED
    BY <1>1, <1>2

\* strongest_supported_at_or_below is the strongest.
LEMMA StrongestIsStrongest ==
    ASSUME NEW efforts \in SUBSET Levels, NEW level \in Levels, \E e \in efforts : e <= level
    PROVE  StrongestOf(efforts, level, StrongestAtOrBelow(efforts, level))
  <1> DEFINE T == {e \in efforts : e <= level}
  <1>1. T \subseteq 0..6 /\ T # {}
    OBVIOUS
  <1>2. PICK x \in T : \A y \in T : x >= y
    BY <1>1, GreatestBelow
  <1>3. /\ x \in efforts /\ x <= level
        /\ \A o \in efforts : o <= level => o <= x
    BY <1>2
  <1> QED
    BY <1>3 DEF StrongestAtOrBelow, StrongestOf

LEMMA ResolveYieldsPresets ==
    ASSUME NEW r, NEW choice, NEW p \in Resolve(r, choice)
    PROVE  p = [model |-> p.model, family |-> p.family, effort |-> p.effort]
  <1>1. PICK model, effort : p = Preset(model, effort)
    BY Zenon DEF Resolve
  <1> QED
    BY <1>1 DEF Preset

\* resolve_preset as a function of the recommended family and level: the model
\* follows from the family, the level is the strongest the model exposes at or below
\* the recommended one, and where the model was free its family is the recommended one.
LEMMA ResolveIsStrongest ==
    ASSUME scenario \in DOMAIN Scenarios, NEW r \in Route, NEW choice \in Choice,
           NEW p \in Resolve(r, choice)
    PROVE  /\ p.model = ModelOf(r.family, choice)
           /\ LevelsOf(r.family, choice) \in SUBSET Levels
           /\ StrongestOf(LevelsOf(r.family, choice), r.effort, p.effort)
           /\ choice.model = NoModel /\ choice.prompt => p.family = r.family
  <1> DEFINE n == Entry(r.family, choice)
             m == Machine.catalog[n]
  <1>1. r.effort \in Levels
    BY DEF Route
  <1>2. CASE n = 0
    <2>1. p = Preset(choice.model, r.effort) /\ choice.model # NoModel
      BY <1>2 DEF Resolve, Entry
    <2>2. StrongestOf(Levels, r.effort, r.effort)
      BY <1>1 DEF StrongestOf
    <2> QED
      BY <1>2, <2>1, <2>2 DEF Preset, ModelOf, LevelsOf
  <1>3. CASE n # 0
    <2>1. m \in ModelCapability
      BY <1>3, FindType, FirstFamilyType DEF Entry
    <2>2. m.efforts \in SUBSET Levels
      <3> HIDE DEF m
      <3> QED
        BY <2>1 DEF ModelCapability
    <2>3. \/ r.effort \in m.efforts /\ p = Preset(m.id, r.effort)
          \/ /\ \E e \in m.efforts : e <= r.effort
             /\ p = Preset(m.id, StrongestAtOrBelow(m.efforts, r.effort))
      BY <1>3 DEF Resolve, Entry
    <2>4. choice.model = NoModel /\ choice.prompt => FamilyOf[m.id] = r.family
      BY <1>3, FirstFamilyMeans DEF Entry
    <2>5. ModelOf(r.family, choice) = m.id /\ LevelsOf(r.family, choice) = m.efforts
      BY <1>3 DEF ModelOf, LevelsOf
    <2> HIDE DEF m
    <2>6. PICK e : p = Preset(m.id, e) /\ StrongestOf(m.efforts, r.effort, e)
      <3>1. CASE r.effort \in m.efforts /\ p = Preset(m.id, r.effort)
        <4>1. StrongestOf(m.efforts, r.effort, r.effort)
          BY <1>1, <3>1 DEF StrongestOf
        <4> QED
          BY <3>1, <4>1
      <3>2. CASE /\ \E e \in m.efforts : e <= r.effort
                 /\ p = Preset(m.id, StrongestAtOrBelow(m.efforts, r.effort))
        BY <1>1, <2>2, <3>2, StrongestIsStrongest
      <3> QED
        BY <2>3, <3>1, <3>2
    <2> QED
      BY <2>2, <2>4, <2>5, <2>6 DEF Preset
  <1> QED
    BY <1>2, <1>3

\* Whenever a model is named, by the command or in the absence of a prompt, the
\* family is explicit.
LEMMA NamedModelFixesFamily ==
    ASSUME scenario \in DOMAIN Scenarios, NEW task, NEW choice \in Choice,
           ~ (choice.model = NoModel /\ choice.prompt)
    PROVE  Constraints(task, choice).explicitFamily # None
  <1>1. /\ choice.model \in ModelIds \cup {NoModel} /\ choice.family \in OptFamily
        /\ choice.prompt \in BOOLEAN
    BY DEF Choice
  <1>2. FamilyOf[Machine.defaultModel] \in Families
    BY MachineType DEF LauncherConstantsOK
  <1>3. choice.model # NoModel => FamilyOf[choice.model] \in Families
    BY <1>1 DEF LauncherConstantsOK
  <1>4. \A f \in Families : f # None
    OBVIOUS
  <1> QED
    BY <1>1, <1>2, <1>3, <1>4 DEF Constraints, OrElse

\* The route a decision leaves to later commands.
RouteOf(d) == [family |-> d.family, effort |-> d.effort]

\* Three launches of one task, the second and the third each with the route of the
\* launch before as prior.
InSuccession(task, choice, offset, prior, p, q, r) ==
    /\ p \in Resolve(Recommended(task, choice, offset, prior), choice)
    /\ q \in Resolve(Recommended(task, choice, offset, RouteOf(p)), choice)
    /\ r \in Resolve(Recommended(task, choice, offset, RouteOf(q)), choice)

\* Of three launches in succession the third repeats the second, whatever the first started
\* from, also where the catalog lacks the recommended level.
THEOREM ThirdLaunchRepeats ==
    ASSUME scenario \in DOMAIN Scenarios, NEW task \in Task, NEW choice \in Choice,
           NEW offset \in -10..10, NEW prior \in Priors,
           NEW p, NEW q, NEW r, InSuccession(task, choice, offset, prior, p, q, r)
    PROVE  r.model = q.model /\ r.effort = q.effort
  <1> DEFINE c == Constraints(task, choice)
             w == Machine.weights
             margin == Machine.margin
             score == ScoreOf(task, w, offset)
             rec(x) == Recommended(task, choice, offset, x)
             effortAfter(e) == FinalEffort(task, w, c, EffortWithHysteresis(score, e, margin))
             familyAfter(f) ==
                FinalFamily(task, w, c, FamilyWithHysteresis(task.dims, score, f, margin))
  <1>1. /\ c \in SelectionConstraints /\ w \in Weights /\ margin \in Nat
        /\ IsTask(task) /\ offset \in Int
    <2>1. IsTask(task)
      BY DEF IsTask, Task
    <2>2. offset \in Int
      OBVIOUS
    <2> QED
      BY <2>1, <2>2, ConstraintsType, MachineType, Zenon
  <1>2. ASSUME NEW x \in Priors
        PROVE  /\ rec(x) \in Route
               /\ rec(x).effort = effortAfter(x.effort) /\ rec(x).family = familyAfter(x.family)
    <2>1. rec(x) \in Route
      BY RecommendedType
    <2>2. rec(x) = Recommend(task, w, c, offset, x, margin)
      BY DEF Recommended
    <2> HIDE DEF rec, c, w, margin
    <2> QED
      BY <1>1, <2>1, <2>2, RecommendSplits
  <1>3. ASSUME NEW x \in Priors, NEW y \in Resolve(rec(x), choice)
        PROVE  /\ RouteOf(y) \in Priors /\ y.family \in OptFamily /\ y.effort \in Levels
               /\ y.model = ModelOf(rec(x).family, choice)
               /\ LevelsOf(rec(x).family, choice) \in SUBSET Levels
               /\ StrongestOf(LevelsOf(rec(x).family, choice), effortAfter(x.effort), y.effort)
               /\ choice.model = NoModel /\ choice.prompt => y.family = rec(x).family
    <2> HIDE DEF rec
    <2>1. y.family \in Families /\ y.effort \in Levels
      BY <1>2, ResolveMeans
    <2>2. RouteOf(y) \in Priors /\ y.family \in OptFamily
      BY <2>1 DEF RouteOf, Priors, OptFamily, OptLevel
    <2>3. /\ y.model = ModelOf(rec(x).family, choice)
          /\ LevelsOf(rec(x).family, choice) \in SUBSET Levels
          /\ StrongestOf(LevelsOf(rec(x).family, choice), rec(x).effort, y.effort)
          /\ choice.model = NoModel /\ choice.prompt => y.family = rec(x).family
      <3>1. rec(x) \in Route
        BY <1>2
      <3> HIDE DEF effortAfter, familyAfter
      <3> QED
        BY <3>1, ResolveIsStrongest
    <2> QED
      BY <1>2, <2>1, <2>2, <2>3
  <1>4. ASSUME NEW x \in Priors, NEW y \in Resolve(rec(x), choice)
        PROVE  rec(RouteOf(y)).family = rec(x).family
    <2>1. /\ rec(RouteOf(y)).family = familyAfter(y.family)
          /\ rec(x).family = familyAfter(x.family)
      BY <1>2, <1>3, <1>4 DEF RouteOf
    <2>2. CASE choice.model = NoModel /\ choice.prompt
      <3>1. y.family = familyAfter(x.family)
        BY <1>3, <1>4, <2>1, <2>2
      <3>2. familyAfter(familyAfter(x.family)) = familyAfter(x.family)
        <4>1. x.family \in OptFamily
          BY DEF Priors
        <4> HIDE DEF c, w, margin
        <4> QED
          BY <1>1, <4>1, FamilySettles
      <3> HIDE DEF familyAfter, rec
      <3> QED
        BY <2>1, <3>1, <3>2
    <2>3. CASE ~ (choice.model = NoModel /\ choice.prompt)
      <3>1. c.explicitFamily # None
        BY <2>3, NamedModelFixesFamily
      <3>2. familyAfter(y.family) = familyAfter(x.family)
        <4> HIDE DEF c
        <4> QED
          BY <3>1, ExplicitFamilyIsFinal
      <3> HIDE DEF familyAfter, rec
      <3> QED
        BY <2>1, <3>2
    <2> QED
      BY <2>2, <2>3
  <1>5. /\ p \in Resolve(rec(prior), choice) /\ q \in Resolve(rec(RouteOf(p)), choice)
        /\ r \in Resolve(rec(RouteOf(q)), choice)
    BY DEF InSuccession
  <1> DEFINE family == rec(prior).family
             levels == LevelsOf(family, choice)
  <1> HIDE DEF rec, effortAfter
  <1>6. RouteOf(p) \in Priors /\ RouteOf(q) \in Priors
    BY <1>3, <1>5
  <1>7. rec(RouteOf(p)).family = family /\ rec(RouteOf(q)).family = family
    BY <1>4, <1>5, <1>6
  <1>8. RouteOf(p).effort = p.effort /\ RouteOf(q).effort = q.effort
    BY DEF RouteOf
  <1>9. /\ levels \in SUBSET Levels
        /\ p.effort \in Levels /\ q.effort \in Levels /\ r.effort \in Levels
        /\ StrongestOf(levels, effortAfter(prior.effort), p.effort)
        /\ StrongestOf(levels, effortAfter(p.effort), q.effort)
        /\ StrongestOf(levels, effortAfter(q.effort), r.effort)
        /\ q.model = ModelOf(family, choice) /\ r.model = ModelOf(family, choice)
    BY <1>3, <1>5, <1>6, <1>7, <1>8
  <1>10. prior.effort \in OptLevel
    BY DEF Priors
  <1>11. r.effort = q.effort
    <2> HIDE DEF levels, c, w, margin
    <2> QED
      BY <1>1, <1>9, <1>10, EffortSettles DEF effortAfter
  <1> QED
    BY <1>9, <1>11

\* Every launch and preview of the log, not the newest alone, is one evaluation of the
\* router from the log as it was before, and one resolution.
RoutedFrom(d, before) ==
    /\ d.recommended = Recommended(d.task, d.choice, d.offset, Prior(before, d.repo))
    /\ [model |-> d.model, family |-> d.family, effort |-> d.effort]
         \in Resolve(d.recommended, d.choice)
RoutedLog ==
    \A n \in DOMAIN log : log[n].mode # "agent" => RoutedFrom(log[n], SubSeq(log, 1, n - 1))

LEMMA EarlierRecordsStay ==
    ASSUME NEW S, NEW s \in Seq(S), NEW e \in S
    PROVE  /\ DOMAIN Append(s, e) = (DOMAIN s) \cup {Len(s) + 1}
           /\ \A n \in DOMAIN s : /\ Append(s, e)[n] = s[n]
                                 /\ SubSeq(Append(s, e), 1, n - 1) = SubSeq(s, 1, n - 1)
           /\ Append(s, e)[Len(s) + 1] = e
           /\ SubSeq(Append(s, e), 1, (Len(s) + 1) - 1) = s
  OBVIOUS

LEMMA RoutingIsFixed ==
    ASSUME UNCHANGED scenario, NEW d, NEW before
    PROVE  RoutedFrom(d, before)' <=> RoutedFrom(d, before)
  <1>1. Prior(before, d.repo)' = Prior(before, d.repo)
    BY MachineIsFixed
  <1>2. \A prior : Recommended(d.task, d.choice, d.offset, prior)' =
                     Recommended(d.task, d.choice, d.offset, prior)
    BY MachineIsFixed
  <1>3. Resolve(d.recommended, d.choice)' = Resolve(d.recommended, d.choice)
    BY MachineIsFixed
  <1> QED
    BY <1>1, <1>2, <1>3 DEF RoutedFrom

\* Appending a record leaves what is routed before it as it was.
LEMMA RoutedLogGrows ==
    ASSUME RoutedLog, UNCHANGED scenario, log \in Seq(Record \cup AgentRecord),
           NEW d \in Record \cup AgentRecord, log' = Append(log, d),
           d.mode # "agent" => RoutedFrom(d, log)
    PROVE  RoutedLog'
  <1>1. /\ DOMAIN log' = (DOMAIN log) \cup {Len(log) + 1}
        /\ \A n \in DOMAIN log : log'[n] = log[n] /\ SubSeq(log', 1, n - 1) = SubSeq(log, 1, n - 1)
        /\ log'[Len(log) + 1] = d
        /\ SubSeq(log', 1, (Len(log) + 1) - 1) = log
    <2> DEFINE S == Record \cup AgentRecord
    <2> HIDE DEF S
    <2> QED
      BY EarlierRecordsStay DEF S
  <1>2. \A e, before : RoutedFrom(e, before)' <=> RoutedFrom(e, before)
    BY RoutingIsFixed
  <1>3. SUFFICES ASSUME NEW n \in DOMAIN log', log'[n].mode # "agent"
                 PROVE  RoutedFrom(log[n], SubSeq(log, 1, n - 1))'
    BY DEF RoutedLog
  <1>4. CASE n \in DOMAIN log
    <2>1. RoutedFrom(log[n], SubSeq(log, 1, n - 1))
      BY <1>1, <1>3, <1>4 DEF RoutedLog
    <2> QED
      BY <1>1, <1>2, <1>4, <2>1
  <1>5. CASE n = Len(log) + 1
    BY <1>1, <1>2, <1>3, <1>5
  <1> QED
    BY <1>1, <1>4, <1>5

SettleInv == TypeOK /\ RoutedLog

LEMMA SettleInit == Init => SettleInv
  <1> SUFFICES ASSUME Init PROVE SettleInv
    OBVIOUS
  <1>1. scenario \in DOMAIN Scenarios /\ log \in Seq(AgentRecord)
    BY MachineType DEF Init
  <1>2. \A n \in DOMAIN log : log[n].mode = "agent"
    <2>1. \A d \in AgentRecord : d.mode = "agent"
      BY DEF AgentRecord
    <2>2. \A n \in DOMAIN log : log[n] \in AgentRecord
      BY <1>1
    <2> QED
      BY <2>1, <2>2
  <1> QED
    BY <1>1, <1>2 DEF SettleInv, TypeOK, RoutedLog

LEMMA SettleNext == SettleInv /\ TypeOK' /\ [Next]_vars => SettleInv'
  <1> SUFFICES ASSUME SettleInv, TypeOK', [Next]_vars PROVE RoutedLog'
    BY DEF SettleInv
  <1>1. /\ scenario \in DOMAIN Scenarios /\ log \in Seq(Record \cup AgentRecord)
        /\ log' \in Seq(Record \cup AgentRecord) /\ RoutedLog
    BY DEF SettleInv, TypeOK
  <1>2. CASE UNCHANGED vars
    <2>1. UNCHANGED scenario /\ log' = log
      BY <1>2 DEF vars
    <2>2. \A d, before : RoutedFrom(d, before)' <=> RoutedFrom(d, before)
      BY <2>1, RoutingIsFixed
    <2> QED
      BY <1>1, <2>1, <2>2 DEF RoutedLog
  <1>3. ASSUME NEW d, log' = Append(log, d) PROVE d \in Record \cup AgentRecord
    <2>1. Len(log) + 1 \in DOMAIN log' /\ log'[Len(log) + 1] = d
      BY <1>1, <1>3
    <2> QED
      BY <1>1, <2>1
  <1>4. ASSUME UNCHANGED scenario, NEW repo \in Repos, NEW mode \in {"launched", "preview"},
               NEW request \in Machine.requests, NEW choice \in Machine.choices,
               NEW offset \in Machine.offsets, RunRoute(repo, mode, request, choice, offset)
        PROVE  RoutedLog'
    <2> DEFINE task == TaskOf(Policy, request)
               r == Recommended(task, choice, offset, Prior(log, repo))
               d(p) == [repo |-> repo, mode |-> mode, request |-> request, task |-> task,
                        choice |-> choice, offset |-> offset, recommended |-> r,
                        model |-> p.model, family |-> p.family, effort |-> p.effort]
    <2>1. PICK p \in Resolve(r, choice) : log' = Append(log, d(p))
      BY <1>4 DEF RunRoute
    <2>2. p = [model |-> p.model, family |-> p.family, effort |-> p.effort]
      BY ResolveYieldsPresets
    <2>3. RoutedFrom(d(p), log)
      <3> HIDE DEF task, r
      <3> QED
        BY <2>1, <2>2 DEF RoutedFrom, r
    <2> HIDE DEF d
    <2> QED
      BY <1>1, <1>3, <1>4, <2>1, <2>3, RoutedLogGrows
  <1>5. ASSUME UNCHANGED scenario, NEW repo \in Repos, NEW route \in Machine.agentRoutes,
               AgentLogs(repo, route)
        PROVE  RoutedLog'
    <2> DEFINE d == [repo |-> repo, mode |-> "agent", family |-> route.family,
                     effort |-> route.effort]
    <2>1. log' = Append(log, d) /\ d.mode = "agent"
      BY <1>5 DEF AgentLogs
    <2> HIDE DEF d
    <2> QED
      BY <1>1, <1>3, <1>5, <2>1, RoutedLogGrows
  <1> QED
    BY <1>2, <1>4, <1>5 DEF Next

\* latest_route finds the launch before: of two consecutive decisions of a repository
\* the earlier is the prior of the later, previews and other repositories apart.
LEMMA PriorIsPrevious ==
    ASSUME SettleInv, Machine.margin > 0, NEW i \in DOMAIN log, NEW j \in DOMAIN log,
           Consecutive(i, j)
    PROVE  Prior(SubSeq(log, 1, j - 1), log[j].repo) = RouteOf(log[i])
  <1> DEFINE records == SubSeq(log, 1, j - 1)
             repo == log[j].repo
             from == AtLeast(1, Len(records) - Machine.tail + 1)
             I == {n \in from..Len(records) : Eligible(records[n], repo)}
  <1>1. log \in Seq(Record \cup AgentRecord) /\ Machine.tail \in Nat
    BY MachineType DEF SettleInv, TypeOK
  <1>2. /\ i \in 1..Len(log) /\ j \in 1..Len(log) /\ i < j /\ j - i <= Machine.tail
        /\ log[i].repo = repo /\ log[i].mode # "preview"
        /\ \A o \in i+1..j-1 : ~ (log[o].repo = repo /\ log[o].mode # "preview")
    BY <1>1 DEF Consecutive, OwnDecisions
  <1>3. /\ Len(records) = j - 1
        /\ \A n \in 1..j-1 : records[n] = log[n]
    BY <1>1, <1>2
  <1>4. from \in Nat /\ from >= 1 /\ from <= i
    BY <1>1, <1>2, <1>3 DEF AtLeast
  <1>5. i \in I /\ \A n \in I : n \in Int /\ n <= i
    <2>1. i \in I
      BY <1>2, <1>3, <1>4 DEF Eligible
    <2>2. ASSUME NEW n \in I PROVE n \in Int /\ n <= i
      <3>1. n \in from..(j - 1) /\ Eligible(records[n], repo)
        BY <1>3
      <3> HIDE DEF from, records
      <3>2. n \in 1..(j - 1)
        BY <1>2, <1>4, <3>1
      <3>3. log[n].repo = repo /\ log[n].mode # "preview"
        BY <1>3, <3>1, <3>2 DEF Eligible
      <3> QED
        BY <1>2, <3>2, <3>3
    <2> QED
      BY <2>1, <2>2
  <1>6. I # {} /\ Max(I) = i
    <2> HIDE DEF I
    <2>1. \A x \in I : (\A y \in I : x >= y) => x = i
      BY <1>2, <1>5
    <2>2. \A y \in I : i >= y
      BY <1>2, <1>5
    <2> QED
      BY <1>5, <2>1, <2>2 DEF Max
  <1>7. LatestRoute(records, repo) = [family |-> records[i].family, effort |-> records[i].effort]
    <2>1. LatestRoute(records, repo) =
             LET n == IF I # {} THEN Max(I) ELSE 0
             IN IF n = 0 THEN NoRoute
                ELSE [family |-> records[n].family, effort |-> records[n].effort]
      BY DEF LatestRoute, SelectLastInSubSeq
    <2> HIDE DEF I, records
    <2> QED
      BY <1>2, <1>6, <2>1
  <1>8. records[i] = log[i]
    BY <1>2, <1>3
  <1> HIDE DEF records
  <1> QED
    BY <1>7, <1>8 DEF Prior, RouteOf, records

LEMMA ResolveIsDecided ==
    ASSUME scenario \in DOMAIN Scenarios, NEW r \in Route, NEW choice \in Choice,
           NEW p \in Resolve(r, choice), NEW q \in Resolve(r, choice)
    PROVE  q.model = p.model /\ q.effort = p.effort
  <1> DEFINE levels == LevelsOf(r.family, choice)
  <1>1. /\ p.model = ModelOf(r.family, choice) /\ q.model = ModelOf(r.family, choice)
        /\ levels \in SUBSET Levels
        /\ StrongestOf(levels, r.effort, p.effort) /\ StrongestOf(levels, r.effort, q.effort)
    BY ResolveIsStrongest
  <1> HIDE DEF levels
  <1>2. /\ p.effort \in Levels /\ q.effort \in Levels
        /\ p.effort <= q.effort /\ q.effort <= p.effort
    BY <1>1 DEF StrongestOf
  <1> QED
    BY <1>1, <1>2

\* A launch of the log with the prior it had, as ThirdLaunchRepeats wants it.
LEMMA LaunchEvaluates ==
    ASSUME SettleInv, NEW n \in DOMAIN log, log[n].mode = "launched"
    PROVE  LET d == log[n]
               prior == Prior(SubSeq(log, 1, n - 1), d.repo)
           IN /\ d.task \in Task /\ d.choice \in Choice /\ d.offset \in -10..10 /\ prior \in Priors
              /\ [model |-> d.model, family |-> d.family, effort |-> d.effort]
                   \in Resolve(Recommended(d.task, d.choice, d.offset, prior), d.choice)
  <1> DEFINE d == log[n]
             before == SubSeq(log, 1, n - 1)
  <1>1. scenario \in DOMAIN Scenarios /\ log \in Seq(Record \cup AgentRecord)
    BY DEF SettleInv, TypeOK
  <1>2. d \in Record
    BY <1>1, RecordShape
  <1>3. before \in Seq(Record \cup AgentRecord)
    BY <1>1
  <1>4. d.task \in Task /\ d.choice \in Choice /\ d.offset \in -10..10
    <2> HIDE DEF d
    <2> QED
      BY <1>2 DEF Record
  <1>5. Prior(before, d.repo) \in Priors
    <2> HIDE DEF before
    <2> QED
      BY <1>1, <1>3, PriorType
  <1>6. RoutedFrom(d, before)
    BY DEF SettleInv, RoutedLog
  <1> HIDE DEF d, before
  <1> QED
    BY <1>4, <1>5, <1>6 DEF RoutedFrom, d, before

\* Hysteresis settles: on every machine and after every history, the third launch of
\* the same task in a repository repeats the second.
THEOREM RepeatedLaunchesSettleAlways == Spec => []RepeatedLaunchesSettle
  <1>1. ASSUME SettleInv, NEW i \in DOMAIN log, NEW j \in DOMAIN log, NEW k \in DOMAIN log,
               Consecutive(i, j), Consecutive(j, k),
               SameRequest(log[i], log[j]), SameRequest(log[j], log[k])
        PROVE  log[k].model = log[j].model /\ log[k].effort = log[j].effort
    <2> DEFINE preset(n) == [model |-> log[n].model, family |-> log[n].family,
                             effort |-> log[n].effort]
               prior(n) == Prior(SubSeq(log, 1, n - 1), log[n].repo)
               task == log[i].task
               choice == log[i].choice
               offset == log[i].offset
               rec(x) == Recommended(task, choice, offset, x)
    <2>1. scenario \in DOMAIN Scenarios
      BY <1>1 DEF SettleInv, TypeOK
    <2>2. /\ log[i].mode = "launched" /\ log[j].mode = "launched" /\ log[k].mode = "launched"
          /\ log[j].task = task /\ log[j].choice = choice /\ log[j].offset = offset
          /\ log[k].task = task /\ log[k].choice = choice /\ log[k].offset = offset
      BY <1>1 DEF SameRequest
    <2>3. /\ task \in Task /\ choice \in Choice /\ offset \in -10..10
          /\ prior(i) \in Priors /\ prior(j) \in Priors /\ prior(k) \in Priors
          /\ preset(i) \in Resolve(rec(prior(i)), choice)
          /\ preset(j) \in Resolve(rec(prior(j)), choice)
          /\ preset(k) \in Resolve(rec(prior(k)), choice)
      BY <1>1, <2>2, LaunchEvaluates
    <2>4. CASE Machine.margin > 0
      <3>1. prior(j) = RouteOf(preset(i)) /\ prior(k) = RouteOf(preset(j))
        BY <1>1, <2>4, PriorIsPrevious DEF RouteOf
      <3> HIDE DEF prior, task, choice, offset
      <3>2. preset(k).model = preset(j).model /\ preset(k).effort = preset(j).effort
        <4> HIDE DEF preset
        <4>1. InSuccession(task, choice, offset, prior(i), preset(i), preset(j), preset(k))
          BY <2>3, <3>1 DEF InSuccession
        <4> HIDE DEF rec
        <4> QED
          BY <2>1, <2>3, <4>1, ThirdLaunchRepeats
      <3> QED
        BY <3>2
    <2>5. CASE ~ (Machine.margin > 0)
      <3>1. prior(j) = NoRoute /\ prior(k) = NoRoute
        BY <2>5 DEF Prior
      <3> HIDE DEF prior, task, choice, offset
      <3>2. rec(prior(j)) \in Route
        BY <2>1, <2>3, RecommendedType
      <3>3. preset(k).model = preset(j).model /\ preset(k).effort = preset(j).effort
        <4> HIDE DEF preset, rec
        <4> QED
          BY <2>1, <2>3, <3>1, <3>2, ResolveIsDecided
      <3> QED
        BY <3>3
    <2> QED
      BY <2>4, <2>5
  <1>2. SettleInv => RepeatedLaunchesSettle
    BY <1>1 DEF RepeatedLaunchesSettle
  <1>3. Spec => []TypeOK
    BY LauncherTypeCorrect
  <1> QED
    BY <1>2, <1>3, SettleInit, SettleNext, PTL DEF Spec

-----------------------------------------------------------------------------
(* Policy *)

\* The newest record's task is what the rules in force make of its request, and they
\* were valid.
RoutedByPolicy ==
    NewestIsRouted =>
        /\ Newest.task = TaskOf(Policy, Newest.request)
        /\ Loads(Machine.userRules, Machine.projectRules)

LEMMA PolicyInit == Init => RoutedByPolicy
  <1> SUFFICES ASSUME Init, Len(log) > 0 PROVE Newest.mode = "agent"
    BY DEF RoutedByPolicy, NewestIsRouted
  <1>1. log \in Seq(AgentRecord)
    BY MachineType DEF Init
  <1>2. Newest \in AgentRecord
    BY <1>1 DEF Newest
  <1> QED
    BY <1>2 DEF AgentRecord

LEMMA PolicyNext == LaunchInv /\ RoutedByPolicy /\ [Next]_vars => RoutedByPolicy'
  <1> SUFFICES ASSUME LaunchInv, RoutedByPolicy, [Next]_vars PROVE RoutedByPolicy'
    OBVIOUS
  <1>1. scenario \in DOMAIN Scenarios /\ log \in Seq(Record \cup AgentRecord)
    BY DEF LaunchInv, TypeOK
  <1>2. UNCHANGED scenario
    BY DEF Next, vars
  <1>3. Machine' = Machine /\ Policy' = Policy
    BY <1>2 DEF Machine, Policy
  <1>4. ASSUME NEW d, log' = Append(log, d) PROVE Newest' = d
    <2>1. Len(log') = Len(log) + 1 /\ log'[Len(log) + 1] = d
      BY <1>1, <1>4
    <2> QED
      BY <2>1 DEF Newest
  <1>5. CASE UNCHANGED vars
    <2>1. Newest' = Newest /\ NewestIsRouted' = NewestIsRouted
      BY <1>5 DEF Newest, NewestIsRouted, vars
    <2> QED
      BY <1>3, <2>1 DEF RoutedByPolicy
  <1>6. ASSUME NEW repo \in Repos, NEW mode \in {"launched", "preview"},
               NEW request \in Machine.requests, NEW choice \in Machine.choices,
               NEW offset \in Machine.offsets, RunRoute(repo, mode, request, choice, offset)
        PROVE  RoutedByPolicy'
    <2> DEFINE task == TaskOf(Policy, request)
               r == Recommended(task, choice, offset, Prior(log, repo))
    <2>1. PICK p \in Resolve(r, choice) :
            log' = Append(log,
              [repo |-> repo, mode |-> mode, request |-> request, task |-> task, choice |-> choice,
               offset |-> offset, recommended |-> r, model |-> p.model,
               family |-> p.family, effort |-> p.effort])
      BY <1>6 DEF RunRoute
    <2> HIDE DEF r
    <2>2. Newest'.request = request /\ Newest'.task = task
      BY <1>4, <2>1
    <2>3. Loads(Machine.userRules, Machine.projectRules)
      BY <1>6 DEF RunRoute
    <2> QED
      BY <1>3, <2>2, <2>3 DEF RoutedByPolicy
  <1>7. ASSUME NEW repo \in Repos, NEW route \in Machine.agentRoutes, AgentLogs(repo, route)
        PROVE  RoutedByPolicy'
    <2>1. Newest'.mode = "agent"
      BY <1>4, <1>7 DEF AgentLogs
    <2> QED
      BY <2>1 DEF RoutedByPolicy, NewestIsRouted
  <1> QED
    BY <1>5, <1>6, <1>7 DEF Next

\* The policy a command merges is the set of rules in force, every one of them valid.
LEMMA PolicyIsInForce ==
    ASSUME scenario \in DOMAIN Scenarios, Loads(Machine.userRules, Machine.projectRules)
    PROVE  /\ Policy \in Seq(Rule) /\ ToSet(Policy) = InForce
           /\ \A i \in DOMAIN Policy : ValidRule(Policy[i]) /\ Policy[i] \in InForce
  <1>1. Policy \in Seq(Rule) /\ ToSet(Policy) = InForce
    BY MachineType, MergeMeans DEF Policy, InForce
  <1>2. \A i \in DOMAIN Policy : ValidRule(Policy[i])
    BY DEF Loads, ValidLayer, Policy
  <1>3. \A i \in DOMAIN Policy : Policy[i] \in ToSet(Policy)
    BY DEF ToSet
  <1> QED
    BY <1>1, <1>2, <1>3

\* Evidence as the property states it is evidence the scan finds.
LEMMA EvidenceCounts ==
    ASSUME NEW request \in Request, NEW r, Evident(r, request), ToSet(Policy) = InForce
    PROVE  EvidentIn(Policy, r, request)
  <1> DEFINE prompt == request.prompt
  <1>1. \A o, c, d : Stands(o, prompt, c, d) <=> <<c, d>> \in Places(o, prompt)
    BY DEF Stands, Places
  <1>2. CASE PathMatches(r, request)
    BY <1>2 DEF EvidentIn
  <1>3. CASE ~PathMatches(r, request)
    <2>1. PICK x \in Places(r, prompt) :
              \A o \in InForce \ {r} : \A y \in Places(o, prompt) : y[2] < x[1] \/ x[2] < y[1]
      BY <1>3 DEF Evident
    <2>2. x = <<x[1], x[2]>>
      BY DEF Places
    <2>3. Stands(r, prompt, x[1], x[2])
      BY <1>1, <2>2
    <2>4. ASSUME NEW o \in ToSet(Policy) \ {r}, NEW c, NEW d, Stands(o, prompt, c, d)
          PROVE  d < x[1] \/ x[2] < c
      <3>1. <<c, d>> \in Places(o, prompt)
        BY <1>1, <2>4
      <3>2. <<c, d>>[2] < x[1] \/ x[2] < <<c, d>>[1]
        BY <2>1, <2>4, <3>1
      <3> QED
        BY <3>2
    <2> QED
      BY <2>3, <2>4 DEF EvidentIn
  <1> QED
    BY <1>2, <1>3

\* Policy is honoured: a rule with evidence of its own takes part, and its bounds hold
\* of the recommendation, on every machine and for every set of rules.
THEOREM PolicyHonouredAlways == Spec => []PolicyHonoured
  <1>1. ASSUME LaunchInv, RoutedByPolicy, NewestIsRouted, NEW r \in InForce,
               Evident(r, Newest.request)
        PROVE  LET route == Newest.recommended
                   conflicts == Newest.task.conflicts
                   disputed(floor, ceiling) == \E s, t \in InForce :
                       /\ {s.id, t.id} \subseteq Newest.task.rules /\ s # t
                       /\ s[floor] > t[ceiling] /\ t[ceiling] # None
               IN /\ r.id \in Newest.task.rules
                  /\ Asked.explicitEffort = None =>
                        /\ route.effort >= IF Asked.authorized THEN r.effortFloor
                                           ELSE AtMost(r.effortFloor, MaxLevel)
                        /\ \/ r.effortCeiling = None \/ route.effort <= r.effortCeiling
                           \/ "effort" \in conflicts /\ disputed("effortFloor", "effortCeiling")
                  /\ Asked.explicitFamily = None =>
                        /\ FamilyRank(route.family) >= r.familyFloor
                        /\ \/ r.familyCeiling = None \/ FamilyRank(route.family) <= r.familyCeiling
                           \/ "family" \in conflicts /\ disputed("familyFloor", "familyCeiling")
                           \/ UltraCandidate(Newest.task, Machine.weights)
                           \/ Newest.task.effortFloor = Ultra \/ Asked.explicitEffort = Ultra
    <2> DEFINE task == Newest.task
               request == Newest.request
               route == Newest.recommended
    <2>1. /\ scenario \in DOMAIN Scenarios /\ task = TaskOf(Policy, request)
          /\ Loads(Machine.userRules, Machine.projectRules)
          /\ request \in Request
      BY <1>1, NewestEvaluates DEF LaunchInv, TypeOK, RoutedByPolicy, Record
    <2>2. /\ Policy \in Seq(Rule) /\ ToSet(Policy) = InForce
          /\ \A i \in DOMAIN Policy : ValidRule(Policy[i]) /\ Policy[i] \in InForce
      BY <2>1, PolicyIsInForce
    <2>3. PICK n \in Matched(Policy, request) : n \in DOMAIN Policy /\ Policy[n] = r
      BY <1>1, <2>1, <2>2, EvidenceCounts, EvidentRulesMatch
    <2>4. /\ r.id \in task.rules
          /\ r.familyFloor <= task.familyFloor
          /\ r.effortFloor <= task.effortFloor
          /\ r.familyCeiling # None =>
                 task.familyCeiling # None /\ task.familyCeiling <= r.familyCeiling
          /\ r.effortCeiling # None =>
                 task.effortCeiling # None /\ task.effortCeiling <= r.effortCeiling
      BY <2>1, <2>2, <2>3, MatchedRulesBind
    <2>5. /\ Contradicts(task.effortFloor, task.effortCeiling) =>
                /\ "effort" \in task.conflicts
                /\ \E s, t \in InForce :
                      /\ {s.id, t.id} \subseteq task.rules /\ s # t
                      /\ s.effortFloor > t.effortCeiling /\ t.effortCeiling # None
          /\ Contradicts(task.familyFloor, task.familyCeiling) =>
                /\ "family" \in task.conflicts
                /\ \E s, t \in InForce :
                      /\ {s.id, t.id} \subseteq task.rules /\ s # t
                      /\ s.familyFloor > t.familyCeiling /\ t.familyCeiling # None
      <3> HIDE DEF task, request
      <3>1. ValidRules(Policy)
        BY <2>2 DEF ValidRules
      <3>2. \A i \in DOMAIN Policy : Policy[i] \in InForce
        BY <2>2
      <3> HIDE DEF Policy, Contradicts
      <3>3. /\ Contradicts(task.effortFloor, task.effortCeiling) =>
                  /\ "effort" \in task.conflicts
                  /\ Disputed(Policy, task, "effortFloor", "effortCeiling")
            /\ Contradicts(task.familyFloor, task.familyCeiling) =>
                  /\ "family" \in task.conflicts
                  /\ Disputed(Policy, task, "familyFloor", "familyCeiling")
        BY <2>1, <3>1, ContradictionsAreOfTwoRules
      <3> QED
        BY <3>2, <3>3 DEF Disputed
    <2>6. /\ Asked.effortCeiling = task.effortCeiling /\ Asked.effortFloor = task.effortFloor
          /\ Asked.familyCeiling = task.familyCeiling /\ Asked.familyFloor = task.familyFloor
      BY <1>1, NewestEvaluates DEF Asked, Constraints
    <2>7. /\ Asked.explicitEffort = None =>
                 /\ route.effort >= IF Asked.authorized THEN Asked.effortFloor
                                    ELSE AtMost(Asked.effortFloor, MaxLevel)
                 /\ \/ Asked.effortCeiling = None \/ route.effort <= Asked.effortCeiling
                    \/ Asked.effortFloor # None /\ Asked.effortFloor > Asked.effortCeiling
          /\ Asked.explicitFamily = None =>
                 /\ FamilyRank(route.family) >= Asked.familyFloor
                 /\ \/ Asked.familyCeiling = None \/ FamilyRank(route.family) <= Asked.familyCeiling
                    \/ Asked.familyFloor # None /\ Asked.familyFloor > Asked.familyCeiling
                    \/ GoesToSol(task, Machine.weights, Asked)
      BY <1>1, NewestEvaluates, BoundsAreKept
    <2>8. GoesToSol(task, Machine.weights, Asked) =>
             \/ UltraCandidate(task, Machine.weights)
             \/ task.effortFloor = Ultra \/ Asked.explicitEffort = Ultra
      BY <2>6 DEF GoesToSol
    <2>9. /\ r.effortFloor \in Levels \cup {None} /\ r.effortCeiling \in Levels \cup {None}
          /\ r.familyFloor \in {0, 1, 2, -1} /\ r.familyCeiling \in {0, 1, 2, -1}
          /\ task.effortFloor \in Levels \cup {None} /\ task.effortCeiling \in Levels \cup {None}
          /\ task.familyFloor \in {0, 1, 2, -1} /\ task.familyCeiling \in {0, 1, 2, -1}
          /\ route.effort \in Levels /\ FamilyRank(route.family) \in {0, 1, 2}
      <3>1. r \in Rule
        BY <2>2, <2>3
      <3>2. Newest \in Record /\ task \in Task /\ route \in Route
        BY <1>1, NewestEvaluates DEF Record
      <3>3. route.family \in Families
        BY <3>2 DEF Route
      <3> HIDE DEF task, route
      <3> QED
        BY <3>1, <3>2, <3>3 DEF Rule, Task, Route, OptLevel, FamilyBound, FamilyRank
    <2> HIDE DEF task, request, route
    <2>10. ASSUME Asked.explicitEffort = None
           PROVE  /\ route.effort >= IF Asked.authorized THEN r.effortFloor
                                     ELSE AtMost(r.effortFloor, MaxLevel)
                  /\ \/ r.effortCeiling = None \/ route.effort <= r.effortCeiling
                     \/ Contradicts(task.effortFloor, task.effortCeiling)
      BY <2>4, <2>6, <2>7, <2>9, <2>10 DEF AtMost, Contradicts
    <2>11. ASSUME Asked.explicitFamily = None
           PROVE  /\ FamilyRank(route.family) >= r.familyFloor
                  /\ \/ r.familyCeiling = None \/ FamilyRank(route.family) <= r.familyCeiling
                     \/ Contradicts(task.familyFloor, task.familyCeiling)
                     \/ GoesToSol(task, Machine.weights, Asked)
      BY <2>4, <2>6, <2>7, <2>9, <2>11 DEF Contradicts
    <2> QED
      BY <2>4, <2>5, <2>8, <2>10, <2>11, Zenon DEF task, route
  <1>2. LaunchInv /\ RoutedByPolicy => PolicyHonoured
    BY <1>1, Zenon DEF PolicyHonoured
  <1> QED
    BY <1>2, LaunchInvariant, PolicyInit, PolicyNext, PTL DEF Spec
=============================================================================
