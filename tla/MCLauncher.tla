----------------------------- MODULE MCLauncher -----------------------------
(* Small instances of Launcher for TLC. *)
EXTENDS Launcher, TLC

CONSTANTS r1, r2  \* repositories

MCModelIds == {"luna", "terra", "sol", "old-sol", "unlisted"}
MCFamilyOf == [m \in MCModelIds |->
    CASE m = "luna" -> Luna [] m = "terra" -> Terra [] m = "unlisted" -> Other [] OTHER -> Sol]

Model(id, efforts, hidden) ==
    [id |-> id, efforts |-> efforts, hidden |-> hidden, supported |-> TRUE,
     fastTier |-> id = "sol"]
FullCatalog ==
    <<Model("old-sol", Levels, TRUE), Model("sol", Levels, FALSE),
      Model("terra", Low..MaxLevel, FALSE), Model("luna", Low..MaxLevel, FALSE)>>
\* Sol without Extra High, Terra and Luna without anything above Medium.
PoorCatalog ==
    <<Model("sol", {Low, Medium, High, MaxLevel}, FALSE), Model("terra", {Low, Medium}, FALSE),
      Model("luna", {Low, Medium}, FALSE)>>

Dims(scope, ambiguity, cost, runtime, depth, verification, parallel) ==
    [scope |-> scope, ambiguity |-> ambiguity, cost |-> cost, runtime |-> runtime,
     depth |-> depth, verification |-> verification, parallel |-> parallel]
PlainRequest(type, dims) ==
    [type |-> type, dims |-> dims, tracks |-> dims.parallel >= 3, delegation |-> FALSE,
     prompt |-> <<>>, paths |-> {}]

\* Words of prompts and phrases, and paths, one of them with capitals.
MCSymbols == {"a", "b", "c", "d", "e", "f"}
MCPaths == {"src", "readme", "README"}
MCLowerCase == [p \in MCPaths |-> IF p = "README" THEN "readme" ELSE p]
MCRuleIds == {"floor", "bounds", "cap", "high", "ultra", "one", "two", "hidden", "again", "broken"}

NoDelta == [scope |-> 0, ambiguity |-> 0, cost |-> 0, runtime |-> 0, depth |-> 0,
            verification |-> 0, parallel |-> 0]
OnPhrase(id, phrase) ==
    [id |-> id, phrases |-> <<phrase>>, globs |-> <<>>, deltas |-> NoDelta,
     familyFloor |-> None, familyCeiling |-> None, effortFloor |-> None, effortCeiling |-> None]
OnPath(id, path) ==
    [OnPhrase(id, <<>>) EXCEPT !.phrases = <<>>, !.globs = <<{path}>>]

\* The project replaces the user's "bounds"; "hidden" and "again" are never found where
\* the phrases they begin with or repeat are; "ultra" hides "high".
MCUserRules ==
    <<[OnPhrase("floor", <<"a">>) EXCEPT !.familyFloor = Terra],
      [OnPhrase("bounds", <<"b">>) EXCEPT !.familyCeiling = Luna, !.effortCeiling = Low],
      [OnPath("cap", "src") EXCEPT !.effortCeiling = Medium]>>
MCProjectRules ==
    <<[OnPhrase("bounds", <<"b">>) EXCEPT !.familyCeiling = Terra, !.effortCeiling = MaxLevel],
      [OnPhrase("high", <<"c">>) EXCEPT !.effortFloor = High],
      [OnPhrase("ultra", <<"d", "c">>) EXCEPT !.effortFloor = Ultra],
      [OnPhrase("one", <<"e">>) EXCEPT !.deltas.parallel = 1],
      [OnPhrase("two", <<"f">>) EXCEPT !.deltas.parallel = 2, !.deltas.cost = -1],
      [OnPhrase("hidden", <<"b", "c">>) EXCEPT !.familyFloor = Sol],
      [OnPhrase("again", <<"a">>) EXCEPT !.effortCeiling = Low]>>
BrokenRules ==
    <<[OnPhrase("broken", <<"e">>) EXCEPT !.effortFloor = MaxLevel, !.effortCeiling = Medium]>>
Prompts ==
    {<<>>, <<"a">>, <<"b">>, <<"c">>, <<"a", "b">>, <<"a", "c">>, <<"b", "c">>,
     <<"a", "b", "c">>, <<"d", "c">>, <<"b", "d", "c">>, <<"e", "f">>, <<"c", "e", "f">>,
     <<"a", "d", "c", "e", "f">>}

NoChoice ==
    [model |-> NoModel, family |-> None, effort |-> None, foreignEffort |-> FALSE,
     allowUltra |-> FALSE, allowDowngrade |-> FALSE, fast |-> FALSE, prompt |-> TRUE]

\* Last routes on both sides of every boundary of family and level.
LastRoutes ==
    {[family |-> Luna, effort |-> Low], [family |-> Luna, effort |-> High],
     [family |-> Terra, effort |-> Low], [family |-> Terra, effort |-> Medium],
     [family |-> Sol, effort |-> High], [family |-> Sol, effort |-> ExtraHigh],
     [family |-> Sol, effort |-> MaxLevel]}

Base ==
    [margin |-> 3, weights |-> DefaultWeights, optIn |-> TRUE, autoDowngrade |-> TRUE,
     defaultModel |-> "sol", defaultEffort |-> Medium, userRules |-> <<>>,
     projectRules |-> <<>>, instructed |-> FALSE,
     explicitOnly |-> FALSE, catalog |-> FullCatalog, tail |-> 10, requests |-> {},
     choices |-> {NoChoice}, offsets |-> {0}, agentRoutes |-> {}, earlier |-> {<<>>},
     maxLog |-> 2]

\* Long histories of few tasks, at the boundaries 20/45 and 68/84, with and
\* without levels the catalog lacks, in two repositories.
Boundary == {PlainRequest("coding", Dims(1, 1, 1, 1, 0, 1, 0)),     \* 21
             PlainRequest("coding", Dims(2, 1, 2, 2, 2, 2, 0)),     \* 45
             PlainRequest("coding", Dims(3, 3, 2, 3, 3, 2, 0))}     \* 68
History(catalog, margin, requests, length) ==
    [Base EXCEPT !.catalog = catalog, !.margin = margin, !.requests = requests,
        !.agentRoutes = {[family |-> Sol, effort |-> High]}, !.maxLog = length]
Histories ==
    <<History(FullCatalog, 3, {t \in Boundary : t.dims.scope # 3}, 4),
      History(PoorCatalog, 20, Boundary, 3)>>

\* One launch of many tasks after every possible last route.
Wide ==
    {PlainRequest("coding", Dims(s, a, c, r, d, v, 3)) :
        s \in {0, 3}, a \in {0, 2, 3}, c \in {0, 2, 4}, r \in {1, 3}, d \in {0, 3}, v \in {1, 3}}
    \cup {PlainRequest("documentation", Dims(3, a, c, 1, d, v, 3)) :
            a \in {0, 3}, c \in {0, 2}, d \in {0, 2}, v \in {1, 4}}
Ruled ==
    {[PlainRequest("coding", Dims(3, a, c, 3, 2, 2, p)) EXCEPT
        !.delegation = p = 4, !.tracks = p = 4, !.prompt = prompt, !.paths = paths] :
        a \in {1, 3}, c \in {1, 4}, p \in {3, 4}, prompt \in Prompts, paths \in {{}, {"src"}}}
CommandLines ==
    {NoChoice, [NoChoice EXCEPT !.allowUltra = TRUE], [NoChoice EXCEPT !.prompt = FALSE],
     [NoChoice EXCEPT !.effort = ExtraHigh], [NoChoice EXCEPT !.effort = Ultra],
     [NoChoice EXCEPT !.effort = ExtraHigh, !.allowDowngrade = TRUE],
     [NoChoice EXCEPT !.family = Luna], [NoChoice EXCEPT !.family = Terra, !.effort = Low],
     [NoChoice EXCEPT !.model = "unlisted"], [NoChoice EXCEPT !.model = "terra"],
     [NoChoice EXCEPT !.model = "unlisted", !.effort = Ultra],
     [NoChoice EXCEPT !.foreignEffort = TRUE], [NoChoice EXCEPT !.fast = TRUE]}
Wider(margin, offsets) ==
    [Base EXCEPT !.margin = margin, !.requests = Wide, !.offsets = offsets,
        !.earlier = {<<[repo |-> repo, mode |-> "agent", family |-> r.family, effort |-> r.effort]>> :
                        repo \in Repos, r \in LastRoutes}]
Ruling(catalog, optIn, auto) ==
    [Base EXCEPT !.catalog = catalog, !.requests = Ruled, !.choices = CommandLines,
        !.optIn = optIn, !.autoDowngrade = auto, !.userRules = MCUserRules,
        !.projectRules = MCProjectRules, !.maxLog = 1]

MCScenarios ==
    Histories \o <<Wider(3, {5}), Wider(20, {-10}), Ruling(FullCatalog, TRUE, TRUE),
                   [Ruling(FullCatalog, FALSE, FALSE) EXCEPT !.choices = {c \in @ : c.family = None}],
                   [Ruling(PoorCatalog, TRUE, TRUE) EXCEPT !.choices = {c \in @ : ~c.allowUltra}],
                   [Ruling(FullCatalog, TRUE, TRUE) EXCEPT !.projectRules = BrokenRules]>>

\* One task below Max, and one that is a candidate for Ultra.
OneTask ==
    <<[Base EXCEPT !.requests = {PlainRequest("coding", Dims(4, 3, 3, 3, 3, 3, 0)),
                                PlainRequest("coding", Dims(4, 3, 3, 3, 3, 3, 4))},
        !.choices = {NoChoice, [NoChoice EXCEPT !.family = Luna], [NoChoice EXCEPT !.effort = MaxLevel]},
        !.offsets = {0, 5}]>>

\* A rule for a path with capitals, and a prompt that names the path.
OnePath ==
    <<[Base EXCEPT !.projectRules = <<[OnPath("high", "README") EXCEPT !.effortFloor = High]>>,
        !.requests = {[PlainRequest("documentation", Dims(1, s, 1, 0, 1, 1, 0))
                        EXCEPT !.paths = paths] : s \in 0..4, paths \in {{}, {"README"}}},
        !.maxLog = 1]>>

Symmetry == Permutations(Repos)
=============================================================================
