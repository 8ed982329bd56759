# Verification of cauto in TLA+

cauto chooses a Codex model and a reasoning level for a task, starts Codex with
them, and learns from feedback. It runs in two forms. The one-shot launcher
(`cauto "fix the parser"`) routes once and replaces itself by Codex. The agent
(`cauto agent`) sits between the Codex TUI and a Codex App Server, routes the first
turn of every thread and pins the result for the thread's later turns. Both write
decision records to `decisions.jsonl` and read `calibration.json`, which all cauto
processes of a user share.

This directory holds TLA+ models of the parts of cauto that decide, remember and
share, TLC configurations that check them on small instances, and proofs, checked by
TLAPS, of what matters most for every value of the constants. `PROJECT.json` lists
components, runs, the source lines behind each definition, hazards and theorems.

    tlc -workers 2 -config AgentRouter_sessions.cfg MCAgentRouter.tla
    tlapm LauncherProofs.tla

## Inventory

| Component (src/src/) | State it keeps | Operations | What is hard | What makes it correct | Models |
|---|---|---|---|---|---|
| Agent router, `application/agent.rs` | pin of each thread, routed turns and resumes that await an answer | client requests `thread/resume`, `thread/settings/update`, `turn/start`; answers and requests of App Server | answers in any order, updates between a request and its answer, rejected turns, failing log writes, two id spaces | the pinned, logged and executed route are one; feedback reaches its own decision once; command-line choices stay | `AgentRouter` |
| Calibration, `state/tuning.rs` | `calibration.json`: an offset per repository | load, analyse, save, reset | read-modify-write without a lock over the whole | every offset was earned by the repository's own feedback | `Tuning`, `StateFiles`, `SharedStore` |
| Decision log, `state/decision_log.rs`, `state/feedback.rs`, `application/decision.rs` | `decisions.jsonl` | append under a lock with a timeout; read the tail; join feedback | concurrent appenders, a write cut short, timeouts | records never mix; the prior is the last route of the same repository | `StateFiles`, `Launcher` |
| Selection and scoring, `routing/*.rs`, `application/route.rs` | none of its own; the last logged route is the prior | score, calibrate, hysteresis, bounds, Ultra, risk floors, resolve against the catalog | thresholds and bands, order of overrides, feedback of the log into the next route | monotone in risk, directed by calibration, settles, floors hold | `RouteSelection`, `Launcher` |
| Catalog and capabilities, `codex/catalog.rs`, `codex/capabilities.rs` | the cached catalog | resolve a preset; refresh under a lock | stale caches, concurrent refresh, timeouts | downgrades only with leave; no stale cache taken for fresh | `CatalogCache`; preset resolution in `Launcher` |
| Atomic writes, `cache/atomic.rs` | a file, its lock, temporary files | `atomic_write` | kills and power failures between its steps | a reader sees a whole old or new file | `StateFiles` |
| Relay and lifecycle, `app_server/mod.rs` | sockets, queues of messages, two child processes | negotiate, relay, reap | blocking both ways, no read timeout, dying children | no message lost, doubled or reordered, nobody waits for the dead, children reaped | `Relay`; what the interceptor does with a message in `AgentRouter` |
| Rules and configuration, `routing/rules.rs`, `config/*.rs` | none | validate and merge two layers, match phrases and paths, apply deltas and bounds | one automaton for the phrases of all rules, replaced identifiers, bounds that meet | a rejected layer stops the command; every matched bound counts, whatever else matches | `PolicyRules`, `Launcher` |
| Features, semantic scoring, task budget, `routing/features.rs`, `routing/semantic.rs`, `routing/task_budget.rs` | none | text to dimensions | text heuristics | | inputs of `Launcher`; the risk floors and the paths taken from a prompt are modelled |
| Confidence, explanation, output, reports, CLI, context, launch, paths | none | formatting, argument construction, reading git | pure or I/O | | not modelled |

How they interact: the launcher and the agent call the selection with the last route
of the repository (launcher only) and its offset; the result is resolved against the
catalog; the decision is appended to the log. Feedback (the agent's own or `cauto
feedback`) is appended to the same log; the agent then analyses the log and replaces
`calibration.json`. Processes meet only in these files.

## Modules

    Tuning ─────────┬─ AgentRouter ── MCAgentRouter
                    │      └── AgentRouterProofs ── AgentRouterRouteProofs
                    └─ StateFiles ── MCStateFiles        SharedStore (abstract)
                           └── StateFilesProofs
    CatalogCache ── MCCatalogCache
        └── CatalogCacheProofs
    RouteSelection ── PolicyRules ── Launcher ── MCLauncher
        │                  │            └── LauncherProofs
        └── RouteSelectionProofs ── PolicyRulesProofs ──┘
    Relay ── MCRelay
        └── RelayProofs

**Tuning** is the pure part of `tuning.rs`: which events count, the 3-event and 70%
thresholds, what an entry becomes. 0 stands for "no entry"; the code treats the two alike.

**AgentRouter** has the code's three maps as `threads`, `pending` and `resumes`, what
the session appended to the log as `decisions` and `feedback`, the repository's entry
as `calibration`. `sent` is the environment: the forwarded requests whose answer the
relay has not yet passed on. There is one action per handler and way through it:
`ClientResume`, `ClientSettings` (`note_explicit_route`), `ClientFollowUp`
(`keep_session_route`), `ClientUnclassified`, `ClientFirstTurn`
(`route_initial_turn`), `ClientFirstTurnFails`; `RelayAnswer` and
`RelayServerRequest` both go through `ServerMessage`, which matches by id alone as
`server_message` does. Failing appends and failing saves are alternatives inside the
actions. A model is pinned
on the command line by its name (`CliModel`) or through its family (`ModelPinned` alone), an
effort likewise also by a word that is no level. What the router recommends is any preset that the explicit choices allow:
the model does not depend on which one the selection prefers. The one field of
`decisions` that is not in the code, `accepted`, notes whether the message that
caused the record really was the acceptance.

**RouteSelection** is the arithmetic of a route: weights and score, calibration,
hysteresis, bounds, explicit choices, Ultra and the risk floor in the code's order.
Models and levels are numbers; reasons, confidence and text are left out.

**PolicyRules** is policy: `Loads` validates the user's layer, the project's and their
merge; `Matched` finds the rules a request triggers, and `TaskOf` turns the features of
the request into the task that is routed. Prompts and phrases are short sequences of
symbols because what is found depends on where phrases end and overlap: all rules share
one Aho-Corasick automaton, which reports of overlapping phrases only the first to end.
Rules are gone through with folds, in the order of the code's loops, which a proof can
unfold. A glob is the set of paths it matches. Confidence and evidence texts are left out.

**Launcher** runs commands one after another against one log: `RunRoute` loads the policy,
applies it to a request, computes the prior from the log's tail, routes, resolves against
the catalog and appends a record; when a layer is invalid nothing is launched,
nor when the catalog refuses what was chosen (an unknown model, an effort it lacks, a Fast tier it
does not offer). All of that is one step: two launches do not overlap between reading the prior and
appending the record.
`AgentLogs` is a session of the agent seen from there. A `Scenario` is a machine: its
configuration, catalog, rules of both layers and what is asked of it. What is a constant of
a scenario is never changed by a command in the code either. Records keep the inputs
of the route so that properties can recompute it.

**StateFiles** interleaves processes on the state directory. The log is a sequence of
pieces, three to a record: two halves and the newline, so that every cut a kill or a
failed write can make is told apart by the readers. `LockLog`, `LockTimeout`,
`AppendPiece`, `AppendFails` are `append_json_line`; `LoadStore`, `Analyze`, `Reset`,
`ReadFails` are the callers in `record_feedback` and `run_tune`; `LockStore`,
`WriteTemp`, `WriteFails`, `Rename`, `CloseStore` are `atomic_write`. Either write may also fail
before it has its lock (`AppendFails`, `WriteFails`). A file has
contents and a state of its data (partial, written, synced); `disk` is what its
directory entry leads to after a power failure. Analysing reads the log in one step:
the file only grows while processes run, so a slow reader sees what it would have
seen at the moment it met the end. Locks are released by the operating system when a
process is killed. A power failure loses an unsynced end of the log and possibly the
last rename, and ends every process that had started; one that starts later finds
what is left.

**SharedStore** is the abstract promise of `calibration.json`: a register that is read
as a whole and put back as a whole, with lost updates but without torn ones, and that
a power failure takes back at most to what was known to be kept. `StateFiles`
implements it under `store <- file.value, kept <- disk.value`.

**CatalogCache** is `CatalogManager::load` as several processes run it. An installation
is a number that stands for its fingerprint, home and profile, and so for its cache file,
lock file and version file; upgrades count up. `Start` resolves it, `ReadCache` may
return at once, `LockRefresh`, `LockTimeout` and `LockFails` are the ways the refresh
lock ends, `Reload` the second look under the lock; `KnownVersion`, `ProbeVersion`,
`Probe`, `ProbeBundled` and their failures are the processes started meanwhile, each
answered by whatever Codex is installed at that moment; `Save` and `SaveFails` the atomic
write, one step by `StateFiles`. `Prior` is what every failing branch falls back to. A
catalog keeps whose models and version it has, when it was fetched, and its source, stale
and warning marks. Left out: corrupt or unreadable cache files (to the code, missing
ones; the model's are always readable) and a clock that goes back. An offline load puts
bundled metadata into the same cache, as the code does.

**Relay** is one adaptive session as `run` goes through it, with the two child processes
and the two connections. `pc` is where the thread is; `said`, `heard`, `told` and `got`
are the four streams and how far each reader is, so that what is in a socket buffer is
the difference of two counters and a write blocks at `Capacity`. `SpawnServer`, `Connect`,
`Negotiate`, `SpawnTui`, `AcceptTui`, `Handshake` and `Dial` are the steps up to the relay
loop, `ReadRequest` to `Notify` the loop, `WaitTui` and `DropGuards` the end. `Fail` is
the `?` of any of them. A step that fails because a child has gone is an action of the thread;
`Breaks` is every other error, of a socket, of the operating system or of a living peer that
breaks off, which may come at any time and never has to. The interceptor is any number of notices or an error; `handled` is
the order in which it was called. App Server and the TUI may say, read, close and exit
whenever they like; a message carries what its author had read by then (`seen`), which
no code looks at and `InterceptorInStep` is about. It composes with `AgentRouter` through
that property: it is what `AgentRouter` takes for granted of the order of its calls, that
an answer is handled after the request it answers, and a request after all answers its
author had seen.

Operators whose comment says *Fault* are not part of the model. Each is a plausible
bug in the definition after it, kept to show that a property notices it.

## Runs

| Run | Instance | Shows |
|---|---|---|
| `sessions` | 1 thread, 2 requests in flight, 2 models, 2 levels, nothing fixed on the command line, 2 decisions, earlier feedback one event from changing the offset | `TypeOK`, `LoggedRouteIsSentRoute` (with `TrackedOnlyInFlight`), `FeedbackOncePerDecision`, `CalibrationEarned`, `FollowUpsCarryPin` |
| `pins` | 2 threads, family, effort and tier fixed on the command line, App Server's ids distinct | `DecisionsWereAccepted`, `PinNamesOwnDecision`, `CommandLinePinIgnoresClient` |
| `stranded` | as `sessions` | finding: `ExplicitChangeReplacesPin` fails |
| `clipin` | as `pins`, with an exact model fixed | finding: `CommandLinePinIsKept` fails |
| `sharedids` | as `sessions`, App Server uses an id of the TUI | finding: `DecisionsWereAccepted` fails |
| `launches` | eight machines: histories of three and four records at the boundaries of levels and families with two catalogs and two bands; one launch of many tasks after every kind of last route; one launch of prompts that trigger every mix of ten rules of both layers, under thirteen command lines; the same with an invalid project layer | `TypeOK`, `RepeatedLaunchesSettle`, `RaisingRiskNeverWeakens`, `CalibrationDirection`, `RiskFloorHolds`, `WeakFamilyOnlyWhereSafe`, `UltraIsEarned`, `DowngradesArePermitted`, `PolicyHonoured` |
| `explicit_family` | one task that is a candidate for Ultra | finding: `ExplicitFamilyWins` fails |
| `mentioned` | one rule for a path with capitals, and requests that name the path or do not | finding: `MentionedPathsCount` fails |
| `processes` | 2 processes, 2 repositories, 4 workloads (sessions that agree or disagree, tune --apply, tune --reset), earlier reports at the threshold | `TypeOK`, `LinesAreWhole`, `StoreIsWhole`, `OffsetsWereEarned`, `StoreIsShared` (refinement), `EveryoneFinishes` (liveness) |
| `catalogs` | 2 processes, 6 mixes of plain, refreshing and offline loads, 2 installations, a clock of 3 with a maximum age of 1, every cached catalog earlier loads can have left | `TypeOK`, `NothingReplacedIsListed`, `FreshIsRecent`, `RefreshIsShared`, `CacheNeverGoesBack` |
| `session` | one session, 3 items between the peers, socket buffers of one item, one notice to a message, 10 pages of models | `TypeOK`, `ChildrenReaped`, `StreamsAreFaithful`, `InterceptorInStep`, `NobodyWaitsForTheDead` and `MessagesArrive` (liveness) |
| `reset` | as `processes` | finding: `ResetRemovesOnlyItsEntry` fails |

Why the bounds are enough. *sessions*: the router keeps nothing across threads but the
calibration, so one thread shows what a thread can do; two ids let a second request
overtake the answer to the first; two decisions let feedback reach the wrong one; two
models and levels give every direction of change. *pins* adds the second thread, with
one level and one tier, for properties that speak of other threads. `MaxDecisions`
bounds only how many first turns are routed. *launches*: hysteresis looks one record
back, so a log of four has every chain of prior, launch, repetition and a record in
between; tasks were chosen to score at and beside 20, 45, 68 and 84. The six symbols and
ten rules of the policy have a phrase that hides another, one that overlaps, two rules with
one phrase, a replaced rule, bounds that contradict one another and deltas that cross 0. The theorems
below carry these properties to all tasks, weights and bands. *processes*: all races
are between two processes over one lock or one read-modify-write; a third adds only
longer queues (a run with three showed nothing else in the 180,000 states it reached). *catalogs*: the
lock pairs processes in the same way (a run with three processes and an empty cache,
4 million states, also passed); three times hold a fetch, its last fresh moment and its
expiry. *session*: with buffers of one item every write can block; three items let both
peers have one under way while a third, possibly the closing frame, follows one of them,
and let a peer answer an answer.

Symmetry permutes threads, ids and repositories, of which nothing compares two
members in order. The view of `sessions` and `pins` hides the route in a request once
it is neither tracked nor being sent, since no action reads it then.

Deadlock checking is off for logs that reach their bound and for processes that end.

Fairness. The safety properties need none. `StateFiles` assumes weak fairness of each
process's own next step, that is, that the operating system schedules it. Nothing is
assumed of errors, kills, timeouts or power failures, and lock waiting is not assumed
to be fair: `EveryoneFinishes` holds because each holder ends and gives its lock up.
`Relay` assumes that its thread is scheduled; that a living App Server answers in
negotiation and a TUI that has connected finishes the WebSocket handshake, since the code
waits for both without a time limit; and that both peers go on reading as long as there is room for
what they write themselves (`PeerReadsWithRoom`): a peer held up in a write may read nothing
meanwhile. Nothing is assumed of the user, of exits, of errors, or of what the peers send, so
a session may last for ever.

## Findings

Each is a run that TLC finds violated, and a line of the documentation that disagrees.

* `stranded`, agent.rs:470: a settings update between the first turn and its answer is
  set aside for a first turn that never comes; README.md:203 says it replaces the pin.
* `clipin`, agent.rs:709: three ways of taking the native route do not look at
  `--model`, although the client is told that the command-line pin was kept.
* `sharedids`, agent.rs:895: a request App Server initiates, with the id of a pending
  first turn, is taken for its acceptance; ARCHITECTURE.md:178 says routed turns are
  logged after App Server accepts them.
* `explicit_family`, select.rs:286: a candidate for Ultra becomes Sol although the
  command line names another family; README.md:119: "Explicit choices win."
* `mentioned`, features.rs:80: the paths that rules are matched with are taken from the
  prompt in lower case, while globs distinguish case: a rule for `README.md` or `src/Main.java`
  never sees a prompt that names it. ARCHITECTURE.md:52: "GlobSet maps mentioned paths
  back to rules."
* `reset`, tuning.rs:371: a reset puts back a store read before another repository's
  session saved its entry, and so removes that too; ARCHITECTURE.md:152 says it
  removes only the selected entry.

Other things the models show, which no line of the documentation contradicts outright:

* Calibration stops at 84, which with a margin lies inside the band in which an earlier Max
  is kept (select.rs:65).
* A rule whose phrase overlaps one that ends earlier, or that another rule has too, may
  never be found: of equal phrases the earlier rule, the user's before the project's, wins.
  `PolicyHonoured` therefore speaks of evidence that no other rule's phrase overlaps.
* A candidate for Ultra is moved to Sol over family ceilings of the policy (ROUTING.md:42
  names only the authorization).
* `unused_endpoint` frees the port before App Server binds it, so that another program may
  take it; then `Connect` fails, or meets that program.
* The interceptor forwards the acceptance of a turn before it has logged the decision: a TUI
  that exits at once may leave a turn that ran without its record.
* The relay can get stuck: while it waits to write to a peer whose buffer is full it reads from
  neither, and if that peer waits to write too, each waits for the other to read. TLC reaches
  this when the exception `Circle` is taken out of `MessagesArrive`. The two liveness properties of
  `Relay` say that it is the only way. Whether it happens depends on the peers: one that reads while
  its writes are blocked never gets there.
* Child guards run when `run` returns. When cauto itself is killed by a signal nothing
  runs them; that is not an action of `Relay`.

## Proofs

All constants are arbitrary up to the named assumptions: `ConstantsOK` and
`NoneIsNoRequest` of `AgentRouter`, `PolicyConstantsOK` of `PolicyRules` (a path has a
lower-case form), `LauncherConstantsOK` of `Launcher`,
`StateFilesConstantsOK` of `StateFiles` (which makes the processes and earlier sessions
finitely many, so that reports can be counted), `CatalogConstantsOK` of `CatalogCache`,
`RelayConstantsOK` of `Relay`.
None bounds a size. (`AcceptedAreLogged` also assumes App Server's ids differ from the TUI's: the
run `sharedids` shows that it must.)

* `AgentRouterProofs`: `TypeCorrect`, one lemma per action, over typing lemmas for
  `RecordFeedback`, the pins and the forwarded routes.
* The same module: `FeedbackAtMostOnce` and `PinsNameOwnDecisions` from
  `FeedbackInv`, which adds to them `FeedbackCloses`: a pin whose decision already has
  an event is closed. Without it a state in which a decision has an event and its pin
  is still open satisfies both properties and breaks the first in one step. The step is
  proved once from an effect common to all actions (`NextEffect`). `TrackedInFlight`
  and `AcceptedAreLogged` come the same way from `AcceptedInv`: a tracked id is in
  flight, and no id that only App Server uses is tracked.
* `AgentRouterRouteProofs`: `LoggedRoutesWereSent` from the types, that a tracked id is
  in flight (`TrackedOnlyInFlight`: else a reused id could replace the request), and that a
  tracked turn names what its request asks for (`RoutesAgree`). One handler tracks turns;
  the others are shown to leave a tracked one with its request (`NothingTracked`). `FollowUpsCarryThePin` and
  `CommandLinePinsHold` are properties of steps, proved from the types and the handlers
  that can take the step. `OffsetsAreEarned` rests on `EarnedInv`: decisions are the
  router's own (`AgentDecisions`), and events name open decisions (`FeedbackInv`), so
  that the sums over the log which `analyze` takes are counts of distinct events, and the
  beginning of the log that earned an offset remains a beginning when the log grows.
* `RouteSelectionProofs`: the selection as a pure function. Hysteresis for levels and
  for families is monotone in the score (`EffortIsMonotone`, `FamilyIsMonotone`), the
  score in every risk (`ScoreIsMonotone`), safety for a weak family shrinks with risk,
  and bounds, Ultra and risk floors keep the order; together `RouteIsMonotone`. The
  same lemmas with another offset give `CalibrationIsDirected`. `WeakRouteIsSafe`,
  `RiskIsFloored` and `UltraNeedsCandidacy` follow the code's overrides in order.
  `RecommendSplits` says that a prior's level acts on the level alone and its family on
  the family alone. On it rest `BoundsAreKept` and the two lemmas about repetition: routing
  with the family that was recommended gives that family again (`FamilySettles`), and
  lowering a recommended level to one the model has and routing from there is stable after
  the second time (`EffortSettles`), since bounds and the risk floor, once applied,
  leave a level alone (`FinalEffortCloses`).
* `PolicyRulesProofs`: what merging, matching and applying rules do for every policy. The
  folds are recursive functions on sets of positions; `FoldExists` shows that such a
  function exists and `FoldRuns` that it is a run of its step, and inductions on positions
  go by the least counterexample (`LeastNat`). From the run of the scan follows
  `EvidenceIsFound`: until the scan has reached the end of a phrase that no other rule's
  overlaps, it has either reported the rule already or stopped before the phrase begins. From the
  run of the merge follows `MergeMeans`, the rules in force. `MatchedRulesBind` and
  `ContradictionsAreOfTwoRules` are about the task: its bounds are the tightest of the
  matched rules', and a contradiction comes from two of them, as no valid rule contradicts
  itself. `TaskOfType` says that whatever rules match, what comes out is a task with scores
  in 0..4, so that the theorems on the router hold under every policy.
* `LauncherProofs`: `LaunchInv` is the type, `DowngradesArePermitted` and
  `RoutedFromPrior`: every routed record holds what `Recommended` gives for its own
  inputs and the log before it. That reduces five properties of any history to the
  theorems on the pure function. `RepeatedLaunchesSettleAlways` compares three records
  of the log, and so needs the same of every record, not of the newest only (`RoutedLog`), and
  that of two consecutive decisions the earlier is the later one's prior, also with
  previews and other repositories in between (`PriorIsPrevious`); `ThirdLaunchRepeats` is
  then the argument on three evaluations: a catalog resolves a family to one model
  and a level to the strongest it has below (`ResolveIsStrongest`), and both settle.
  `PolicyHonouredAlways` adds to `LaunchInv` that the newest task is what the rules in
  force made of its request, and that they were valid (`RoutedByPolicy`); it joins
  `MergeMeans`, `EvidenceIsFound`, `MatchedRulesBind` and `BoundsAreKept`.

* `StateFilesProofs`: `StoreInv` adds to the type that a process about to save holds
  the store its new one was computed from and has synced the temporary file when it
  renames it (`SavesWhatItRead`), and that what was put in place was synced
  (`FilesAreSynced`); `StoreIsAlwaysWhole` and the refinement of `SharedStore`
  (`StoreIsSharedAlways`) follow from it, step by step: `Rename` is `PutBack`, a
  process that gives up or is killed is `GiveUp`, `CloseStore` is `Keep`, the steps on the
  log and on temporary files are stutters. `LinesAreAlwaysWhole` rests on `LogInv`: the
  holder of the lock, and nobody else, is in the middle of a record
  (`HolderAppends`); the log ends with that process's piece, or else with a whole
  line or the remains of a process that is gone (`EndBelongs`); and every piece is by a
  process that has started, which a power failure then takes with it
  (`WritersStarted`). `OffsetsWereEarnedAlways` rests on `EarnInv`: not only the file
  but every store that a process holds or is about to write is earned. That uses two
  facts: the code's join of feedback with decisions counts exactly the reports
  (`CountsAreReports`), and a report readable in some beginning of the log stays so while
  the log only grows (`EarnedLasts`).

* `CatalogCacheProofs`: all five properties of the run from `CatalogInv`. `LockInv` ties
  the lock of an installation to the one process refreshing it. `EntryOK` says that a cached
  catalog is of its installation or a later one and not from the future. `LoadOK` says what
  a load knows at each step; the properties need of it that a catalog about to be saved is
  no older than the cached one, and that nothing fresh is cached between a plain load's
  second look and its question to Codex. Both survive the steps of others because only
  the holder of the lock writes (`OthersStay`), and upgrades and time because these only
  make what is cached older (`MachineSteps`).

* `RelayProofs`: the four safety properties of `Relay`. `TypeInv` adds to the type that
  in the phases which forward an item, or notify about it, there is one. What a step
  does to the streams is one of six effects (`NextEffect`), and the invariants are
  shown for each. `OrderInv` says of a written item that it was read and is no longer in
  the relay's hand (`WrittenWasRead`), without which nothing forbids writing it again;
  `NoticeInv` that until its notices are written an event is the last thing the TUI was
  sent. `StepInv` links what the peers saw to what the interceptor was given: what a peer
  had read was written to it (`SeenWasWritten`), and what was written was handled, except
  for an event between its forwarding and its inspection, which only the TUI can have
  seen (`WrittenWasHandled`); since the relay inspects before it reads again, nothing
  that depends on that event can be handled first.

Every safety property of a passing run, of states or of steps, is thus a theorem.
Model-checked only are the three liveness properties, `EveryoneFinishes`,
`NobodyWaitsForTheDead` and `MessagesArrive`: they rest on fairness, which is out of the
prover's reach. That the scores of a task are the sums `TaskOf` folds is likewise left
to TLC; the proofs need only their range.

## Not modelled, and why

Text heuristics, confidence and explanations decide nothing beyond the dimensions that
the models take as inputs; of `features.rs` and `semantic.rs` only the extraction of paths
and the risk floors are modelled. Argument construction, output, discovery of git metadata and
paths are pure or plain I/O. `cauto feedback` is a second way of appending the event that
a session appends. Details inside modelled parts that are left out: byte lengths and the
256 KiB tail (the launcher's tail counts records), permissions of files, wording of
warnings, timestamps and hashed ids (decisions are numbered, so two of them never share an id),
and a clock that is set back.

## Plan

1. Agent router: done.
2. Selection and launcher: done.
3. State directory: done, its safety proved. Left: `cauto feedback` as a process of its
   own, and reading the last route from the tail of a log that is being written.
4. Catalog cache: done, its safety proved. Left: a clock that is set back.
5. `Relay` with the session lifecycle: done, its safety proved.
6. `PolicyRules`: done; the other settings stay inputs.
7. Theorems: every safety property is proved. Left: that `RouteSelection`'s calibration is
   the one `Tuning` computes, and the extensions of 3 and 4 with their proofs.
