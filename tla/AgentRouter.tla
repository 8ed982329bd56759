----------------------------- MODULE AgentRouter -----------------------------
(***************************************************************************)
(* The adaptive agent's message interceptor (application/agent.rs): what   *)
(* the relay's router does with every client request and server message    *)
(* that changes its state, against an App Server that may answer requests  *)
(* in any order, accept or reject them, and send requests of its own.      *)
(*                                                                         *)
(* `sent' is the environment's view: the requests the relay has forwarded  *)
(* and whose answers it has not yet relayed.  Everything else is state of  *)
(* the code: AgentRouter's three maps, the decision log, the feedback in   *)
(* it, and this repository's calibration entry.                            *)
(***************************************************************************)
EXTENDS Tuning, Sequences

CONSTANTS
    Threads,        \* native thread identifiers
    Ids,            \* request ids the TUI uses
    ServerIds,      \* ids App Server uses for the requests it initiates
    Models,         \* model identifiers
    Rank,           \* capability rank of a model's family
    Levels,         \* reasoning levels, ordered as numbers
    Tiers,          \* service tiers
    TierKeys,       \* what a message may carry under serviceTier
    None,           \* an absent value (Option::None, JSON null)
    Absent,         \* a key that a message does not carry at all
    CliModel,       \* the exact model of --model or a forwarded -m; None without
    ModelPinned,    \* whether that or --family was given
    CliEffort,      \* --effort or a forwarded effort, if it is one of the levels
    EffortPinned,   \* whether an effort was given, one of the levels or not
    CliTier,        \* the tier --fast/--no-fast selects; None when there is none
    TierPinned,     \* whether any service tier flag was given
    AllowDowngrade, \* --allow-downgrade
    PriorCounts,    \* feedback counts that earlier sessions may have left
    MaxDecisions    \* bound on the decisions one run of the model logs

ASSUME ConstantsOK ==
    /\ Rank \in [Models -> Nat]
    /\ Levels \subseteq Nat
    /\ None \notin Threads \cup Models \cup Levels \cup Tiers
    /\ Absent \notin Tiers \cup {None}
    /\ TierKeys \subseteq Tiers \cup {None, Absent}
    /\ CliModel \in Models \cup {None}
    /\ CliEffort \in Levels \cup {None}
    /\ CliTier \in Tiers \cup {None}
    /\ TierPinned \in BOOLEAN
    /\ {ModelPinned, EffortPinned} \subseteq BOOLEAN
    /\ CliModel # None => ModelPinned
    /\ CliEffort # None => EffortPinned
    /\ CliTier # None => TierPinned
    /\ AllowDowngrade \in BOOLEAN
    /\ PriorCounts \subseteq Counts
    /\ MaxDecisions \in Nat

VARIABLES
    threads,     \* AgentRouter.threads: the pin of every thread
    pending,     \* AgentRouter.pending: routed first turns awaiting an answer
    resumes,     \* AgentRouter.pending_resumes
    sent,        \* forwarded requests whose answer is not relayed yet
    decisions,   \* decision records appended by this session
    feedback,    \* feedback records appended by this session
    prior,       \* feedback counts of earlier sessions, fixed
    calibration  \* this repository's offset in calibration.json

vars == <<threads, pending, resumes, sent, decisions, feedback, prior, calibration>>

OptModel == Models \cup {None}
OptLevel == Levels \cup {None}
OptTier  == Tiers \cup {None}

\* What a text says about the last answer: nothing, or one of the two phrase
\* lists of implicit_feedback.
Remarks == {None, "underpowered", "overkill"}

DeferredRoute == [model : OptModel, effort : OptLevel]
Preset == [model : Models, effort : Levels, tier : OptTier]

\* ThreadState.  The family is a function of the model, and the native effort
\* name a function of the level, wherever the code sets them.
ThreadState ==
    [init : BOOLEAN, model : OptModel, effort : OptLevel, tier : OptTier,
     decision : Nat, next : DeferredRoute \cup {None}, recorded : BOOLEAN,
     source : RouteSources]

Pending == [thread : Threads, preset : Preset, source : RouteSources]

Request ==
    [kind : {"turn", "resume"}, thread : Threads, model : OptModel,
     effort : OptLevel, tier : Tiers \cup {None, Absent}]

\* A request is a record of the program; None stands for there being none.
ASSUME NoneIsNoRequest == None \notin Request

Decision == [thread : Threads, mode : DecisionModes, source : RouteSources,
             accepted : BOOLEAN]
Feedback == [decision : Nat, kind : FeedbackKinds]

FreshThread ==
    [init |-> FALSE, model |-> None, effort |-> None, tier |-> None,
     decision |-> 0, next |-> None, recorded |-> FALSE, source |-> "local"]

TypeOK ==
    /\ threads \in [Threads -> ThreadState]
    /\ pending \in [Ids \cup ServerIds -> Pending \cup {None}]
    /\ resumes \in [Ids \cup ServerIds -> Threads \cup {None}]
    /\ sent \in [Ids -> Request \cup {None}]
    /\ decisions \in Seq(Decision)
    /\ feedback \in Seq(Feedback)
    /\ prior \in Counts
    /\ calibration \in Offsets

Init ==
    /\ threads = [t \in Threads |-> FreshThread]
    /\ pending = [k \in Ids \cup ServerIds |-> None]
    /\ resumes = [k \in Ids \cup ServerIds |-> None]
    /\ sent = [i \in Ids |-> None]
    /\ decisions = <<>>
    /\ feedback = <<>>
    /\ prior \in PriorCounts
    /\ calibration = Recommendation(prior)

-----------------------------------------------------------------------------
(* Helpers of the handlers *)

\* feedback_for_route_change: only an unambiguous move in one direction counts.
FeedbackForRouteChange(s, model, effort) ==
    LET modelMoves(up) ==
            /\ s.model # None /\ model # None
            /\ IF up THEN Rank[model] > Rank[s.model] ELSE Rank[model] < Rank[s.model]
        effortMoves(up) ==
            /\ s.effort # None /\ effort # None
            /\ IF up THEN effort > s.effort ELSE effort < s.effort
        raised  == modelMoves(TRUE) \/ effortMoves(TRUE)
        lowered == modelMoves(FALSE) \/ effortMoves(FALSE)
    IN IF raised /\ ~lowered THEN "underpowered"
       ELSE IF lowered /\ ~raised THEN "overkill"
       ELSE None

OrElse(a, b) == IF a # None THEN a ELSE b

\* record_feedback applied to thread t, whose new state is s.  The append may
\* fail (then nothing is recorded and a later turn may try again); once it
\* succeeded the decision is closed even if the calibration update fails.
RecordFeedback(t, s, kind) ==
    IF kind = None \/ s.recorded \/ s.decision = 0
    THEN /\ threads' = [threads EXCEPT ![t] = s]
         /\ UNCHANGED <<feedback, calibration>>
    ELSE \/ /\ threads' = [threads EXCEPT ![t] = s]
            /\ UNCHANGED <<feedback, calibration>>
         \/ /\ threads' = [threads EXCEPT ![t] = [s EXCEPT !.recorded = TRUE]]
            /\ feedback' = Append(feedback, [decision |-> s.decision, kind |-> kind])
            /\ calibration' \in {calibration,
                   SavedOffset(calibration,
                       Recommendation(AddCounts(prior, CountFeedback(decisions, feedback'))))}

\* The route a request carries once it is forwarded.
Route(model, effort, tier) == [model |-> model, effort |-> effort, tier |-> tier]

\* rewrite_turn_params: model and effort are replaced, in collaborationMode too,
\* while a missing tier leaves the request's own key alone.
\* (Fault: the effort is dropped.)
RewriteTurnParamsWithoutEffort(model, effort, tier, requestedTier) ==
    Route(model, None, IF tier # None THEN tier ELSE requestedTier)
RewriteTurnParams(model, effort, tier, requestedTier) ==
    Route(model, effort, IF tier # None THEN tier ELSE requestedTier)

Forward(i, kind, t, route) ==
    sent' = [sent EXCEPT ![i] = [kind |-> kind, thread |-> t, model |-> route.model,
                                 effort |-> route.effort, tier |-> route.tier]]

\* serviceTier read as an optional string.
\* (Fault: a missing key is stored as it is.)
TierValueRaw(key) == key
TierValue(key) == IF key = Absent THEN None ELSE key

\* client_message: a thread without a pin is still to be routed.
NeedsRoute(t) == ~threads[t].init

-----------------------------------------------------------------------------
(* Client messages *)

\* client_message, method thread/resume.
ClientResume(i, t) ==
    /\ sent[i] = None
    /\ resumes' = [resumes EXCEPT ![i] = t]
    /\ Forward(i, "resume", t, Route(None, None, Absent))
    /\ UNCHANGED <<threads, pending, decisions, feedback, prior, calibration>>

\* The part of an explicit route that the command line leaves to the session.
\* (Fault: the command line is not consulted.)
UnpinnedModelIgnoringCli(model) == model
UnpinnedModel(model) == IF ModelPinned THEN None ELSE model
UnpinnedEffort(effort) == IF EffortPinned THEN None ELSE effort

\* The pin after an explicit change, and the kind of feedback the change is.
ExplicitPin(s, model, effort, tier) ==
    [s EXCEPT !.model = OrElse(model, @), !.effort = OrElse(effort, @),
              !.tier = IF tier = Absent THEN @ ELSE tier, !.source = "explicit"]
SettingsFeedback(s, model, effort) ==
    IF s.source # "native" /\ s.init /\ s.decision # 0 /\ ~s.recorded
    THEN FeedbackForRouteChange(s, model, effort) ELSE None

\* note_explicit_route: thread/settings/update with a model and/or an effort.
\* A thread without a pin keeps the choice for its first turn.  When everything
\* the update names is pinned on the command line only a warning is sent.
ClientSettings(t, model, effort, tier) ==
    LET m == UnpinnedModel(model)
        e == UnpinnedEffort(effort)
        s == threads[t]
    IN /\ m # None \/ e # None
       /\ RecordFeedback(t,
              IF s.init THEN ExplicitPin(s, m, e, tier)
                        ELSE [s EXCEPT !.next = [model |-> m, effort |-> e]],
              SettingsFeedback(s, m, e))
       /\ UNCHANGED <<pending, resumes, sent, decisions, prior>>

\* What a follow-up turn changes in the pin: only a setting that the command
\* line leaves open, that the request carries and that differs from the pin.
ChangedModel(s, model) ==
    IF s.model # None /\ model # s.model THEN UnpinnedModel(model) ELSE None
ChangedEffort(s, effort) ==
    IF s.effort # None /\ effort # s.effort THEN UnpinnedEffort(effort) ELSE None
KeptPin(s, model, effort, tier) ==
    [s EXCEPT !.model = OrElse(ChangedModel(s, model), @),
              !.effort = OrElse(ChangedEffort(s, effort), @),
              !.tier = IF TierPinned \/ tier = Absent THEN @ ELSE tier]
FollowUpFeedback(s, remark, model, effort) ==
    IF s.source = "native" THEN None
    ELSE OrElse(FeedbackForRouteChange(s, ChangedModel(s, model), ChangedEffort(s, effort)), remark)

\* keep_session_route: a turn on a thread that already has a pin.
ClientFollowUp(i, t, remark, model, effort, tier) ==
    LET pin == KeptPin(threads[t], model, effort, tier) IN
    /\ ~NeedsRoute(t)
    /\ sent[i] = None
    /\ RecordFeedback(t, pin, FollowUpFeedback(threads[t], remark, model, effort))
    /\ Forward(i, "turn", t, IF pin.model # None
                             THEN RewriteTurnParams(pin.model, pin.effort, pin.tier, tier)
                             ELSE Route(model, effort, tier))
    /\ UNCHANGED <<pending, resumes, decisions, prior>>

\* pin_unclassified_session: the first input has no text, nothing is routed.
UnclassifiedPin(s, model, effort, tier) ==
    [s EXCEPT !.init = TRUE, !.source = "native", !.model = OrElse(model, @),
              !.effort = OrElse(effort, @), !.tier = TierValue(tier)]
ClientUnclassified(i, t, model, effort, tier) ==
    /\ NeedsRoute(t)
    /\ sent[i] = None
    /\ threads' = [threads EXCEPT ![t] = UnclassifiedPin(@, model, effort, tier)]
    /\ Forward(i, "turn", t, Route(model, effort, tier))
    /\ UNCHANGED <<pending, resumes, decisions, feedback, prior, calibration>>

\* What resolve_prepared may return for the explicit choices in force: an exact
\* model is kept, an exact effort is kept or (with the flag) lowered, and the
\* tier is the one the flags select or none (an unlisted model has no tiers).  A
\* family does not settle the model: a candidate for Ultra is Sol whatever it says.
Presets(model, effort) ==
    {p \in Preset :
        /\ model # None => p.model = model
        /\ effort # None => p.effort = effort \/ (AllowDowngrade /\ p.effort < effort)
        /\ p.tier \in {CliTier, None}}

\* The bound MaxDecisions: no more first turns are routed than may be logged.
MayRoute ==
    Len(decisions) + Cardinality({k \in DOMAIN pending : pending[k] # None}) < MaxDecisions

\* route_initial_turn: the deferred explicit route is taken before anything can
\* fail.  The route is preserved when the evidence is not decisive (keepNative;
\* an explicit choice is always decisive) or the turn runs in another directory
\* (cwdChanged), provided the request names a model; otherwise the request is
\* rewritten to a preset.  Nothing is pinned until App Server answers.  A native
\* route without an effort is noted with the level the catalog suggests.
NativePreset(model, effort, tier) ==
    {[model |-> model, effort |-> level, tier |-> TierValue(tier)] :
        level \in IF effort # None THEN {effort} ELSE Levels}

ClientFirstTurn(i, t, model, effort, tier, keepNative, cwdChanged) ==
    LET next == threads[t].next
        m == OrElse(CliModel, IF next = None THEN None ELSE next.model)
        e == OrElse(CliEffort, IF next = None THEN None ELSE next.effort)
        isExplicit == ModelPinned \/ EffortPinned \/ m # None \/ e # None
        track(preset, source) ==
            pending' = [pending EXCEPT ![i] =
                           [thread |-> t, preset |-> preset, source |-> source]]
    IN /\ NeedsRoute(t)
       /\ sent[i] = None
       /\ MayRoute
       /\ isExplicit => ~keepNative
       /\ threads' = [threads EXCEPT ![t].next = None]
       /\ IF (keepNative \/ cwdChanged) /\ model # None
          THEN \E preset \in NativePreset(model, effort, tier) :
                 /\ track(preset, "native")
                 /\ Forward(i, "turn", t, Route(model, effort, tier))
          ELSE \E preset \in Presets(m, e) :
                 /\ track(preset, IF isExplicit THEN "explicit" ELSE "local")
                 /\ Forward(i, "turn", t,
                        RewriteTurnParams(preset.model, preset.effort, preset.tier, tier))
       /\ UNCHANGED <<resumes, decisions, feedback, prior, calibration>>

\* client_message when route_initial_turn fails: the request is forwarded as it
\* came, with a warning, and the thread stays unrouted.
ClientFirstTurnFails(i, t, model, effort, tier) ==
    /\ NeedsRoute(t)
    /\ sent[i] = None
    /\ threads' = [threads EXCEPT ![t].next = None]
    /\ Forward(i, "turn", t, Route(model, effort, tier))
    /\ UNCHANGED <<pending, resumes, decisions, feedback, prior, calibration>>

-----------------------------------------------------------------------------
(* App Server and the messages it sends *)

\* note_resume_response with a result: the stored route becomes the pin; what
\* is known about the thread's decision stays.
\* (Fault: the decision is opened for feedback again.)
ResumePinReopened(s, model, effort, tier) ==
    [s EXCEPT !.init = TRUE, !.source = "native", !.model = OrElse(model, @),
              !.effort = OrElse(effort, @), !.tier = tier, !.recorded = FALSE]
ResumePin(s, model, effort, tier) ==
    [s EXCEPT !.init = TRUE, !.source = "native", !.model = OrElse(model, @),
              !.effort = OrElse(effort, @), !.tier = tier]

\* The pin commit_turn sets, decision being 0 when nothing was logged.
CommittedPin(s, p, decision) ==
    [s EXCEPT !.init = TRUE, !.model = p.preset.model, !.effort = p.preset.effort,
              !.tier = p.preset.tier, !.decision = decision, !.recorded = FALSE,
              !.source = p.source]

\* The number under which the next decision record can be found.
\* (Fault: the record before it.)
NextDecisionStale == Len(decisions)
NextDecision == Len(decisions) + 1

\* commit_turn without an error.  write_decision may append a record or fail.
\* The record's `accepted' is not in the code: it notes whether the message that
\* caused it really was App Server's acceptance of the turn.
LogTurn(k, accepted) ==
    LET p == pending[k]
        logged == [thread |-> p.thread, mode |-> "agent", source |-> p.source,
                   accepted |-> accepted]
    IN \/ /\ decisions' = Append(decisions, logged)
          /\ threads' = [threads EXCEPT ![p.thread] = CommittedPin(@, p, NextDecision)]
       \/ /\ threads' = [threads EXCEPT ![p.thread] = CommittedPin(@, p, 0)]
          /\ UNCHANGED decisions

\* commit_turn: the entry is removed first, a rejected turn changes nothing else.
\* (Faults: the error is not looked at; the entry survives a rejection.)
CommitAnyAnswer(k, isAnswer, isError) ==
    /\ pending' = [pending EXCEPT ![k] = None]
    /\ LogTurn(k, isAnswer /\ ~isError)
CommitKeepingEntry(k, isAnswer, isError) ==
    IF isError THEN UNCHANGED <<pending, threads, decisions>>
    ELSE /\ pending' = [pending EXCEPT ![k] = None]
         /\ LogTurn(k, isAnswer)
CommitTurn(k, isAnswer, isError) ==
    /\ pending' = [pending EXCEPT ![k] = None]
    /\ IF isError THEN UNCHANGED <<threads, decisions>>
       ELSE LogTurn(k, isAnswer)

\* server_message: any message whose id is a key of the two maps is taken for
\* the answer.  isError and result say what the message carries, isAnswer whether
\* it answers request k (which the code does not ask).
ServerMessage(k, isAnswer, isError, result) ==
    \/ /\ resumes[k] # None
       /\ resumes' = [resumes EXCEPT ![k] = None]
       /\ threads' = IF isError \/ result = None THEN threads
                     ELSE [threads EXCEPT ![resumes[k]] =
                             ResumePin(@, result.model, result.effort, result.tier)]
       /\ UNCHANGED <<pending, decisions>>
    \/ /\ resumes[k] = None
       /\ pending[k] # None
       /\ CommitTurn(k, isAnswer, isError)
       /\ UNCHANGED resumes
    \/ /\ resumes[k] = None
       /\ pending[k] = None
       /\ UNCHANGED <<threads, pending, resumes, decisions>>

ResumeResult == [model : OptModel, effort : OptLevel, tier : OptTier]

\* App Server accepts or rejects request i; the relay passes the answer on and
\* lets the router see it.  Answers need not come in the order of the requests.
RelayAnswer(i, isError, result) ==
    /\ sent[i] # None
    /\ sent[i].kind = "turn" \/ isError => result = None
    /\ ServerMessage(i, TRUE, isError, result)
    /\ sent' = [sent EXCEPT ![i] = None]
    /\ UNCHANGED <<feedback, prior, calibration>>

\* The relay passes on a request that App Server initiates (an approval, say):
\* it has an id and params, but neither a result nor an error.
RelayServerRequest(k) ==
    /\ ServerMessage(k, FALSE, FALSE, None)
    /\ UNCHANGED <<sent, feedback, prior, calibration>>

-----------------------------------------------------------------------------
TurnStart(i, t) ==
    \E model \in OptModel, effort \in OptLevel, tier \in TierKeys :
        \/ \E remark \in Remarks : ClientFollowUp(i, t, remark, model, effort, tier)
        \/ ClientUnclassified(i, t, model, effort, tier)
        \/ \E keepNative, cwdChanged \in BOOLEAN :
              ClientFirstTurn(i, t, model, effort, tier, keepNative, cwdChanged)
        \/ ClientFirstTurnFails(i, t, model, effort, tier)

Next ==
    \/ \E i \in Ids, t \in Threads : ClientResume(i, t) \/ TurnStart(i, t)
    \/ \E t \in Threads, model \in OptModel, effort \in OptLevel, tier \in TierKeys :
          ClientSettings(t, model, effort, tier)
    \/ \E i \in Ids, isError \in BOOLEAN, result \in ResumeResult \cup {None} :
          RelayAnswer(i, isError, result)
    \/ \E k \in ServerIds : RelayServerRequest(k)

Spec == Init /\ [][Next]_vars

-----------------------------------------------------------------------------
(* Properties *)

\* A key is in a pending map only while the request it was made for is in
\* flight, for the thread that request names, and never in both maps: an entry
\* that outlived its request would turn the answer to a later request with the
\* same id into a routing decision.
TrackedOnlyInFlight ==
    \A i \in Ids :
        /\ pending[i] # None =>
              /\ resumes[i] = None
              /\ sent[i] # None
              /\ sent[i].kind = "turn"
              /\ sent[i].thread = pending[i].thread
        /\ resumes[i] # None =>
              /\ sent[i] # None
              /\ sent[i].kind = "resume"
              /\ sent[i].thread = resumes[i]

\* A routed turn that awaits its answer is tracked by the request it was sent with,
\* and what App Server is executing for it is what will be pinned and logged: the
\* model always, the effort whenever the request carries one.
LoggedRouteIsSentRoute ==
    /\ TrackedOnlyInFlight
    /\ \A i \in Ids : pending[i] # None =>
        /\ sent[i].model = pending[i].preset.model
        /\ sent[i].effort \in {None, pending[i].preset.effort}
        /\ sent[i].effort = None => pending[i].source = "native"

\* Only accepted turns are logged as decisions (ARCHITECTURE.md: "routed and
\* logged, after App Server accepts it").
DecisionsWereAccepted == \A d \in DOMAIN decisions : decisions[d].accepted

\* Each decision receives at most one automatic feedback event, whatever mix of
\* settings updates, corrections, resumes and repeated first turns produced it.
FeedbackOncePerDecision ==
    \A f, g \in DOMAIN feedback : feedback[f].decision = feedback[g].decision => f = g

\* The decision a pin points to is a logged one of the same thread, and a pin
\* that counts as cauto's own points to a decision cauto made itself: feedback
\* is never credited to another thread's route.
PinNamesOwnDecision ==
    \A t \in Threads : threads[t].decision # 0 =>
        /\ threads[t].decision \in DOMAIN decisions
        /\ decisions[threads[t].decision].thread = t
        /\ threads[t].source = "local" =>
              decisions[threads[t].decision].source = "local"

\* The offset in the store was earned: it is the one earlier sessions left, or
\* some prefix of this session's events, counting only those about routes cauto
\* chose itself, reaches three outcomes with a 70% majority in that direction.
CalibrationEarned ==
    LET events(n, kind) ==
            prior[kind] + Cardinality({f \in 1..n :
                feedback[f].kind = kind /\ decisions[feedback[f].decision].source # "native"})
        total(n) == events(n, "right") + events(n, "overkill") + events(n, "underpowered")
        earned(kind) == \E n \in 0..Len(feedback) :
            total(n) >= 3 /\ 10 * events(n, kind) >= 7 * total(n)
    IN /\ calibration > 0 => earned("underpowered")
       /\ calibration < 0 => earned("overkill")

\* What keeps feedback apart, in inductive form: every event is about a logged
\* decision, and a pin whose decision has an event is closed.
FeedbackCloses ==
    /\ \A f \in DOMAIN feedback : feedback[f].decision \in DOMAIN decisions
    /\ \A f \in DOMAIN feedback, t \in Threads :
          threads[t].decision = feedback[f].decision => threads[t].recorded
FeedbackInv == TypeOK /\ PinNamesOwnDecision /\ FeedbackCloses /\ FeedbackOncePerDecision

\* No request of App Server's own is ever tracked.
OnlyClientIdsTracked ==
    \A k \in ServerIds \ Ids : pending[k] = None /\ resumes[k] = None
AcceptedInv == TypeOK /\ TrackedOnlyInFlight /\ OnlyClientIdsTracked /\ DecisionsWereAccepted

\* An answer was relayed, or App Server sent a request, in this step.
ServerSpoke ==
    \/ \E i \in Ids : sent[i] # None /\ sent'[i] = None
    \/ UNCHANGED sent /\ (pending' # pending \/ resumes' # resumes)

\* What is fixed on the command line, be it an exact model, a family or an effort that
\* is no level of cauto's, no client message moves in an existing pin: neither model
\* nor effort at all, the service tier not by a turn.  Only App Server's answers may.
CommandLinePinIgnoresClient ==
    [][\A t \in Threads : threads[t].init /\ ~ServerSpoke =>
          /\ ModelPinned => threads'[t].model = threads[t].model
          /\ EffortPinned => threads'[t].effort = threads[t].effort
          /\ TierPinned /\ sent' # sent => threads'[t].tier = threads[t].tier]_vars

\* A turn on a thread whose pin names a model reaches App Server with exactly
\* the pinned model and effort, whatever the client put into the request.
FollowUpsCarryPin ==
    [][\A i \in Ids :
          (sent[i] = None /\ sent'[i] # None) =>
            LET r == sent'[i] IN
            (r.kind = "turn" /\ threads[r.thread].init /\ threads'[r.thread].model # None) =>
               /\ r.model = threads'[r.thread].model
               /\ r.effort = threads'[r.thread].effort]_vars

\* README.md: "An explicit native model/effort change intentionally replaces the
\* current thread's pin": where cauto's own choice is the pin, the user has not
\* explicitly asked for another route since the turn that was routed.
ExplicitChangeReplacesPin ==
    \A t \in Threads :
        (threads[t].init /\ threads[t].source = "local" /\ threads[t].next # None) =>
            /\ threads[t].next.model \in {None, threads[t].model}
            /\ threads[t].next.effort \in {None, threads[t].effort}

\* agent.rs warns that it "kept the command-line route pin" whenever a client
\* tries to change a pinned model: then the pinned model is the command line's.
CommandLinePinIsKept ==
    \A t \in Threads : CliModel # None /\ threads[t].init => threads[t].model = CliModel
=============================================================================
