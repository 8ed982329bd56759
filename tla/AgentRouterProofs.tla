-------------------------- MODULE AgentRouterProofs --------------------------
(***************************************************************************)
(* Safety of AgentRouter for every set of threads, ids, models, levels and *)
(* tiers and every command line: the types, then that feedback is given at *)
(* most once per decision and to the thread's own decision, and that only  *)
(* accepted turns are logged.                                              *)
(***************************************************************************)
EXTENDS AgentRouter, TLAPS

USE DEF OptModel, OptLevel, OptTier

-----------------------------------------------------------------------------
(* What the handlers' helpers return *)

LEMMA RouteChangeKind ==
    ASSUME NEW s, NEW model, NEW effort
    PROVE  FeedbackForRouteChange(s, model, effort) \in FeedbackKinds \cup {None}
  BY DEF FeedbackForRouteChange, FeedbackKinds

LEMMA OffsetsClosed ==
    ASSUME NEW counts, NEW offset \in Offsets
    PROVE  /\ Recommendation(counts) \in Offsets
           /\ SavedOffset(offset, Recommendation(counts)) \in Offsets
  BY DEF Recommendation, SavedOffset, Offsets, RecommendedOffset

\* record_feedback keeps the types of the three variables it may change.
LEMMA RecordFeedbackType ==
    ASSUME TypeOK, NEW t \in Threads, NEW s \in ThreadState,
           NEW kind \in FeedbackKinds \cup {None}, RecordFeedback(t, s, kind)
    PROVE  /\ threads' \in [Threads -> ThreadState]
           /\ feedback' \in Seq(Feedback)
           /\ calibration' \in Offsets
  <1>1. [s EXCEPT !.recorded = TRUE] \in ThreadState
    BY DEF ThreadState
  <1>2. kind # None => [decision |-> s.decision, kind |-> kind] \in Feedback
    BY DEF ThreadState, Feedback
  <1>3. \A c : SavedOffset(calibration, Recommendation(c)) \in Offsets
    BY OffsetsClosed DEF TypeOK
  <1>4. CASE kind = None \/ s.recorded \/ s.decision = 0
    BY <1>4 DEF RecordFeedback, TypeOK
  <1>5. CASE ~(kind = None \/ s.recorded \/ s.decision = 0)
    <2>1. CASE threads' = [threads EXCEPT ![t] = s] /\ UNCHANGED <<feedback, calibration>>
      BY <2>1 DEF TypeOK
    <2>2. CASE ~(threads' = [threads EXCEPT ![t] = s] /\ UNCHANGED <<feedback, calibration>>)
      <3>1. /\ threads' = [threads EXCEPT ![t] = [s EXCEPT !.recorded = TRUE]]
            /\ feedback' = Append(feedback, [decision |-> s.decision, kind |-> kind])
            /\ calibration' \in {calibration,
                   SavedOffset(calibration,
                       Recommendation(AddCounts(prior, CountFeedback(decisions, feedback'))))}
        BY <1>5, <2>2 DEF RecordFeedback
      <3>2. feedback' \in Seq(Feedback)
        BY <1>2, <1>5, <3>1 DEF TypeOK
      <3>3. calibration' \in Offsets
        BY <1>3, <3>1 DEF TypeOK
      <3>4. threads' \in [Threads -> ThreadState]
        BY <1>1, <3>1 DEF TypeOK
      <3>. QED BY <3>2, <3>3, <3>4
    <2>. QED BY <2>1, <2>2
  <1>. QED BY <1>4, <1>5

-----------------------------------------------------------------------------
(* Type correctness *)

\* The request map stays typed when a well-typed route is forwarded.
LEMMA ForwardType ==
    ASSUME TypeOK, NEW i \in Ids, NEW t \in Threads, NEW kind \in {"turn", "resume"},
           NEW model \in OptModel, NEW effort \in OptLevel,
           NEW tier \in Tiers \cup {None, Absent},
           Forward(i, kind, t, Route(model, effort, tier))
    PROVE  sent' \in [Ids -> Request \cup {None}]
  BY DEF Forward, Route, Request, TypeOK

LEMMA ForwardRewrittenType ==
    ASSUME TypeOK, NEW i \in Ids, NEW t \in Threads,
           NEW model \in OptModel, NEW effort \in OptLevel, NEW tier \in OptTier,
           NEW requested \in Tiers \cup {None, Absent},
           Forward(i, "turn", t, RewriteTurnParams(model, effort, tier, requested))
    PROVE  sent' \in [Ids -> Request \cup {None}]
  <1>1. PICK sentTier \in Tiers \cup {None, Absent} :
           RewriteTurnParams(model, effort, tier, requested) = Route(model, effort, sentTier)
    BY DEF RewriteTurnParams
  <1>. QED BY <1>1, ForwardType

\* Every handler of a client message is typed.
LEMMA ClientResumeType ==
    ASSUME TypeOK, NEW i \in Ids, NEW t \in Threads, ClientResume(i, t)
    PROVE  TypeOK'
  <1>1. sent' \in [Ids -> Request \cup {None}]
    BY ForwardType DEF ClientResume
  <1>2. resumes' \in [Ids \cup ServerIds -> Threads \cup {None}]
    BY DEF ClientResume, TypeOK
  <1>. QED BY <1>1, <1>2 DEF ClientResume, TypeOK

\* What the handlers compute stays inside the types they are stored in.
LEMMA UnpinnedTypes ==
    ASSUME NEW model \in OptModel, NEW effort \in OptLevel
    PROVE  UnpinnedModel(model) \in OptModel /\ UnpinnedEffort(effort) \in OptLevel
  BY DEF UnpinnedModel, UnpinnedEffort

LEMMA ChangedTypes ==
    ASSUME NEW s \in ThreadState, NEW model \in OptModel, NEW effort \in OptLevel
    PROVE  ChangedModel(s, model) \in OptModel /\ ChangedEffort(s, effort) \in OptLevel
  BY UnpinnedTypes DEF ChangedModel, ChangedEffort

LEMMA ExplicitPinType ==
    ASSUME ConstantsOK, NEW s \in ThreadState, NEW model \in OptModel,
           NEW effort \in OptLevel, NEW tier \in TierKeys
    PROVE  ExplicitPin(s, model, effort, tier) \in ThreadState
  <1>1. OrElse(model, s.model) \in OptModel /\ OrElse(effort, s.effort) \in OptLevel
    BY DEF OrElse, ThreadState
  <1>2. (IF tier = Absent THEN s.tier ELSE tier) \in OptTier
    BY DEF ThreadState, ConstantsOK
  <1>. QED BY <1>1, <1>2 DEF ExplicitPin, ThreadState, RouteSources

LEMMA KeptPinType ==
    ASSUME ConstantsOK, NEW s \in ThreadState, NEW model \in OptModel,
           NEW effort \in OptLevel, NEW tier \in TierKeys
    PROVE  KeptPin(s, model, effort, tier) \in ThreadState
  <1>1. /\ OrElse(ChangedModel(s, model), s.model) \in OptModel
        /\ OrElse(ChangedEffort(s, effort), s.effort) \in OptLevel
    BY ChangedTypes DEF OrElse, ThreadState
  <1>2. (IF TierPinned \/ tier = Absent THEN s.tier ELSE tier) \in OptTier
    BY DEF ThreadState, ConstantsOK
  <1>. QED BY <1>1, <1>2 DEF KeptPin, ThreadState

LEMMA UnclassifiedPinType ==
    ASSUME ConstantsOK, NEW s \in ThreadState, NEW model \in OptModel,
           NEW effort \in OptLevel, NEW tier \in TierKeys
    PROVE  UnclassifiedPin(s, model, effort, tier) \in ThreadState
  <1>1. OrElse(model, s.model) \in OptModel /\ OrElse(effort, s.effort) \in OptLevel
    BY DEF OrElse, ThreadState
  <1>2. TierValue(tier) \in OptTier
    BY DEF TierValue, ConstantsOK
  <1>. QED BY <1>1, <1>2 DEF UnclassifiedPin, ThreadState, RouteSources

LEMMA ResumePinType ==
    ASSUME NEW s \in ThreadState, NEW model \in OptModel,
           NEW effort \in OptLevel, NEW tier \in OptTier
    PROVE  ResumePin(s, model, effort, tier) \in ThreadState
  <1>1. OrElse(model, s.model) \in OptModel /\ OrElse(effort, s.effort) \in OptLevel
    BY DEF OrElse, ThreadState
  <1>. QED BY <1>1 DEF ResumePin, ThreadState, RouteSources

LEMMA CommittedPinType ==
    ASSUME NEW s \in ThreadState, NEW p \in Pending, NEW decision \in Nat
    PROVE  CommittedPin(s, p, decision) \in ThreadState
  BY DEF CommittedPin, ThreadState, Pending, Preset

LEMMA FeedbackTypes ==
    ASSUME NEW s, NEW remark \in Remarks, NEW model, NEW effort
    PROVE  /\ SettingsFeedback(s, model, effort) \in FeedbackKinds \cup {None}
           /\ FollowUpFeedback(s, remark, model, effort) \in FeedbackKinds \cup {None}
  <1>1. SettingsFeedback(s, model, effort) \in FeedbackKinds \cup {None}
    BY RouteChangeKind DEF SettingsFeedback
  <1>2. FeedbackForRouteChange(s, ChangedModel(s, model), ChangedEffort(s, effort))
            \in FeedbackKinds \cup {None}
    BY RouteChangeKind
  <1>3. FollowUpFeedback(s, remark, model, effort) \in FeedbackKinds \cup {None}
    BY <1>2 DEF FollowUpFeedback, OrElse, Remarks, FeedbackKinds
  <1>. QED BY <1>1, <1>3

LEMMA ClientSettingsType ==
    ASSUME TypeOK, ConstantsOK, NEW t \in Threads, NEW model \in OptModel,
           NEW effort \in OptLevel, NEW tier \in TierKeys, ClientSettings(t, model, effort, tier)
    PROVE  TypeOK'
  <1> DEFINE m == UnpinnedModel(model)
             e == UnpinnedEffort(effort)
             s == threads[t]
             new == IF s.init THEN ExplicitPin(s, m, e, tier)
                              ELSE [s EXCEPT !.next = [model |-> m, effort |-> e]]
  <1>1. m \in OptModel /\ e \in OptLevel
    BY UnpinnedTypes
  <1>2. s \in ThreadState
    BY DEF TypeOK
  <1>3. ExplicitPin(s, m, e, tier) \in ThreadState
    BY <1>1, <1>2, ExplicitPinType
  <1>4. [s EXCEPT !.next = [model |-> m, effort |-> e]] \in ThreadState
    BY <1>1, <1>2 DEF ThreadState, DeferredRoute
  <1>5. new \in ThreadState
    BY <1>3, <1>4
  <1>6. SettingsFeedback(s, m, e) \in FeedbackKinds \cup {None}
    BY FeedbackTypes DEF Remarks
  <1>7. RecordFeedback(t, new, SettingsFeedback(s, m, e))
    BY DEF ClientSettings
  <1> HIDE DEF new
  <1>8. /\ threads' \in [Threads -> ThreadState]
        /\ feedback' \in Seq(Feedback)
        /\ calibration' \in Offsets
    BY <1>5, <1>6, <1>7, RecordFeedbackType
  <1>. QED BY <1>8 DEF ClientSettings, TypeOK

LEMMA ClientFollowUpType ==
    ASSUME TypeOK, ConstantsOK, NEW i \in Ids, NEW t \in Threads, NEW remark \in Remarks,
           NEW model \in OptModel, NEW effort \in OptLevel, NEW tier \in TierKeys,
           ClientFollowUp(i, t, remark, model, effort, tier)
    PROVE  TypeOK'
  <1> DEFINE s == threads[t]
             pin == KeptPin(s, model, effort, tier)
             kind == FollowUpFeedback(s, remark, model, effort)
  <1>1. s \in ThreadState
    BY DEF TypeOK
  <1>2. pin \in ThreadState
    BY <1>1, KeptPinType
  <1>3. kind \in FeedbackKinds \cup {None}
    BY FeedbackTypes
  <1>4. RecordFeedback(t, pin, kind)
    BY DEF ClientFollowUp
  <1>5. tier \in Tiers \cup {None, Absent}
    BY DEF ConstantsOK
  <1>6. \/ Forward(i, "turn", t, RewriteTurnParams(pin.model, pin.effort, pin.tier, tier))
        \/ Forward(i, "turn", t, Route(model, effort, tier))
    BY DEF ClientFollowUp
  <1> HIDE DEF pin, kind
  <1>7. pin.model \in OptModel /\ pin.effort \in OptLevel /\ pin.tier \in OptTier
    BY <1>2 DEF ThreadState
  <1>8. sent' \in [Ids -> Request \cup {None}]
    <2>1. CASE Forward(i, "turn", t, Route(model, effort, tier))
      BY <1>5, <2>1, ForwardType
    <2>2. CASE Forward(i, "turn", t, RewriteTurnParams(pin.model, pin.effort, pin.tier, tier))
      <3>1. PICK pm \in OptModel, pe \in OptLevel, pt \in OptTier :
               Forward(i, "turn", t, RewriteTurnParams(pm, pe, pt, tier))
        BY <1>7, <2>2
      <3>. QED BY <1>5, <3>1, ForwardRewrittenType
    <2>. QED BY <1>6, <2>1, <2>2
  <1>9. /\ threads' \in [Threads -> ThreadState]
        /\ feedback' \in Seq(Feedback)
        /\ calibration' \in Offsets
    BY <1>2, <1>3, <1>4, RecordFeedbackType
  <1>. QED BY <1>8, <1>9 DEF ClientFollowUp, TypeOK

LEMMA ClientUnclassifiedType ==
    ASSUME TypeOK, ConstantsOK, NEW i \in Ids, NEW t \in Threads, NEW model \in OptModel,
           NEW effort \in OptLevel, NEW tier \in TierKeys,
           ClientUnclassified(i, t, model, effort, tier)
    PROVE  TypeOK'
  <1>1. UnclassifiedPin(threads[t], model, effort, tier) \in ThreadState
    BY UnclassifiedPinType DEF TypeOK
  <1>2. threads' \in [Threads -> ThreadState]
    BY <1>1 DEF ClientUnclassified, TypeOK
  <1>3. tier \in Tiers \cup {None, Absent}
    BY DEF ConstantsOK
  <1>4. sent' \in [Ids -> Request \cup {None}]
    BY <1>3, ForwardType DEF ClientUnclassified
  <1>. QED BY <1>2, <1>4 DEF ClientUnclassified, TypeOK

LEMMA NextTakenType ==
    ASSUME TypeOK, NEW t \in Threads
    PROVE  [threads EXCEPT ![t].next = None] \in [Threads -> ThreadState]
  <1>1. [threads[t] EXCEPT !.next = None] \in ThreadState
    BY DEF TypeOK, ThreadState
  <1>. QED BY <1>1 DEF TypeOK

LEMMA ClientFirstTurnFailsType ==
    ASSUME TypeOK, ConstantsOK, NEW i \in Ids, NEW t \in Threads, NEW model \in OptModel,
           NEW effort \in OptLevel, NEW tier \in TierKeys,
           ClientFirstTurnFails(i, t, model, effort, tier)
    PROVE  TypeOK'
  <1>1. threads' \in [Threads -> ThreadState]
    BY NextTakenType DEF ClientFirstTurnFails
  <1>2. tier \in Tiers \cup {None, Absent}
    BY DEF ConstantsOK
  <1>3. sent' \in [Ids -> Request \cup {None}]
    BY <1>2, ForwardType DEF ClientFirstTurnFails
  <1>. QED BY <1>1, <1>3 DEF ClientFirstTurnFails, TypeOK

LEMMA ClientFirstTurnType ==
    ASSUME TypeOK, ConstantsOK, NEW i \in Ids, NEW t \in Threads, NEW model \in OptModel,
           NEW effort \in OptLevel, NEW tier \in TierKeys,
           NEW keepNative \in BOOLEAN, NEW cwdChanged \in BOOLEAN,
           ClientFirstTurn(i, t, model, effort, tier, keepNative, cwdChanged)
    PROVE  TypeOK'
  <1>1. threads' \in [Threads -> ThreadState]
    BY NextTakenType DEF ClientFirstTurn
  <1>2. tier \in Tiers \cup {None, Absent}
    BY DEF ConstantsOK
  <1>3. pending' \in [Ids \cup ServerIds -> Pending \cup {None}]
         /\ sent' \in [Ids -> Request \cup {None}]
    <2>1. CASE (keepNative \/ cwdChanged) /\ model # None
      <3>1. PICK preset \in NativePreset(model, effort, tier) :
              /\ pending' = [pending EXCEPT ![i] =
                                [thread |-> t, preset |-> preset, source |-> "native"]]
              /\ Forward(i, "turn", t, Route(model, effort, tier))
        BY <2>1 DEF ClientFirstTurn
      <3>2. TierValue(tier) \in OptTier
        BY DEF TierValue, ConstantsOK
      <3>3. preset \in Preset
        BY <2>1, <3>1, <3>2 DEF NativePreset, Preset
      <3>4. [thread |-> t, preset |-> preset, source |-> "native"] \in Pending
        BY <3>3 DEF Pending, RouteSources
      <3>5. pending' \in [Ids \cup ServerIds -> Pending \cup {None}]
        BY <3>1, <3>4 DEF TypeOK
      <3>6. sent' \in [Ids -> Request \cup {None}]
        BY <1>2, <3>1, ForwardType
      <3>. QED BY <3>5, <3>6
    <2>2. CASE ~((keepNative \/ cwdChanged) /\ model # None)
      <3>1. PICK preset \in Preset, source \in RouteSources :
              /\ pending' = [pending EXCEPT ![i] =
                                [thread |-> t, preset |-> preset, source |-> source]]
              /\ Forward(i, "turn", t,
                     RewriteTurnParams(preset.model, preset.effort, preset.tier, tier))
        BY <2>2 DEF ClientFirstTurn, Presets, RouteSources
      <3>2. [thread |-> t, preset |-> preset, source |-> source] \in Pending
        BY DEF Pending
      <3>3. pending' \in [Ids \cup ServerIds -> Pending \cup {None}]
        BY <3>1, <3>2 DEF TypeOK
      <3>4. preset.model \in OptModel /\ preset.effort \in OptLevel /\ preset.tier \in OptTier
        BY DEF Preset
      <3>5. sent' \in [Ids -> Request \cup {None}]
        BY <1>2, <3>1, <3>4, ForwardRewrittenType
      <3>. QED BY <3>3, <3>5
    <2>. QED BY <2>1, <2>2
  <1>. QED BY <1>1, <1>3 DEF ClientFirstTurn, TypeOK

\* A message of App Server, whatever it is taken for, keeps the types.
LEMMA LogTurnType ==
    ASSUME TypeOK, NEW k \in Ids \cup ServerIds, pending[k] # None,
           NEW accepted \in BOOLEAN, LogTurn(k, accepted)
    PROVE  /\ threads' \in [Threads -> ThreadState]
           /\ decisions' \in Seq(Decision)
  <1> DEFINE p == pending[k]
  <1>1. p \in Pending /\ p.thread \in Threads /\ threads[p.thread] \in ThreadState
    BY DEF TypeOK, Pending
  <1>2. NextDecision \in Nat
    BY DEF NextDecision, TypeOK
  <1>3. /\ CommittedPin(threads[p.thread], p, NextDecision) \in ThreadState
        /\ CommittedPin(threads[p.thread], p, 0) \in ThreadState
    BY <1>1, <1>2, CommittedPinType
  <1> DEFINE logged == [thread |-> p.thread, mode |-> "agent", source |-> p.source,
                        accepted |-> accepted]
  <1>4. logged \in Decision
    BY <1>1 DEF Decision, Pending, DecisionModes
  <1>5. decisions' = Append(decisions, logged) \/ decisions' = decisions
    BY DEF LogTurn
  <1>6. decisions' \in Seq(Decision)
    <2>1. decisions \in Seq(Decision)
      BY DEF TypeOK
    <2> HIDE DEF logged
    <2>. QED BY <1>4, <1>5, <2>1
  <1>7. \E d \in {0, NextDecision} :
           threads' = [threads EXCEPT ![p.thread] = CommittedPin(threads[p.thread], p, d)]
    BY DEF LogTurn
  <1>8. threads' \in [Threads -> ThreadState]
    BY <1>1, <1>3, <1>7 DEF TypeOK
  <1>. QED BY <1>6, <1>8

LEMMA ServerMessageType ==
    ASSUME TypeOK, NEW k \in Ids \cup ServerIds, NEW isAnswer \in BOOLEAN,
           NEW isError \in BOOLEAN, NEW result \in ResumeResult \cup {None},
           ServerMessage(k, isAnswer, isError, result)
    PROVE  /\ threads' \in [Threads -> ThreadState]
           /\ pending' \in [Ids \cup ServerIds -> Pending \cup {None}]
           /\ resumes' \in [Ids \cup ServerIds -> Threads \cup {None}]
           /\ decisions' \in Seq(Decision)
  <1>1. CASE resumes[k] # None
    <2>1. resumes[k] \in Threads /\ threads[resumes[k]] \in ThreadState
      BY <1>1 DEF TypeOK
    <2>2. result # None =>
             ResumePin(threads[resumes[k]], result.model, result.effort, result.tier) \in ThreadState
      BY <2>1, ResumePinType DEF ResumeResult
    <2>3. threads' \in [Threads -> ThreadState]
      BY <1>1, <2>1, <2>2 DEF ServerMessage, TypeOK
    <2>4. resumes' \in [Ids \cup ServerIds -> Threads \cup {None}]
      BY <1>1 DEF ServerMessage, TypeOK
    <2>. QED BY <1>1, <2>3, <2>4 DEF ServerMessage, TypeOK
  <1>2. CASE resumes[k] = None /\ pending[k] # None
    <2>1. CommitTurn(k, isAnswer, isError) /\ UNCHANGED resumes
      BY <1>2 DEF ServerMessage
    <2>2. pending' \in [Ids \cup ServerIds -> Pending \cup {None}]
      BY <2>1 DEF CommitTurn, TypeOK
    <2>3. threads' \in [Threads -> ThreadState] /\ decisions' \in Seq(Decision)
      BY <1>2, <2>1, LogTurnType DEF CommitTurn, TypeOK
    <2>. QED BY <2>1, <2>2, <2>3 DEF TypeOK
  <1>3. CASE resumes[k] = None /\ pending[k] = None
    BY <1>3 DEF ServerMessage, TypeOK
  <1>. QED BY <1>1, <1>2, <1>3

LEMMA RelayAnswerType ==
    ASSUME TypeOK, NEW i \in Ids, NEW isError \in BOOLEAN,
           NEW result \in ResumeResult \cup {None}, RelayAnswer(i, isError, result)
    PROVE  TypeOK'
  <1>1. sent' \in [Ids -> Request \cup {None}]
    BY DEF RelayAnswer, TypeOK
  <1>2. ServerMessage(i, TRUE, isError, result)
    BY DEF RelayAnswer
  <1>3. /\ threads' \in [Threads -> ThreadState]
        /\ pending' \in [Ids \cup ServerIds -> Pending \cup {None}]
        /\ resumes' \in [Ids \cup ServerIds -> Threads \cup {None}]
        /\ decisions' \in Seq(Decision)
    BY <1>2, ServerMessageType
  <1>. QED BY <1>1, <1>3 DEF RelayAnswer, TypeOK

LEMMA RelayServerRequestType ==
    ASSUME TypeOK, NEW k \in ServerIds, RelayServerRequest(k)
    PROVE  TypeOK'
  <1>1. ServerMessage(k, FALSE, FALSE, None)
    BY DEF RelayServerRequest
  <1>2. /\ threads' \in [Threads -> ThreadState]
        /\ pending' \in [Ids \cup ServerIds -> Pending \cup {None}]
        /\ resumes' \in [Ids \cup ServerIds -> Threads \cup {None}]
        /\ decisions' \in Seq(Decision)
    BY <1>1, ServerMessageType
  <1>. QED BY <1>2 DEF RelayServerRequest, TypeOK

LEMMA InitType == ConstantsOK /\ Init => TypeOK
  <1> SUFFICES ASSUME ConstantsOK, Init PROVE TypeOK
    OBVIOUS
  <1>1. FreshThread \in ThreadState
    BY DEF FreshThread, ThreadState, RouteSources
  <1>2. prior \in Counts
    BY DEF Init, ConstantsOK
  <1>3. calibration \in Offsets
    BY OffsetsClosed DEF Init, Offsets, RecommendedOffset
  <1>4. decisions \in Seq(Decision) /\ feedback \in Seq(Feedback)
    BY DEF Init
  <1>. QED BY <1>1, <1>2, <1>3, <1>4 DEF Init, TypeOK

\* Every step of every handler is typed.
LEMMA NextType == ConstantsOK /\ TypeOK /\ [Next]_vars => TypeOK'
  <1> SUFFICES ASSUME ConstantsOK, TypeOK, [Next]_vars PROVE TypeOK'
    OBVIOUS
  <1>1. CASE \E i \in Ids, t \in Threads : ClientResume(i, t)
    BY <1>1, ClientResumeType
  <1>2. CASE \E i \in Ids, t \in Threads : TurnStart(i, t)
    <2>1. PICK i \in Ids, t \in Threads : TurnStart(i, t)
      BY <1>2
    <2>2. PICK model \in OptModel, effort \in OptLevel, tier \in TierKeys :
            \/ \E remark \in Remarks : ClientFollowUp(i, t, remark, model, effort, tier)
            \/ ClientUnclassified(i, t, model, effort, tier)
            \/ \E keepNative, cwdChanged \in BOOLEAN :
                  ClientFirstTurn(i, t, model, effort, tier, keepNative, cwdChanged)
            \/ ClientFirstTurnFails(i, t, model, effort, tier)
      BY <2>1 DEF TurnStart
    <2>. QED BY <2>2, ClientFollowUpType, ClientUnclassifiedType, ClientFirstTurnType,
                ClientFirstTurnFailsType
  <1>3. CASE \E t \in Threads, model \in OptModel, effort \in OptLevel, tier \in TierKeys :
                ClientSettings(t, model, effort, tier)
    BY <1>3, ClientSettingsType
  <1>4. CASE \E i \in Ids, isError \in BOOLEAN, result \in ResumeResult \cup {None} :
                RelayAnswer(i, isError, result)
    BY <1>4, RelayAnswerType
  <1>5. CASE \E k \in ServerIds : RelayServerRequest(k)
    BY <1>5, RelayServerRequestType
  <1>6. CASE UNCHANGED vars
    BY <1>6 DEF vars, TypeOK
  <1>. QED BY <1>1, <1>2, <1>3, <1>4, <1>5, <1>6 DEF Next

\* Whatever arrives in whatever order, the router's maps, the pins and the
\* records it appends keep their types, and the stored offset is -5, 0 or +5.
THEOREM TypeCorrect == Spec => []TypeOK
  <1>1. Init => TypeOK
    BY ConstantsOK, InitType
  <1>2. TypeOK /\ [Next]_vars => TypeOK'
    BY ConstantsOK, NextType
  <1>. QED BY <1>1, <1>2, PTL DEF Spec

-----------------------------------------------------------------------------
(* What a step does to a thread's decision.  Every handler does one of three *)
(* things: nothing, attach an event to an open decision, or set the pin of a *)
(* committed turn.                                                          *)

SameDecision(t) ==
    /\ threads'[t].decision = threads[t].decision
    /\ threads'[t].recorded = threads[t].recorded
    /\ threads'[t].source = "local" => threads[t].source = "local"

Quiet == UNCHANGED <<decisions, feedback>> /\ \A t \in Threads : SameDecision(t)

Learns(t, kind) ==
    /\ threads[t].decision # 0
    /\ ~threads[t].recorded
    /\ threads'[t].decision = threads[t].decision
    /\ threads'[t].recorded
    /\ threads'[t].source = "local" => threads[t].source = "local"
    /\ \A u \in Threads \ {t} : SameDecision(u)
    /\ UNCHANGED decisions
    /\ feedback' = Append(feedback, [decision |-> threads[t].decision, kind |-> kind])

Commits(t, source, accepted) ==
    /\ threads'[t].source = source
    /\ \A u \in Threads \ {t} : SameDecision(u)
    /\ UNCHANGED feedback
    /\ \/ threads'[t].decision = 0 /\ UNCHANGED decisions
       \/ /\ threads'[t].decision = Len(decisions) + 1
          /\ ~threads'[t].recorded
          /\ decisions' = Append(decisions, [thread |-> t, mode |-> "agent",
                                             source |-> source, accepted |-> accepted])

Effect ==
    \/ Quiet
    \/ \E t \in Threads, kind \in FeedbackKinds : Learns(t, kind)
    \/ \E t \in Threads, source \in RouteSources, accepted \in BOOLEAN :
          Commits(t, source, accepted)

\* A pin operator that leaves decision and recorded alone and does not turn a
\* preserved or explicit route into cauto's own.
Keeps(s, new) ==
    /\ new.decision = s.decision
    /\ new.recorded = s.recorded
    /\ new.source = "local" => s.source = "local"

LEMMA RecordFeedbackEffect ==
    ASSUME TypeOK, NEW t \in Threads, NEW s \in ThreadState, Keeps(threads[t], s),
           NEW kind \in FeedbackKinds \cup {None}, RecordFeedback(t, s, kind),
           UNCHANGED decisions
    PROVE  Effect
  <1>1. CASE threads' = [threads EXCEPT ![t] = s] /\ UNCHANGED <<feedback, calibration>>
    <2>1. \A u \in Threads : SameDecision(u)
      BY <1>1 DEF SameDecision, Keeps, TypeOK
    <2>. QED BY <1>1, <2>1 DEF Effect, Quiet
  <1>2. CASE ~(threads' = [threads EXCEPT ![t] = s] /\ UNCHANGED <<feedback, calibration>>)
    <2>1. /\ kind # None /\ ~s.recorded /\ s.decision # 0
          /\ threads' = [threads EXCEPT ![t] = [s EXCEPT !.recorded = TRUE]]
          /\ feedback' = Append(feedback, [decision |-> s.decision, kind |-> kind])
      BY <1>2 DEF RecordFeedback
    <2>2. threads'[t] = [s EXCEPT !.recorded = TRUE]
      BY <2>1 DEF TypeOK
    <2>3. /\ threads'[t].recorded
          /\ threads'[t].decision = s.decision
          /\ threads'[t].source = s.source
      BY <2>2 DEF ThreadState
    <2>4. \A u \in Threads \ {t} : SameDecision(u)
      BY <2>1 DEF SameDecision, TypeOK
    <2>5. Learns(t, kind)
      BY <2>1, <2>3, <2>4 DEF Learns, Keeps
    <2>. QED BY <2>1, <2>5 DEF Effect
  <1>. QED BY <1>1, <1>2

\* A handler that only replaces one pin, keeping its decision.
LEMMA ReplacedPinEffect ==
    ASSUME TypeOK, NEW t \in Threads, NEW s, Keeps(threads[t], s),
           threads' = [threads EXCEPT ![t] = s], UNCHANGED <<decisions, feedback>>
    PROVE  Effect
  <1>1. \A u \in Threads : SameDecision(u)
    BY DEF SameDecision, Keeps, TypeOK
  <1>. QED BY <1>1 DEF Effect, Quiet

LEMMA LogTurnEffect ==
    ASSUME TypeOK, NEW k \in Ids \cup ServerIds, pending[k] # None,
           NEW accepted \in BOOLEAN, LogTurn(k, accepted), UNCHANGED feedback
    PROVE  Effect
  <1> DEFINE p == pending[k]
             t == p.thread
  <1>1. t \in Threads /\ p.source \in RouteSources /\ threads[t] \in ThreadState
    BY DEF TypeOK, Pending
  <1>2. CASE /\ decisions' = Append(decisions, [thread |-> t, mode |-> "agent",
                                    source |-> p.source, accepted |-> accepted])
             /\ threads' = [threads EXCEPT ![t] = CommittedPin(@, p, NextDecision)]
    <2>1. threads'[t] = CommittedPin(threads[t], p, NextDecision)
      BY <1>1, <1>2 DEF TypeOK
    <2>2. /\ threads'[t].decision = Len(decisions) + 1
          /\ ~threads'[t].recorded
          /\ threads'[t].source = p.source
      BY <1>1, <2>1 DEF CommittedPin, ThreadState, NextDecision
    <2>3. \A u \in Threads \ {t} : SameDecision(u)
      BY <1>2 DEF SameDecision, TypeOK
    <2>4. Commits(t, p.source, accepted)
      BY <1>2, <2>2, <2>3 DEF Commits
    <2>. QED BY <1>1, <2>4 DEF Effect
  <1>3. CASE /\ threads' = [threads EXCEPT ![t] = CommittedPin(@, p, 0)]
             /\ UNCHANGED decisions
    <2>1. threads'[t] = CommittedPin(threads[t], p, 0)
      BY <1>1, <1>3 DEF TypeOK
    <2>2. threads'[t].decision = 0 /\ threads'[t].source = p.source
      BY <1>1, <2>1 DEF CommittedPin, ThreadState
    <2>3. \A u \in Threads \ {t} : SameDecision(u)
      BY <1>3 DEF SameDecision, TypeOK
    <2>4. Commits(t, p.source, accepted)
      BY <1>3, <2>2, <2>3 DEF Commits
    <2>. QED BY <1>1, <2>4 DEF Effect
  <1>. QED BY <1>2, <1>3 DEF LogTurn

LEMMA ServerMessageEffect ==
    ASSUME TypeOK, NEW k \in Ids \cup ServerIds, NEW isAnswer \in BOOLEAN,
           NEW isError \in BOOLEAN, NEW result \in ResumeResult \cup {None},
           ServerMessage(k, isAnswer, isError, result), UNCHANGED feedback
    PROVE  Effect
  <1>0. Quiet => Effect
    BY DEF Effect
  <1>1. CASE resumes[k] # None
    <2>1. resumes[k] \in Threads /\ threads[resumes[k]] \in ThreadState
      BY <1>1 DEF TypeOK
    <2>2. UNCHANGED decisions
      BY <1>1 DEF ServerMessage
    <2>3. CASE isError \/ result = None
      <3>1. UNCHANGED threads
        BY <1>1, <2>3 DEF ServerMessage
      <3>. QED BY <1>0, <2>2, <3>1 DEF Quiet, SameDecision
    <2>4. CASE ~(isError \/ result = None)
      <3> DEFINE s == ResumePin(threads[resumes[k]], result.model, result.effort, result.tier)
      <3>1. threads' = [threads EXCEPT ![resumes[k]] = s]
        BY <1>1, <2>4 DEF ServerMessage
      <3>2. Keeps(threads[resumes[k]], s)
        BY <2>1 DEF Keeps, ResumePin, ThreadState
      <3>. QED BY <2>1, <2>2, <3>1, <3>2, ReplacedPinEffect
    <2>. QED BY <2>3, <2>4
  <1>2. CASE resumes[k] = None /\ pending[k] # None
    <2>1. CommitTurn(k, isAnswer, isError)
      BY <1>2 DEF ServerMessage
    <2>2. CASE isError
      BY <1>0, <2>1, <2>2 DEF CommitTurn, Quiet, SameDecision
    <2>3. CASE ~isError
      BY <1>2, <2>1, <2>3, LogTurnEffect DEF CommitTurn
    <2>. QED BY <2>2, <2>3
  <1>3. CASE resumes[k] = None /\ pending[k] = None
    BY <1>0, <1>3 DEF ServerMessage, Quiet, SameDecision
  <1>. QED BY <1>1, <1>2, <1>3

LEMMA NextEffect == ConstantsOK /\ TypeOK /\ [Next]_vars => Effect
  <1> SUFFICES ASSUME ConstantsOK, TypeOK, [Next]_vars PROVE Effect
    OBVIOUS
  <1>0. Quiet => Effect
    BY DEF Effect
  <1>1. ASSUME NEW i \in Ids, NEW t \in Threads, ClientResume(i, t) PROVE Effect
    BY <1>0, <1>1 DEF ClientResume, Quiet, SameDecision
  <1>2. ASSUME NEW i \in Ids, NEW t \in Threads, NEW remark \in Remarks, NEW model \in OptModel,
               NEW effort \in OptLevel, NEW tier \in TierKeys,
               ClientFollowUp(i, t, remark, model, effort, tier)
        PROVE  Effect
    <2>1. threads[t] \in ThreadState
      BY DEF TypeOK
    <2>2. KeptPin(threads[t], model, effort, tier) \in ThreadState
      BY <2>1, KeptPinType
    <2>3. Keeps(threads[t], KeptPin(threads[t], model, effort, tier))
      BY <2>1 DEF Keeps, KeptPin, ThreadState
    <2>4. FollowUpFeedback(threads[t], remark, model, effort) \in FeedbackKinds \cup {None}
      BY FeedbackTypes
    <2>5. /\ RecordFeedback(t, KeptPin(threads[t], model, effort, tier),
                            FollowUpFeedback(threads[t], remark, model, effort))
          /\ UNCHANGED decisions
      BY <1>2 DEF ClientFollowUp
    <2>. QED BY <2>2, <2>3, <2>4, <2>5, RecordFeedbackEffect
  <1>3. ASSUME NEW i \in Ids, NEW t \in Threads, NEW model \in OptModel,
               NEW effort \in OptLevel, NEW tier \in TierKeys,
               ClientUnclassified(i, t, model, effort, tier)
        PROVE  Effect
    <2> DEFINE s == UnclassifiedPin(threads[t], model, effort, tier)
    <2>1. threads[t] \in ThreadState
      BY DEF TypeOK
    <2>2. Keeps(threads[t], s)
      BY <2>1 DEF Keeps, UnclassifiedPin, ThreadState
    <2>3. threads' = [threads EXCEPT ![t] = s] /\ UNCHANGED <<decisions, feedback>>
      BY <1>3 DEF ClientUnclassified
    <2>. QED BY <2>2, <2>3, ReplacedPinEffect
  <1>4. ASSUME NEW t \in Threads, threads' = [threads EXCEPT ![t].next = None],
               UNCHANGED <<decisions, feedback>>
        PROVE  Effect
    <2> DEFINE s == [threads[t] EXCEPT !.next = None]
    <2>1. Keeps(threads[t], s)
      BY DEF Keeps, TypeOK, ThreadState
    <2>2. threads' = [threads EXCEPT ![t] = s]
      BY <1>4
    <2>. QED BY <1>4, <2>1, <2>2, ReplacedPinEffect
  <1>5. ASSUME NEW t \in Threads, NEW model \in OptModel, NEW effort \in OptLevel,
               NEW tier \in TierKeys, ClientSettings(t, model, effort, tier)
        PROVE  Effect
    <2> DEFINE m == UnpinnedModel(model)
               e == UnpinnedEffort(effort)
               s == threads[t]
               deferred == [s EXCEPT !.next = [model |-> m, effort |-> e]]
               new == IF s.init THEN ExplicitPin(s, m, e, tier) ELSE deferred
    <2>1. m \in OptModel /\ e \in OptLevel /\ s \in ThreadState
      BY UnpinnedTypes DEF TypeOK
    <2>2. ExplicitPin(s, m, e, tier) \in ThreadState /\ Keeps(s, ExplicitPin(s, m, e, tier))
      <3>1. ExplicitPin(s, m, e, tier) \in ThreadState
        BY <2>1, ExplicitPinType
      <3>2. Keeps(s, ExplicitPin(s, m, e, tier))
        <4> HIDE DEF m, e
        <4>. QED BY <2>1 DEF Keeps, ExplicitPin, ThreadState
      <3>. QED BY <3>1, <3>2
    <2>3. deferred \in ThreadState /\ Keeps(s, deferred)
      BY <2>1 DEF Keeps, ThreadState, DeferredRoute
    <2>4. SettingsFeedback(s, m, e) \in FeedbackKinds \cup {None}
      BY FeedbackTypes DEF Remarks
    <2>5. RecordFeedback(t, new, SettingsFeedback(s, m, e)) /\ UNCHANGED decisions
      BY <1>5 DEF ClientSettings
    <2>6. new \in ThreadState /\ Keeps(s, new)
      BY <2>2, <2>3
    <2> HIDE DEF new
    <2>. QED BY <2>4, <2>5, <2>6, RecordFeedbackEffect
  <1>6. ASSUME NEW i \in Ids, NEW t \in Threads, TurnStart(i, t) PROVE Effect
    <2>1. PICK model \in OptModel, effort \in OptLevel, tier \in TierKeys :
            \/ \E remark \in Remarks : ClientFollowUp(i, t, remark, model, effort, tier)
            \/ ClientUnclassified(i, t, model, effort, tier)
            \/ \E keepNative, cwdChanged \in BOOLEAN :
                  ClientFirstTurn(i, t, model, effort, tier, keepNative, cwdChanged)
            \/ ClientFirstTurnFails(i, t, model, effort, tier)
      BY <1>6 DEF TurnStart
    <2>2. ASSUME NEW keepNative \in BOOLEAN, NEW cwdChanged \in BOOLEAN,
                 ClientFirstTurn(i, t, model, effort, tier, keepNative, cwdChanged)
          PROVE  Effect
      BY <1>4, <2>2 DEF ClientFirstTurn
    <2>3. ASSUME ClientFirstTurnFails(i, t, model, effort, tier) PROVE Effect
      BY <1>4, <2>3 DEF ClientFirstTurnFails
    <2>. QED BY <1>2, <1>3, <2>1, <2>2, <2>3
  <1>7. ASSUME NEW i \in Ids, NEW isError \in BOOLEAN, NEW result \in ResumeResult \cup {None},
               RelayAnswer(i, isError, result)
        PROVE  Effect
    BY <1>7, ServerMessageEffect DEF RelayAnswer
  <1>8. ASSUME NEW k \in ServerIds, RelayServerRequest(k) PROVE Effect
    BY <1>8, ServerMessageEffect DEF RelayServerRequest
  <1>9. CASE UNCHANGED vars
    BY <1>0, <1>9 DEF vars, Quiet, SameDecision
  <1>. QED BY <1>1, <1>5, <1>6, <1>7, <1>8, <1>9 DEF Next

-----------------------------------------------------------------------------
(* Feedback is never credited twice, nor to another thread's decision *)

LEMMA FeedbackStep ==
    ASSUME FeedbackInv, TypeOK', Effect
    PROVE  FeedbackInv'
  <1>1. /\ \A t \in Threads : threads[t] \in ThreadState /\ threads'[t] \in ThreadState
        /\ decisions \in Seq(Decision) /\ feedback \in Seq(Feedback)
    BY DEF FeedbackInv, TypeOK
  <1>2. CASE Quiet
    <2>1. PinNamesOwnDecision'
      BY <1>2 DEF FeedbackInv, PinNamesOwnDecision, Quiet, SameDecision
    <2>2. FeedbackCloses'
      BY <1>2 DEF FeedbackInv, FeedbackCloses, Quiet, SameDecision
    <2>3. FeedbackOncePerDecision'
      BY <1>2 DEF FeedbackInv, FeedbackOncePerDecision, Quiet
    <2>. QED BY <2>1, <2>2, <2>3 DEF FeedbackInv
  <1>3. ASSUME NEW t \in Threads, NEW kind \in FeedbackKinds, Learns(t, kind)
        PROVE  FeedbackInv'
    <2> DEFINE d == threads[t].decision
    <2>1. PinNamesOwnDecision'
      BY <1>3 DEF FeedbackInv, PinNamesOwnDecision, Learns, SameDecision
    <2>2. \A f \in DOMAIN feedback : feedback[f].decision # d
      BY <1>3 DEF FeedbackInv, FeedbackCloses, Learns
    <2>3. d \in DOMAIN decisions /\ \A u \in Threads \ {t} : threads[u].decision # d
      BY <1>3 DEF FeedbackInv, PinNamesOwnDecision, Learns
    <2>4. /\ DOMAIN feedback' = DOMAIN feedback \cup {Len(feedback) + 1}
          /\ Len(feedback) + 1 \notin DOMAIN feedback
          /\ \A f \in DOMAIN feedback : feedback'[f] = feedback[f]
          /\ feedback'[Len(feedback) + 1].decision = d
      BY <1>1, <1>3 DEF Learns
    <2>5. FeedbackOncePerDecision'
      BY <2>2, <2>4 DEF FeedbackInv, FeedbackOncePerDecision
    <2>6. FeedbackCloses'
      <3>1. \A f \in DOMAIN feedback' : feedback'[f].decision \in DOMAIN decisions'
        BY <1>3, <2>3, <2>4 DEF FeedbackInv, FeedbackCloses, Learns
      <3>2. ASSUME NEW f \in DOMAIN feedback', NEW u \in Threads,
                   threads'[u].decision = feedback'[f].decision
            PROVE  threads'[u].recorded
        BY <1>3, <2>3, <2>4, <3>2 DEF FeedbackInv, FeedbackCloses, Learns, SameDecision
      <3>. QED BY <3>1, <3>2 DEF FeedbackCloses
    <2>. QED BY <2>1, <2>5, <2>6 DEF FeedbackInv
  <1>4. ASSUME NEW t \in Threads, NEW source \in RouteSources, NEW accepted \in BOOLEAN,
               Commits(t, source, accepted)
        PROVE  FeedbackInv'
    <2>0. FeedbackOncePerDecision'
      BY <1>4 DEF FeedbackInv, FeedbackOncePerDecision, Commits
    <2>1. DOMAIN decisions = 1..Len(decisions) /\ Len(decisions) \in Nat
      BY <1>1
    <2>2. CASE threads'[t].decision = 0 /\ UNCHANGED decisions
      <3>1. PinNamesOwnDecision'
        BY <1>4, <2>2 DEF FeedbackInv, PinNamesOwnDecision, Commits, SameDecision
      <3>2. FeedbackCloses'
        BY <1>4, <2>1, <2>2 DEF FeedbackInv, FeedbackCloses, Commits, SameDecision
      <3>. QED BY <2>0, <3>1, <3>2 DEF FeedbackInv
    <2>3. CASE ~(threads'[t].decision = 0 /\ UNCHANGED decisions)
      <3> DEFINE logged == [thread |-> t, mode |-> "agent",
                            source |-> source, accepted |-> accepted]
      <3>1. /\ threads'[t].decision = Len(decisions) + 1
            /\ decisions' = Append(decisions, logged)
        BY <1>4, <2>3 DEF Commits
      <3>2. /\ DOMAIN decisions' = 1..(Len(decisions) + 1)
            /\ \A d \in DOMAIN decisions : decisions'[d] = decisions[d]
            /\ decisions'[Len(decisions) + 1] = logged
        <4> HIDE DEF logged
        <4>. QED BY <1>1, <3>1
      <3>3. PinNamesOwnDecision'
        <4>1. ASSUME NEW u \in Threads \ {t}, threads'[u].decision # 0
              PROVE  /\ threads'[u].decision \in DOMAIN decisions'
                     /\ decisions'[threads'[u].decision].thread = u
                     /\ threads'[u].source = "local" =>
                           decisions'[threads'[u].decision].source = "local"
          <5>1. /\ threads'[u].decision = threads[u].decision
                /\ threads'[u].source = "local" => threads[u].source = "local"
            BY <1>4 DEF Commits, SameDecision
          <5>2. /\ threads[u].decision \in DOMAIN decisions
                /\ decisions[threads[u].decision].thread = u
                /\ threads[u].source = "local" =>
                      decisions[threads[u].decision].source = "local"
            BY <4>1, <5>1 DEF FeedbackInv, PinNamesOwnDecision
          <5>3. decisions'[threads[u].decision] = decisions[threads[u].decision]
            BY <3>2, <5>2
          <5>. QED BY <2>1, <3>2, <5>1, <5>2, <5>3
        <4>2. /\ threads'[t].decision \in DOMAIN decisions'
              /\ decisions'[threads'[t].decision].thread = t
              /\ threads'[t].source = "local" =>
                    decisions'[threads'[t].decision].source = "local"
          <5>1. threads'[t].source = source
            BY <1>4 DEF Commits
          <5>2. /\ decisions'[threads'[t].decision].thread = t
                /\ decisions'[threads'[t].decision].source = source
            BY <3>1, <3>2
          <5>3. threads'[t].decision \in DOMAIN decisions'
            BY <2>1, <3>1, <3>2
          <5>. QED BY <5>1, <5>2, <5>3
        <4>. QED BY <4>1, <4>2 DEF PinNamesOwnDecision
      <3>4. FeedbackCloses'
        <4>1. UNCHANGED feedback /\ \A u \in Threads \ {t} : SameDecision(u)
          BY <1>4 DEF Commits
        <4>2. \A f \in DOMAIN feedback : feedback[f].decision \in 1..Len(decisions)
          BY <2>1 DEF FeedbackInv, FeedbackCloses
        <4>3. \A f \in DOMAIN feedback : feedback[f].decision # threads'[t].decision
          BY <2>1, <3>1, <4>2
        <4>4. \A f \in DOMAIN feedback : feedback[f].decision \in DOMAIN decisions'
          BY <2>1, <3>2, <4>2
        <4>. QED BY <4>1, <4>3, <4>4 DEF FeedbackInv, FeedbackCloses, SameDecision
      <3>. QED BY <2>0, <3>3, <3>4 DEF FeedbackInv
    <2>. QED BY <2>2, <2>3
  <1>. QED BY <1>2, <1>3, <1>4 DEF Effect

LEMMA FeedbackInvariant == Spec => []FeedbackInv
  <1>1. Init => FeedbackInv
    <2> SUFFICES ASSUME Init PROVE FeedbackInv
      OBVIOUS
    <2>1. TypeOK
      BY ConstantsOK, InitType
    <2>2. PinNamesOwnDecision
      BY DEF Init, PinNamesOwnDecision, FreshThread
    <2>3. FeedbackCloses /\ FeedbackOncePerDecision
      BY DEF Init, FeedbackCloses, FeedbackOncePerDecision
    <2>. QED BY <2>1, <2>2, <2>3 DEF FeedbackInv
  <1>2. FeedbackInv /\ [Next]_vars => FeedbackInv'
    BY ConstantsOK, NextType, NextEffect, FeedbackStep DEF FeedbackInv
  <1>. QED BY <1>1, <1>2, PTL DEF Spec

\* One decision never receives two automatic feedback events, in any
\* interleaving of turns, settings updates, resumes and answers.
THEOREM FeedbackAtMostOnce == Spec => []FeedbackOncePerDecision
  <1>1. FeedbackInv => FeedbackOncePerDecision
    BY DEF FeedbackInv
  <1>. QED BY <1>1, FeedbackInvariant, PTL

\* A pin's decision is the thread's own, and cauto's own if the pin counts as
\* cauto's: feedback cannot be credited to another thread's route.
THEOREM PinsNameOwnDecisions == Spec => []PinNamesOwnDecision
  <1>1. FeedbackInv => PinNamesOwnDecision
    BY DEF FeedbackInv
  <1>. QED BY <1>1, FeedbackInvariant, PTL

-----------------------------------------------------------------------------
(* Entries of the pending maps and the requests they stand for *)

\* A request is forwarded under a free id; it may be tracked as what it is.
Sends(i, r) ==
    /\ sent[i] = None
    /\ r # None
    /\ sent' = [sent EXCEPT ![i] = r]
    /\ UNCHANGED decisions
    /\ \/ UNCHANGED <<pending, resumes>>
       \/ /\ r.kind = "turn"
          /\ UNCHANGED resumes
          /\ \E p : p.thread = r.thread /\ pending' = [pending EXCEPT ![i] = p]
       \/ /\ r.kind = "resume"
          /\ UNCHANGED pending
          /\ resumes' = [resumes EXCEPT ![i] = r.thread]

\* What a message of App Server under key k leaves tracked.
Untracks(k) ==
    \/ resumes[k] # None /\ resumes' = [resumes EXCEPT ![k] = None] /\ UNCHANGED pending
    \/ resumes[k] = None /\ pending' = [pending EXCEPT ![k] = None] /\ UNCHANGED resumes

Tracking ==
    \/ UNCHANGED <<pending, resumes, sent, decisions>>
    \/ \E i \in Ids, r \in Request : Sends(i, r)
    \/ \E i \in Ids : Untracks(i) /\ sent' = [sent EXCEPT ![i] = None]
    \/ \E k \in ServerIds : Untracks(k) /\ UNCHANGED sent

LEMMA ForwardSends ==
    ASSUME NEW i \in Ids, NEW t \in Threads,
           NEW kind \in {"turn", "resume"}, NEW route, sent[i] = None,
           route.model \in OptModel, route.effort \in OptLevel,
           route.tier \in Tiers \cup {None, Absent},
           Forward(i, kind, t, route), UNCHANGED decisions,
           \/ UNCHANGED <<pending, resumes>>
           \/ /\ kind = "turn" /\ UNCHANGED resumes
              /\ \E p : p.thread = t /\ pending' = [pending EXCEPT ![i] = p]
           \/ /\ kind = "resume" /\ UNCHANGED pending
              /\ resumes' = [resumes EXCEPT ![i] = t]
    PROVE  Tracking
  <1> DEFINE r == [kind |-> kind, thread |-> t, model |-> route.model,
                   effort |-> route.effort, tier |-> route.tier]
  <1>1. r \in Request /\ r.thread = t /\ r.kind = kind
    BY DEF Request
  <1>2. sent' = [sent EXCEPT ![i] = r]
    BY DEF Forward
  <1>3. r # None
    BY <1>1, NoneIsNoRequest
  <1> HIDE DEF r
  <1>4. Sends(i, r)
    BY <1>1, <1>2, <1>3 DEF Sends
  <1>. QED BY <1>1, <1>4 DEF Tracking

LEMMA ServerMessageUntracks ==
    ASSUME NEW k, NEW isAnswer, NEW isError, NEW result, TypeOK, k \in Ids \cup ServerIds,
           ServerMessage(k, isAnswer, isError, result)
    PROVE  Untracks(k)
  <1>1. CASE resumes[k] # None
    BY <1>1 DEF ServerMessage, Untracks
  <1>2. CASE resumes[k] = None /\ pending[k] # None
    BY <1>2 DEF ServerMessage, Untracks, CommitTurn
  <1>3. CASE resumes[k] = None /\ pending[k] = None
    <2>1. UNCHANGED <<pending, resumes>>
      BY <1>3 DEF ServerMessage
    <2>2. pending = [pending EXCEPT ![k] = None]
      BY <1>3 DEF TypeOK
    <2>. QED BY <1>3, <2>1, <2>2 DEF Untracks
  <1>. QED BY <1>1, <1>2, <1>3

LEMMA NextTracking == TypeOK /\ [Next]_vars => Tracking
  <1> SUFFICES ASSUME TypeOK, [Next]_vars PROVE Tracking
    OBVIOUS
  <1>0. TierKeys \subseteq Tiers \cup {None, Absent}
    BY ConstantsOK DEF ConstantsOK
  <1>1. ASSUME NEW i \in Ids, NEW t \in Threads, ClientResume(i, t) PROVE Tracking
    <2>1. Forward(i, "resume", t, Route(None, None, Absent)) /\ sent[i] = None
      BY <1>1 DEF ClientResume
    <2>2. /\ Route(None, None, Absent).model \in OptModel
          /\ Route(None, None, Absent).effort \in OptLevel
          /\ Route(None, None, Absent).tier \in Tiers \cup {None, Absent}
      BY DEF Route
    <2>. QED BY <1>1, <2>1, <2>2, ForwardSends DEF ClientResume
  <1>2. ASSUME NEW i \in Ids, NEW t \in Threads, NEW model \in OptModel,
               NEW effort \in OptLevel, NEW tier \in Tiers \cup {None, Absent},
               Forward(i, "turn", t, Route(model, effort, tier)),
               sent[i] = None, UNCHANGED <<resumes, decisions>>,
               \/ UNCHANGED pending
               \/ \E p : p.thread = t /\ pending' = [pending EXCEPT ![i] = p]
        PROVE  Tracking
    <2>1. /\ Route(model, effort, tier).model \in OptModel
          /\ Route(model, effort, tier).effort \in OptLevel
          /\ Route(model, effort, tier).tier \in Tiers \cup {None, Absent}
      BY DEF Route
    <2>. QED BY <1>2, <2>1, ForwardSends
  <1>3. ASSUME NEW i \in Ids, NEW t \in Threads, NEW model \in OptModel,
               NEW effort \in OptLevel, NEW tier \in OptTier,
               NEW requested \in Tiers \cup {None, Absent},
               Forward(i, "turn", t, RewriteTurnParams(model, effort, tier, requested)),
               sent[i] = None, UNCHANGED <<resumes, decisions>>,
               \/ UNCHANGED pending
               \/ \E p : p.thread = t /\ pending' = [pending EXCEPT ![i] = p]
        PROVE  Tracking
    <2>1. PICK sentTier \in Tiers \cup {None, Absent} :
             RewriteTurnParams(model, effort, tier, requested) = Route(model, effort, sentTier)
      BY DEF RewriteTurnParams
    <2>. QED BY <1>2, <1>3, <2>1
  <1>4. ASSUME NEW i \in Ids, NEW t \in Threads, NEW remark \in Remarks, NEW model \in OptModel,
               NEW effort \in OptLevel, NEW tier \in TierKeys,
               ClientFollowUp(i, t, remark, model, effort, tier)
        PROVE  Tracking
    <2> DEFINE pin == KeptPin(threads[t], model, effort, tier)
    <2>1. pin \in ThreadState
      BY ConstantsOK, KeptPinType DEF TypeOK
    <2>2. /\ sent[i] = None /\ UNCHANGED <<pending, resumes, decisions>>
          /\ \/ Forward(i, "turn", t, RewriteTurnParams(pin.model, pin.effort, pin.tier, tier))
             \/ Forward(i, "turn", t, Route(model, effort, tier))
      BY <1>4 DEF ClientFollowUp
    <2> HIDE DEF pin
    <2>3. pin.model \in OptModel /\ pin.effort \in OptLevel /\ pin.tier \in OptTier
      BY <2>1 DEF ThreadState
    <2>4. tier \in Tiers \cup {None, Absent}
      BY <1>0
    <2>5. CASE Forward(i, "turn", t, Route(model, effort, tier))
      BY <1>2, <2>2, <2>4, <2>5
    <2>6. CASE Forward(i, "turn", t, RewriteTurnParams(pin.model, pin.effort, pin.tier, tier))
      <3>1. PICK pm \in OptModel, pe \in OptLevel, pt \in OptTier :
               Forward(i, "turn", t, RewriteTurnParams(pm, pe, pt, tier))
        BY <2>3, <2>6
      <3>. QED BY <1>3, <2>2, <2>4, <3>1
    <2>. QED BY <2>2, <2>5, <2>6
  <1>5. ASSUME NEW i \in Ids, NEW t \in Threads, NEW model \in OptModel,
               NEW effort \in OptLevel, NEW tier \in TierKeys,
               NEW keepNative \in BOOLEAN, NEW cwdChanged \in BOOLEAN,
               ClientFirstTurn(i, t, model, effort, tier, keepNative, cwdChanged)
        PROVE  Tracking
    <2>1. sent[i] = None /\ UNCHANGED <<resumes, decisions>>
      BY <1>5 DEF ClientFirstTurn
    <2>2. CASE (keepNative \/ cwdChanged) /\ model # None
      <3>1. PICK preset : /\ pending' = [pending EXCEPT ![i] =
                                 [thread |-> t, preset |-> preset, source |-> "native"]]
                          /\ Forward(i, "turn", t, Route(model, effort, tier))
        BY <1>5, <2>2 DEF ClientFirstTurn
      <3>2. [thread |-> t, preset |-> preset, source |-> "native"].thread = t
        OBVIOUS
      <3>. QED BY <1>0, <1>2, <2>1, <3>1, <3>2
    <2>3. CASE ~((keepNative \/ cwdChanged) /\ model # None)
      <3>1. PICK preset \in Preset, source \in RouteSources :
              /\ pending' = [pending EXCEPT ![i] =
                                [thread |-> t, preset |-> preset, source |-> source]]
              /\ Forward(i, "turn", t,
                     RewriteTurnParams(preset.model, preset.effort, preset.tier, tier))
        BY <1>5, <2>3 DEF ClientFirstTurn, Presets, RouteSources
      <3>2. [thread |-> t, preset |-> preset, source |-> source].thread = t
        OBVIOUS
      <3>3. preset.model \in OptModel /\ preset.effort \in OptLevel /\ preset.tier \in OptTier
        BY DEF Preset
      <3>4. \E p : p.thread = t /\ pending' = [pending EXCEPT ![i] = p]
        BY <3>1, <3>2
      <3>5. PICK pm \in OptModel, pe \in OptLevel, pt \in OptTier :
               Forward(i, "turn", t, RewriteTurnParams(pm, pe, pt, tier))
        BY <3>1, <3>3
      <3>. QED BY <1>0, <1>3, <2>1, <3>4, <3>5
    <2>. QED BY <2>2, <2>3
  <1>6. ASSUME NEW i \in Ids, NEW t \in Threads, TurnStart(i, t) PROVE Tracking
    <2>1. PICK model \in OptModel, effort \in OptLevel, tier \in TierKeys :
            \/ \E remark \in Remarks : ClientFollowUp(i, t, remark, model, effort, tier)
            \/ ClientUnclassified(i, t, model, effort, tier)
            \/ \E keepNative, cwdChanged \in BOOLEAN :
                  ClientFirstTurn(i, t, model, effort, tier, keepNative, cwdChanged)
            \/ ClientFirstTurnFails(i, t, model, effort, tier)
      BY <1>6 DEF TurnStart
    <2>2. ASSUME ClientUnclassified(i, t, model, effort, tier) PROVE Tracking
      BY <1>0, <1>2, <2>2 DEF ClientUnclassified
    <2>3. ASSUME ClientFirstTurnFails(i, t, model, effort, tier) PROVE Tracking
      BY <1>0, <1>2, <2>3 DEF ClientFirstTurnFails
    <2>. QED BY <1>4, <1>5, <2>1, <2>2, <2>3
  <1>7. ASSUME NEW t \in Threads, NEW model, NEW effort, NEW tier,
               ClientSettings(t, model, effort, tier)
        PROVE  Tracking
    BY <1>7 DEF ClientSettings, Tracking
  <1>8. ASSUME NEW i \in Ids, NEW isError \in BOOLEAN, NEW result,
               RelayAnswer(i, isError, result)
        PROVE  Tracking
    BY <1>8, ServerMessageUntracks DEF RelayAnswer, Tracking
  <1>9. ASSUME NEW k \in ServerIds, RelayServerRequest(k) PROVE Tracking
    BY <1>9, ServerMessageUntracks DEF RelayServerRequest, Tracking
  <1>10. CASE UNCHANGED vars
    BY <1>10 DEF vars, Tracking
  <1>. QED BY <1>1, <1>6, <1>7, <1>8, <1>9, <1>10 DEF Next

LEMMA InFlightStep ==
    ASSUME TypeOK, TrackedOnlyInFlight, Tracking
    PROVE  TrackedOnlyInFlight'
  <1>1. /\ \A i \in Ids : i \in DOMAIN pending /\ i \in DOMAIN resumes /\ i \in DOMAIN sent
        /\ pending = [j \in Ids \cup ServerIds |-> pending[j]]
        /\ resumes = [j \in Ids \cup ServerIds |-> resumes[j]]
        /\ sent = [j \in Ids |-> sent[j]]
    BY DEF TypeOK
  <1>2. CASE UNCHANGED <<pending, resumes, sent, decisions>>
    BY <1>2 DEF TrackedOnlyInFlight
  <1>3. ASSUME NEW i \in Ids, NEW r \in Request, Sends(i, r)
        PROVE  TrackedOnlyInFlight'
    <2>1. pending[i] = None /\ resumes[i] = None
      BY <1>3 DEF TrackedOnlyInFlight, Sends
    <2>2. sent'[i] = r /\ r # None
      BY <1>1, <1>3 DEF Sends
    <2>3. \A j \in Ids \ {i} : /\ pending'[j] = pending[j]
                               /\ resumes'[j] = resumes[j]
                               /\ sent'[j] = sent[j]
      BY <1>1, <1>3 DEF Sends
    <2>4. \/ pending'[i] = None /\ resumes'[i] = None
          \/ r.kind = "turn" /\ resumes'[i] = None /\ pending'[i].thread = r.thread
          \/ r.kind = "resume" /\ pending'[i] = None /\ resumes'[i] = r.thread
      BY <1>1, <1>3, <2>1 DEF Sends
    <2>. QED BY <2>2, <2>3, <2>4 DEF TrackedOnlyInFlight
  <1>4. ASSUME NEW i \in Ids, Untracks(i), sent' = [sent EXCEPT ![i] = None]
        PROVE  TrackedOnlyInFlight'
    <2>1. pending'[i] = None /\ resumes'[i] = None
      BY <1>1, <1>4 DEF TrackedOnlyInFlight, Untracks
    <2>2. \A j \in Ids \ {i} : /\ pending'[j] = pending[j]
                               /\ resumes'[j] = resumes[j]
                               /\ sent'[j] = sent[j]
      BY <1>1, <1>4 DEF Untracks
    <2>. QED BY <2>1, <2>2 DEF TrackedOnlyInFlight
  <1>5. ASSUME NEW k \in ServerIds, Untracks(k), UNCHANGED sent
        PROVE  TrackedOnlyInFlight'
    <2>1. \A j \in Ids : /\ pending'[j] \in {None, pending[j]}
                         /\ resumes'[j] \in {None, resumes[j]}
      BY <1>1, <1>5 DEF Untracks
    <2>. QED BY <1>5, <2>1 DEF TrackedOnlyInFlight
  <1>. QED BY <1>2, <1>3, <1>4, <1>5 DEF Tracking

\* No entry of the pending maps outlives its request, for any use of ids.
THEOREM TrackedInFlight == Spec => []TrackedOnlyInFlight
  <1>1. Init => TypeOK /\ TrackedOnlyInFlight
    <2>1. Init => TypeOK
      BY ConstantsOK, InitType
    <2>2. Init => TrackedOnlyInFlight
      BY DEF Init, TrackedOnlyInFlight
    <2>. QED BY <2>1, <2>2
  <1>2. TypeOK /\ TrackedOnlyInFlight /\ [Next]_vars => (TypeOK /\ TrackedOnlyInFlight)'
    BY ConstantsOK, NextType, NextTracking, InFlightStep
  <1>. QED BY <1>1, <1>2, PTL DEF Spec

-----------------------------------------------------------------------------
(* Only accepted turns are logged, if ids are not shared *)

LEMMA OnlyClientIdsStep ==
    ASSUME TypeOK, OnlyClientIdsTracked, Tracking
    PROVE  OnlyClientIdsTracked'
  <1> SUFFICES ASSUME NEW k \in ServerIds \ Ids
               PROVE  pending'[k] = None /\ resumes'[k] = None
    BY DEF OnlyClientIdsTracked
  <1>1. pending[k] = None /\ resumes[k] = None
    BY DEF OnlyClientIdsTracked
  <1>2. k \in DOMAIN pending /\ k \in DOMAIN resumes
    BY DEF TypeOK
  <1>3. pending'[k] \in {None, pending[k]} /\ resumes'[k] \in {None, resumes[k]}
    BY <1>2 DEF Tracking, Sends, Untracks
  <1>. QED BY <1>1, <1>3

LEMMA AcceptedStep ==
    ASSUME Ids \cap ServerIds = {}, AcceptedInv, [Next]_vars
    PROVE  DecisionsWereAccepted'
  <1>0. TypeOK /\ decisions \in Seq(Decision) /\ DecisionsWereAccepted
    BY DEF AcceptedInv, TypeOK
  <1>1. ASSUME NEW rec \in Decision, rec.accepted, decisions' = Append(decisions, rec)
        PROVE  DecisionsWereAccepted'
    BY <1>0, <1>1 DEF DecisionsWereAccepted
  <1>2. ASSUME UNCHANGED decisions PROVE DecisionsWereAccepted'
    BY <1>0, <1>2 DEF DecisionsWereAccepted
  <1>3. ASSUME NEW i \in Ids, pending[i] # None, LogTurn(i, TRUE)
        PROVE  DecisionsWereAccepted'
    <2> DEFINE rec == [thread |-> pending[i].thread, mode |-> "agent",
                       source |-> pending[i].source, accepted |-> TRUE]
    <2>1. rec \in Decision /\ rec.accepted
      BY <1>0, <1>3 DEF TypeOK, Pending, Decision, DecisionModes
    <2>2. decisions' = Append(decisions, rec) \/ UNCHANGED decisions
      BY <1>3 DEF LogTurn
    <2> HIDE DEF rec
    <2>. QED BY <1>1, <1>2, <2>1, <2>2
  <1>4. ASSUME NEW i \in Ids, NEW isError \in BOOLEAN, NEW result,
               RelayAnswer(i, isError, result)
        PROVE  DecisionsWereAccepted'
    BY <1>2, <1>3, <1>4 DEF RelayAnswer, ServerMessage, CommitTurn
  <1>5. ASSUME NEW k \in ServerIds, RelayServerRequest(k) PROVE DecisionsWereAccepted'
    <2>1. pending[k] = None /\ resumes[k] = None
      BY DEF AcceptedInv, OnlyClientIdsTracked
    <2>. QED BY <1>2, <1>5, <2>1 DEF RelayServerRequest, ServerMessage
  <1>6. ASSUME NEW i \in Ids, NEW t \in Threads, TurnStart(i, t) PROVE UNCHANGED decisions
    BY <1>6 DEF TurnStart, ClientFollowUp, ClientUnclassified, ClientFirstTurn,
                ClientFirstTurnFails
  <1>7. ASSUME NEW i \in Ids, NEW t \in Threads, ClientResume(i, t) PROVE UNCHANGED decisions
    BY <1>7 DEF ClientResume
  <1>8. ASSUME NEW t \in Threads, NEW model, NEW effort, NEW tier,
               ClientSettings(t, model, effort, tier)
        PROVE  UNCHANGED decisions
    BY <1>8 DEF ClientSettings
  <1>9. CASE UNCHANGED vars
    BY <1>2, <1>9 DEF vars
  <1>. QED BY <1>2, <1>4, <1>5, <1>6, <1>7, <1>8, <1>9 DEF Next

\* If App Server never uses an id of the TUI for a request of its own, only
\* turns it accepted are logged.  (The run sharedids shows what happens if not.)
THEOREM AcceptedAreLogged ==
    ASSUME Ids \cap ServerIds = {}
    PROVE  Spec => []DecisionsWereAccepted
  <1>1. Init => AcceptedInv
    <2>1. Init => TypeOK
      BY ConstantsOK, InitType
    <2>2. Init => TrackedOnlyInFlight /\ OnlyClientIdsTracked /\ DecisionsWereAccepted
      BY DEF Init, TrackedOnlyInFlight, OnlyClientIdsTracked, DecisionsWereAccepted
    <2>. QED BY <2>1, <2>2 DEF AcceptedInv
  <1>2. AcceptedInv /\ [Next]_vars => AcceptedInv'
    BY ConstantsOK, NextType, NextTracking, InFlightStep, OnlyClientIdsStep, AcceptedStep
       DEF AcceptedInv
  <1>3. AcceptedInv => DecisionsWereAccepted
    BY DEF AcceptedInv
  <1>. QED BY <1>1, <1>2, <1>3, PTL DEF Spec
=============================================================================
