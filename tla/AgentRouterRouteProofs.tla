------------------------ MODULE AgentRouterRouteProofs ------------------------
(***************************************************************************)
(* Routes and calibration of AgentRouter: what App Server executes is what *)
(* is logged, a pin is what a follow-up turn carries, what the command     *)
(* line fixes no client message moves, and a stored offset was earned.     *)
(***************************************************************************)
EXTENDS AgentRouterProofs, FiniteSetTheorems

USE DEF OptModel, OptLevel, OptTier

-----------------------------------------------------------------------------
(* A tracked turn and the request it was sent with *)

\* Request r asks for what p will pin and log.
Agrees(p, r) ==
    /\ r.model = p.preset.model
    /\ r.effort \in {None, p.preset.effort}
    /\ r.effort = None => p.source = "native"

RoutesAgree == \A i \in Ids : pending[i] # None => Agrees(pending[i], sent[i])

\* A step that tracks no new turn leaves every tracked turn with its request.
LEMMA NothingTracked ==
    ASSUME TypeOK, TrackedOnlyInFlight, RoutesAgree, Tracking,
           \A i \in Ids : pending'[i] \in {None, pending[i]}
    PROVE  RoutesAgree'
  <1> SUFFICES ASSUME NEW i \in Ids, pending'[i] # None
               PROVE  Agrees(pending'[i], sent'[i])
    BY DEF RoutesAgree
  <1>1. pending'[i] = pending[i] /\ pending[i] # None
    OBVIOUS
  <1>2. sent[i] # None /\ resumes[i] = None
    BY <1>1 DEF TrackedOnlyInFlight
  <1>3. i \in DOMAIN sent /\ i \in DOMAIN pending
    BY DEF TypeOK
  <1>4. sent'[i] = sent[i]
    <2>1. CASE UNCHANGED <<pending, resumes, sent, decisions>>
      BY <2>1
    <2>2. ASSUME NEW j \in Ids, NEW r \in Request, Sends(j, r) PROVE sent'[i] = sent[i]
      BY <1>2, <1>3, <2>2 DEF Sends
    <2>3. ASSUME NEW j \in Ids, Untracks(j), sent' = [sent EXCEPT ![j] = None]
          PROVE  sent'[i] = sent[i]
      <3>1. j # i
        BY <1>1, <1>2, <1>3, <2>3 DEF Untracks
      <3>. QED BY <1>3, <2>3, <3>1
    <2>4. CASE UNCHANGED sent
      BY <2>4
    <2>. QED BY <2>1, <2>2, <2>3, <2>4 DEF Tracking
  <1>. QED BY <1>1, <1>4 DEF RoutesAgree

\* The one handler that tracks a turn forwards the route it will log.
LEMMA FirstTurnAgrees ==
    ASSUME TypeOK, RoutesAgree, NEW i \in Ids, NEW t \in Threads,
           NEW model \in OptModel, NEW effort \in OptLevel, NEW tier \in TierKeys,
           NEW keepNative \in BOOLEAN, NEW cwdChanged \in BOOLEAN,
           ClientFirstTurn(i, t, model, effort, tier, keepNative, cwdChanged)
    PROVE  RoutesAgree'
  <1>1. ASSUME NEW preset, NEW source, NEW route,
               pending' = [pending EXCEPT ![i] =
                              [thread |-> t, preset |-> preset, source |-> source]],
               Forward(i, "turn", t, route),
               route.model = preset.model, route.effort \in {None, preset.effort},
               route.effort = None => source = "native"
        PROVE  RoutesAgree'
    <2> DEFINE p == [thread |-> t, preset |-> preset, source |-> source]
               r == [kind |-> "turn", thread |-> t, model |-> route.model,
                     effort |-> route.effort, tier |-> route.tier]
    <2>1. pending'[i] = p /\ \A j \in Ids \ {i} : pending'[j] = pending[j]
      BY <1>1 DEF TypeOK
    <2>2. sent'[i] = r /\ \A j \in Ids \ {i} : sent'[j] = sent[j]
      BY <1>1 DEF Forward, TypeOK
    <2>3. Agrees(p, r)
      BY <1>1 DEF Agrees
    <2> HIDE DEF p, r
    <2>. QED BY <2>1, <2>2, <2>3 DEF RoutesAgree
  <1>2. CASE (keepNative \/ cwdChanged) /\ model # None
    <2>1. PICK preset \in NativePreset(model, effort, tier) :
            /\ pending' = [pending EXCEPT ![i] =
                              [thread |-> t, preset |-> preset, source |-> "native"]]
            /\ Forward(i, "turn", t, Route(model, effort, tier))
      BY <1>2 DEF ClientFirstTurn
    <2>2. preset.model = model /\ effort \in {None, preset.effort}
      BY <2>1 DEF NativePreset
    <2>3. Route(model, effort, tier).model = model /\ Route(model, effort, tier).effort = effort
      BY DEF Route
    <2>. QED BY <1>1, <2>1, <2>2, <2>3
  <1>3. CASE ~((keepNative \/ cwdChanged) /\ model # None)
    <2>1. PICK preset \in Preset, source \in RouteSources :
            /\ pending' = [pending EXCEPT ![i] =
                              [thread |-> t, preset |-> preset, source |-> source]]
            /\ Forward(i, "turn", t,
                   RewriteTurnParams(preset.model, preset.effort, preset.tier, tier))
      BY <1>3 DEF ClientFirstTurn, Presets, RouteSources
    <2> DEFINE route == RewriteTurnParams(preset.model, preset.effort, preset.tier, tier)
    <2>2. route.model = preset.model /\ route.effort = preset.effort
      BY DEF RewriteTurnParams, Route
    <2>3. preset.effort # None
      BY ConstantsOK DEF Preset, ConstantsOK
    <2> HIDE DEF route
    <2>. QED BY <1>1, <2>1, <2>2, <2>3 DEF route
  <1>. QED BY <1>2, <1>3

LEMMA RoutesAgreeStep ==
    ASSUME ConstantsOK, TypeOK, TrackedOnlyInFlight, RoutesAgree, [Next]_vars
    PROVE  RoutesAgree'
  <1>0. Tracking
    BY NextTracking
  <1>1. ASSUME UNCHANGED pending PROVE RoutesAgree'
    BY <1>0, <1>1, NothingTracked
  <1>2. ASSUME NEW i \in Ids, NEW t \in Threads, TurnStart(i, t) PROVE RoutesAgree'
    <2>1. PICK model \in OptModel, effort \in OptLevel, tier \in TierKeys :
            \/ \E remark \in Remarks : ClientFollowUp(i, t, remark, model, effort, tier)
            \/ ClientUnclassified(i, t, model, effort, tier)
            \/ \E keepNative, cwdChanged \in BOOLEAN :
                  ClientFirstTurn(i, t, model, effort, tier, keepNative, cwdChanged)
            \/ ClientFirstTurnFails(i, t, model, effort, tier)
      BY <1>2 DEF TurnStart
    <2>2. ASSUME NEW remark, ClientFollowUp(i, t, remark, model, effort, tier)
          PROVE  UNCHANGED pending
      BY <2>2 DEF ClientFollowUp
    <2>3. ClientUnclassified(i, t, model, effort, tier) => UNCHANGED pending
      BY DEF ClientUnclassified
    <2>4. ClientFirstTurnFails(i, t, model, effort, tier) => UNCHANGED pending
      BY DEF ClientFirstTurnFails
    <2>5. CASE \E keepNative, cwdChanged \in BOOLEAN :
                  ClientFirstTurn(i, t, model, effort, tier, keepNative, cwdChanged)
      BY <2>5, FirstTurnAgrees
    <2>. QED BY <1>1, <2>1, <2>2, <2>3, <2>4, <2>5
  <1>3. ASSUME NEW k \in Ids \cup ServerIds, NEW isAnswer, NEW isError, NEW result,
               ServerMessage(k, isAnswer, isError, result)
        PROVE  RoutesAgree'
    <2>1. Untracks(k)
      BY <1>3, ServerMessageUntracks
    <2>2. \A i \in Ids : pending'[i] \in {None, pending[i]}
      BY <2>1 DEF Untracks, TypeOK
    <2>. QED BY <1>0, <2>2, NothingTracked
  <1>4. ASSUME NEW i \in Ids, NEW isError, NEW result, RelayAnswer(i, isError, result)
        PROVE  RoutesAgree'
    BY <1>3, <1>4 DEF RelayAnswer
  <1>5. ASSUME NEW k \in ServerIds, RelayServerRequest(k) PROVE RoutesAgree'
    BY <1>3, <1>5 DEF RelayServerRequest
  <1>6. ASSUME NEW i \in Ids, NEW t \in Threads, ClientResume(i, t) PROVE RoutesAgree'
    BY <1>1, <1>6 DEF ClientResume
  <1>7. ASSUME NEW t \in Threads, NEW model, NEW effort, NEW tier,
               ClientSettings(t, model, effort, tier)
        PROVE  RoutesAgree'
    BY <1>1, <1>7 DEF ClientSettings
  <1>8. CASE UNCHANGED vars
    BY <1>1, <1>8 DEF vars
  <1>. QED BY <1>2, <1>4, <1>5, <1>6, <1>7, <1>8 DEF Next

\* While a routed turn awaits its answer, the request App Server has under that
\* id asks for exactly the route that its acceptance will pin and log.
THEOREM LoggedRoutesWereSent == Spec => []LoggedRouteIsSentRoute
  <1> DEFINE Inv == TypeOK /\ TrackedOnlyInFlight /\ RoutesAgree
  <1>1. Init => Inv
    <2>1. Init => TypeOK
      BY ConstantsOK, InitType
    <2>2. Init => TrackedOnlyInFlight /\ RoutesAgree
      BY DEF Init, TrackedOnlyInFlight, RoutesAgree
    <2>. QED BY <2>1, <2>2
  <1>2. Inv /\ [Next]_vars => Inv'
    BY ConstantsOK, NextType, NextTracking, InFlightStep, RoutesAgreeStep
  <1>3. Inv => LoggedRouteIsSentRoute
    BY DEF RoutesAgree, Agrees, LoggedRouteIsSentRoute
  <1>. QED BY <1>1, <1>2, <1>3, PTL DEF Spec

-----------------------------------------------------------------------------
(* The pin and what client messages may do *)

LEMMA FollowUpCarriesPin ==
    ASSUME TypeOK, NEW i \in Ids, NEW t \in Threads, NEW remark, NEW model, NEW effort, NEW tier,
           ClientFollowUp(i, t, remark, model, effort, tier)
    PROVE  /\ sent'[i].thread = t
           /\ threads'[t].model # None =>
                 /\ sent'[i].model = threads'[t].model
                 /\ sent'[i].effort = threads'[t].effort
  <1> DEFINE pin == KeptPin(threads[t], model, effort, tier)
             kind == FollowUpFeedback(threads[t], remark, model, effort)
  <1>1. RecordFeedback(t, pin, kind)
    BY DEF ClientFollowUp
  <1>2. "model" \in DOMAIN pin /\ "effort" \in DOMAIN pin
    BY DEF KeptPin, TypeOK, ThreadState
  <1>3. Forward(i, "turn", t, IF pin.model # None
                              THEN RewriteTurnParams(pin.model, pin.effort, pin.tier, tier)
                              ELSE Route(model, effort, tier))
    BY DEF ClientFollowUp
  <1> HIDE DEF pin, kind
  <1>4. threads' \in {[threads EXCEPT ![t] = pin],
                      [threads EXCEPT ![t] = [pin EXCEPT !.recorded = TRUE]]}
    BY <1>1 DEF RecordFeedback
  <1>5. threads'[t] \in {pin, [pin EXCEPT !.recorded = TRUE]}
    BY <1>4 DEF TypeOK
  <1>6. threads'[t].model = pin.model /\ threads'[t].effort = pin.effort
    BY <1>2, <1>5
  <1>7. sent'[i].thread = t
    BY <1>3 DEF Forward, TypeOK
  <1>8. ASSUME pin.model # None
        PROVE  sent'[i].model = pin.model /\ sent'[i].effort = pin.effort
    BY <1>3, <1>8 DEF Forward, RewriteTurnParams, Route, TypeOK
  <1>. QED BY <1>6, <1>7, <1>8

\* Only a follow-up is sent on a thread that already has a pin.
LEMMA PinnedTurnIsFollowUp ==
    ASSUME TypeOK, Next, NEW i \in Ids, sent[i] = None, sent'[i] # None,
           sent'[i].kind = "turn", threads[sent'[i].thread].init
    PROVE  \E t \in Threads, remark \in Remarks, model \in OptModel, effort \in OptLevel,
               tier \in TierKeys :
              ClientFollowUp(i, t, remark, model, effort, tier)
  <1>1. ASSUME NEW j \in Ids, NEW t, NEW kind, NEW route, Forward(j, kind, t, route)
        PROVE  i = j /\ sent'[i].kind = kind /\ sent'[i].thread = t
    BY <1>1 DEF Forward, TypeOK
  <1>2. ASSUME NEW j \in Ids, NEW t \in Threads, ClientResume(j, t) PROVE FALSE
    BY <1>1, <1>2 DEF ClientResume
  <1>3. ASSUME NEW j \in Ids, NEW t \in Threads, TurnStart(j, t)
        PROVE  \E remark \in Remarks, model \in OptModel, effort \in OptLevel, tier \in TierKeys :
                  ClientFollowUp(i, t, remark, model, effort, tier)
    <2>1. PICK model \in OptModel, effort \in OptLevel, tier \in TierKeys :
            \/ \E remark \in Remarks : ClientFollowUp(j, t, remark, model, effort, tier)
            \/ ClientUnclassified(j, t, model, effort, tier)
            \/ \E keepNative, cwdChanged \in BOOLEAN :
                  ClientFirstTurn(j, t, model, effort, tier, keepNative, cwdChanged)
            \/ ClientFirstTurnFails(j, t, model, effort, tier)
      BY <1>3 DEF TurnStart
    <2>2. ASSUME NEW route, Forward(j, "turn", t, route) PROVE i = j /\ ~NeedsRoute(t)
      BY <1>1, <2>2 DEF NeedsRoute
    <2>3. ClientUnclassified(j, t, model, effort, tier) => FALSE
      BY <2>2 DEF ClientUnclassified
    <2>4. ClientFirstTurnFails(j, t, model, effort, tier) => FALSE
      BY <2>2 DEF ClientFirstTurnFails
    <2>5. ASSUME NEW keepNative, NEW cwdChanged,
                 ClientFirstTurn(j, t, model, effort, tier, keepNative, cwdChanged)
          PROVE  FALSE
      BY <2>2, <2>5 DEF ClientFirstTurn
    <2>6. PICK remark \in Remarks : ClientFollowUp(j, t, remark, model, effort, tier)
      BY <2>1, <2>3, <2>4, <2>5
    <2>7. i = j
      BY <2>2, <2>6 DEF ClientFollowUp
    <2>. QED BY <2>6, <2>7
  <1>4. ASSUME NEW j \in Ids, NEW isError, NEW result, RelayAnswer(j, isError, result)
        PROVE  FALSE
    BY <1>4 DEF RelayAnswer, TypeOK
  <1>5. ASSUME NEW k, RelayServerRequest(k) PROVE FALSE
    BY <1>5 DEF RelayServerRequest
  <1>6. ASSUME NEW t, NEW model, NEW effort, NEW tier, ClientSettings(t, model, effort, tier)
        PROVE  FALSE
    BY <1>6 DEF ClientSettings
  <1>. QED BY <1>2, <1>3, <1>4, <1>5, <1>6 DEF Next

\* A turn on a thread whose pin names a model reaches App Server with the pinned
\* model and effort, for every command line and whatever the client asked for.
THEOREM FollowUpsCarryThePin == Spec => FollowUpsCarryPin
  <1>1. ASSUME TypeOK, [Next]_vars, NEW i \in Ids, sent[i] = None, sent'[i] # None,
               sent'[i].kind = "turn", threads[sent'[i].thread].init,
               threads'[sent'[i].thread].model # None
        PROVE  /\ sent'[i].model = threads'[sent'[i].thread].model
               /\ sent'[i].effort = threads'[sent'[i].thread].effort
    <2>1. Next
      BY <1>1 DEF vars
    <2>2. PICK t \in Threads, remark \in Remarks, model \in OptModel, effort \in OptLevel,
               tier \in TierKeys :
             ClientFollowUp(i, t, remark, model, effort, tier)
      BY <1>1, <2>1, PinnedTurnIsFollowUp
    <2>. QED BY <1>1, <2>2, FollowUpCarriesPin
  <1>2. TypeOK /\ [Next]_vars =>
           [\A i \in Ids :
              (sent[i] = None /\ sent'[i] # None) =>
                LET r == sent'[i] IN
                (r.kind = "turn" /\ threads[r.thread].init /\ threads'[r.thread].model # None) =>
                   /\ r.model = threads'[r.thread].model
                   /\ r.effort = threads'[r.thread].effort]_vars
    BY <1>1
  <1>. QED BY <1>2, TypeCorrect, PTL DEF Spec, FollowUpsCarryPin

\* Nothing of thread t's pin that the command line fixes moves in this step.
PinStays(t) ==
    /\ ModelPinned => threads'[t].model = threads[t].model
    /\ EffortPinned => threads'[t].effort = threads[t].effort
    /\ TierPinned /\ sent' # sent => threads'[t].tier = threads[t].tier

\* Recording feedback leaves the route of the new pin alone.
LEMMA RecordedPinRoute ==
    ASSUME TypeOK, NEW u \in Threads, NEW s \in ThreadState, NEW kind,
           RecordFeedback(u, s, kind)
    PROVE  /\ \A t \in Threads \ {u} : threads'[t] = threads[t]
           /\ threads'[u].model = s.model
           /\ threads'[u].effort = s.effort
           /\ threads'[u].tier = s.tier
  <1>1. threads' \in {[threads EXCEPT ![u] = s],
                      [threads EXCEPT ![u] = [s EXCEPT !.recorded = TRUE]]}
    BY DEF RecordFeedback
  <1>2. threads'[u] \in {s, [s EXCEPT !.recorded = TRUE]}
    BY <1>1 DEF TypeOK
  <1>3. \A t \in Threads \ {u} : threads'[t] = threads[t]
    BY <1>1 DEF TypeOK
  <1>4. /\ threads'[u].model = s.model
        /\ threads'[u].effort = s.effort
        /\ threads'[u].tier = s.tier
    BY <1>2 DEF ThreadState
  <1>. QED BY <1>3, <1>4

LEMMA SettingsKeepCommandLinePin ==
    ASSUME TypeOK, NEW u \in Threads, NEW model \in OptModel, NEW effort \in OptLevel,
           NEW tier \in TierKeys, ClientSettings(u, model, effort, tier),
           NEW t \in Threads, threads[t].init
    PROVE  PinStays(t)
  <1> DEFINE m == UnpinnedModel(model)
             e == UnpinnedEffort(effort)
             s == threads[u]
             deferred == [s EXCEPT !.next = [model |-> m, effort |-> e]]
             new == IF s.init THEN ExplicitPin(s, m, e, tier) ELSE deferred
  <1>1. /\ m \in OptModel /\ e \in OptLevel /\ s \in ThreadState
        /\ ModelPinned => m = None
        /\ EffortPinned => e = None
    BY UnpinnedTypes DEF TypeOK, UnpinnedModel, UnpinnedEffort
  <1>2. RecordFeedback(u, new, SettingsFeedback(s, m, e)) /\ UNCHANGED sent
    BY DEF ClientSettings
  <1>3. /\ ModelPinned => ExplicitPin(s, m, e, tier).model = s.model
        /\ EffortPinned => ExplicitPin(s, m, e, tier).effort = s.effort
        /\ ExplicitPin(s, m, e, tier) \in ThreadState
    <2>1. ExplicitPin(s, m, e, tier) \in ThreadState
      BY <1>1, ConstantsOK, ExplicitPinType
    <2> HIDE DEF m, e
    <2>2. /\ ExplicitPin(s, m, e, tier).model = OrElse(m, s.model)
          /\ ExplicitPin(s, m, e, tier).effort = OrElse(e, s.effort)
      BY <1>1 DEF ExplicitPin, ThreadState
    <2>. QED BY <1>1, <2>1, <2>2 DEF OrElse
  <1>4. deferred \in ThreadState
    BY <1>1 DEF ThreadState, DeferredRoute
  <1>5. new \in ThreadState
    BY <1>3, <1>4
  <1>6. t = u => new = ExplicitPin(s, m, e, tier)
    OBVIOUS
  <1> HIDE DEF new, deferred
  <1>7. /\ \A v \in Threads \ {u} : threads'[v] = threads[v]
        /\ threads'[u].model = new.model
        /\ threads'[u].effort = new.effort
    BY <1>2, <1>5, RecordedPinRoute
  <1>. QED BY <1>2, <1>3, <1>6, <1>7 DEF PinStays

LEMMA FollowUpKeepsCommandLinePin ==
    ASSUME TypeOK, NEW i \in Ids, NEW u \in Threads, NEW remark, NEW model \in OptModel,
           NEW effort \in OptLevel, NEW tier \in TierKeys,
           ClientFollowUp(i, u, remark, model, effort, tier), NEW t \in Threads
    PROVE  PinStays(t)
  <1> DEFINE s == threads[u]
             pin == KeptPin(s, model, effort, tier)
             kind == FollowUpFeedback(s, remark, model, effort)
  <1>1. RecordFeedback(u, pin, kind)
    BY DEF ClientFollowUp
  <1>2. s \in ThreadState /\ pin \in ThreadState
    BY ConstantsOK, KeptPinType DEF TypeOK
  <1>3. /\ ModelPinned => ChangedModel(s, model) = None
        /\ EffortPinned => ChangedEffort(s, effort) = None
    BY DEF ChangedModel, ChangedEffort, UnpinnedModel, UnpinnedEffort
  <1>4. /\ pin.model = OrElse(ChangedModel(s, model), s.model)
        /\ pin.effort = OrElse(ChangedEffort(s, effort), s.effort)
        /\ TierPinned => pin.tier = s.tier
    BY <1>2 DEF KeptPin, ThreadState
  <1> HIDE DEF pin, kind
  <1>5. /\ \A v \in Threads \ {u} : threads'[v] = threads[v]
        /\ threads'[u].model = pin.model
        /\ threads'[u].effort = pin.effort
        /\ threads'[u].tier = pin.tier
    BY <1>1, <1>2, RecordedPinRoute
  <1>. QED BY <1>3, <1>4, <1>5 DEF PinStays, OrElse

\* A message of App Server that changes a pin also unties a key of the maps.
LEMMA ServerMessageIsSeen ==
    ASSUME TypeOK, NEW k \in Ids \cup ServerIds, NEW isAnswer, NEW isError, NEW result,
           ServerMessage(k, isAnswer, isError, result),
           UNCHANGED <<pending, resumes>>
    PROVE  UNCHANGED threads
  <1>1. resumes[k] = None /\ pending[k] = None
    BY DEF ServerMessage, CommitTurn, TypeOK
  <1>. QED BY <1>1 DEF ServerMessage

LEMMA CommandLinePinStep ==
    ASSUME TypeOK, [Next]_vars, ~ServerSpoke, NEW t \in Threads, threads[t].init
    PROVE  PinStays(t)
  <1>0. UNCHANGED threads => PinStays(t)
    BY DEF PinStays
  <1>1. ASSUME NEW i \in Ids, NEW u \in Threads, ClientResume(i, u) PROVE PinStays(t)
    BY <1>0, <1>1 DEF ClientResume
  <1>2. ASSUME NEW u \in Threads, NeedsRoute(u), NEW s, threads' = [threads EXCEPT ![u] = s]
        PROVE  PinStays(t)
    <2>1. threads'[t] = threads[t]
      BY <1>2 DEF NeedsRoute, TypeOK
    <2>. QED BY <2>1 DEF PinStays
  <1>3. ASSUME NEW i \in Ids, NEW u \in Threads, TurnStart(i, u) PROVE PinStays(t)
    <2>1. PICK model \in OptModel, effort \in OptLevel, tier \in TierKeys :
            \/ \E remark \in Remarks : ClientFollowUp(i, u, remark, model, effort, tier)
            \/ ClientUnclassified(i, u, model, effort, tier)
            \/ \E keepNative, cwdChanged \in BOOLEAN :
                  ClientFirstTurn(i, u, model, effort, tier, keepNative, cwdChanged)
            \/ ClientFirstTurnFails(i, u, model, effort, tier)
      BY <1>3 DEF TurnStart
    <2>2. CASE \E remark \in Remarks : ClientFollowUp(i, u, remark, model, effort, tier)
      BY <2>2, FollowUpKeepsCommandLinePin
    <2>3. CASE ClientUnclassified(i, u, model, effort, tier)
      BY <1>2, <2>3 DEF ClientUnclassified
    <2>4. CASE \E keepNative, cwdChanged \in BOOLEAN :
                  ClientFirstTurn(i, u, model, effort, tier, keepNative, cwdChanged)
      BY <1>2, <2>4 DEF ClientFirstTurn
    <2>5. CASE ClientFirstTurnFails(i, u, model, effort, tier)
      BY <1>2, <2>5 DEF ClientFirstTurnFails
    <2>. QED BY <2>1, <2>2, <2>3, <2>4, <2>5
  <1>4. CASE \E u \in Threads, model \in OptModel, effort \in OptLevel, tier \in TierKeys :
                ClientSettings(u, model, effort, tier)
    BY <1>4, SettingsKeepCommandLinePin
  <1>5. ASSUME NEW i \in Ids, NEW isError, NEW result, RelayAnswer(i, isError, result)
        PROVE  FALSE
    <2>1. sent[i] # None /\ sent'[i] = None
      BY <1>5 DEF RelayAnswer, TypeOK
    <2>. QED BY <2>1 DEF ServerSpoke
  <1>6. ASSUME NEW k \in ServerIds, RelayServerRequest(k) PROVE PinStays(t)
    <2>1. UNCHANGED <<pending, resumes>>
      BY <1>6 DEF RelayServerRequest, ServerSpoke
    <2>. QED BY <1>0, <1>6, <2>1, ServerMessageIsSeen DEF RelayServerRequest
  <1>7. CASE UNCHANGED vars
    BY <1>0, <1>7 DEF vars
  <1>. QED BY <1>1, <1>3, <1>4, <1>5, <1>6, <1>7 DEF Next

\* What the command line fixes stays in a pin whatever a client sends: only an
\* answer or a request of App Server can move it.
THEOREM CommandLinePinsHold == Spec => CommandLinePinIgnoresClient
  <1>1. TypeOK /\ [Next]_vars =>
           [\A t \in Threads : threads[t].init /\ ~ServerSpoke =>
              /\ ModelPinned => threads'[t].model = threads[t].model
              /\ EffortPinned => threads'[t].effort = threads[t].effort
              /\ TierPinned /\ sent' # sent => threads'[t].tier = threads[t].tier]_vars
    BY CommandLinePinStep DEF PinStays
  <1>. QED BY <1>1, TypeCorrect, PTL DEF Spec, CommandLinePinIgnoresClient

-----------------------------------------------------------------------------
(* The stored offset was earned *)

\* CalibrationEarned read over an explicit log, so that a step can be said to
\* extend it: the first n events of one kind that may teach, and the counts.
Taught(ds, fb, n, kind) ==
    {f \in 1..n : fb[f].kind = kind /\ ds[fb[f].decision].source # "native"}
EventsAt(ds, fb, n, kind) == prior[kind] + Cardinality(Taught(ds, fb, n, kind))
TotalAt(ds, fb, n) ==
    EventsAt(ds, fb, n, "right") + EventsAt(ds, fb, n, "overkill")
        + EventsAt(ds, fb, n, "underpowered")
EarnedBy(ds, fb, kind) ==
    \E n \in 0..Len(fb) :
        TotalAt(ds, fb, n) >= 3 /\ 10 * EventsAt(ds, fb, n, kind) >= 7 * TotalAt(ds, fb, n)
OffsetEarned(ds, fb, offset) ==
    /\ offset > 0 => EarnedBy(ds, fb, "underpowered")
    /\ offset < 0 => EarnedBy(ds, fb, "overkill")

\* Every decision this program logs is a routed turn of the agent.
AgentDecisions == \A d \in DOMAIN decisions : decisions[d].mode = "agent"

LEMMA CalibrationEarnedMeans == CalibrationEarned <=> OffsetEarned(decisions, feedback, calibration)
  BY DEF CalibrationEarned, OffsetEarned, EarnedBy, TotalAt, EventsAt, Taught

LEMMA EventsType ==
    ASSUME TypeOK, NEW ds, NEW fb, NEW n \in Nat, NEW kind \in FeedbackKinds
    PROVE  /\ EventsAt(ds, fb, n, kind) \in Nat
           /\ Cardinality(Taught(ds, fb, n, kind)) \in Nat
  <1>1. IsFiniteSet(1..n)
    BY FS_Interval
  <1>2. Taught(ds, fb, n, kind) \subseteq 1..n
    BY DEF Taught
  <1>3. IsFiniteSet(Taught(ds, fb, n, kind))
    BY <1>1, <1>2, FS_Subset
  <1>4. Cardinality(Taught(ds, fb, n, kind)) \in Nat
    BY <1>3, FS_CardinalityType
  <1>5. prior[kind] \in Nat
    BY DEF TypeOK, Counts
  <1>. QED BY <1>4, <1>5 DEF EventsAt

\* What the code counts over the whole log is what CalibrationEarned counts at
\* its end: the join drops nothing but preserved routes.
LEMMA CountsAreEvents ==
    ASSUME TypeOK, NEW ds, NEW fb \in Seq(Feedback), NEW kind \in FeedbackKinds,
           \A f \in DOMAIN fb : fb[f].decision \in DOMAIN ds,
           \A d \in DOMAIN ds : ds[d].mode = "agent"
    PROVE  AddCounts(prior, CountFeedback(ds, fb))[kind] = EventsAt(ds, fb, Len(fb), kind)
  <1> DEFINE counted == {f \in DOMAIN fb : /\ fb[f].kind = kind
                                           /\ fb[f].decision \in DOMAIN ds
                                           /\ Teaches(ds[fb[f].decision])}
  <1>1. DOMAIN fb = 1..Len(fb)
    OBVIOUS
  <1>2. counted = Taught(ds, fb, Len(fb), kind)
    BY <1>1 DEF Taught, Teaches
  <1>3. CountFeedback(ds, fb)[kind] = Cardinality(counted)
    BY DEF CountFeedback
  <1> HIDE DEF counted
  <1>. QED BY <1>2, <1>3 DEF AddCounts, EventsAt

LEMMA RecommendationIsEarned ==
    ASSUME TypeOK, NEW ds, NEW fb \in Seq(Feedback),
           \A f \in DOMAIN fb : fb[f].decision \in DOMAIN ds,
           \A d \in DOMAIN ds : ds[d].mode = "agent"
    PROVE  OffsetEarned(ds, fb, Recommendation(AddCounts(prior, CountFeedback(ds, fb))))
  <1> DEFINE c == AddCounts(prior, CountFeedback(ds, fb))
             total == TotalAt(ds, fb, Len(fb))
  <1>1. Len(fb) \in Nat
    OBVIOUS
  <1>2. \A kind \in FeedbackKinds : c[kind] = EventsAt(ds, fb, Len(fb), kind) /\ c[kind] \in Nat
    BY <1>1, CountsAreEvents, EventsType
  <1>3. "right" \in FeedbackKinds /\ "overkill" \in FeedbackKinds /\ "underpowered" \in FeedbackKinds
    BY DEF FeedbackKinds
  <1> HIDE DEF c
  <1>4. /\ c["right"] \in Nat /\ c["overkill"] \in Nat /\ c["underpowered"] \in Nat
        /\ c["overkill"] = EventsAt(ds, fb, Len(fb), "overkill")
        /\ c["underpowered"] = EventsAt(ds, fb, Len(fb), "underpowered")
        /\ c["right"] = EventsAt(ds, fb, Len(fb), "right")
    BY <1>2, <1>3
  <1>5. EligibleTotal(c) = total /\ total \in Nat
    BY <1>4 DEF EligibleTotal, TotalAt
  <1> HIDE DEF total
  <1>6. ASSUME Recommendation(c) > 0 PROVE total >= 3 /\ 10 * c["underpowered"] >= 7 * total
    BY <1>4, <1>5, <1>6 DEF Recommendation, RecommendedOffset
  <1>7. ASSUME Recommendation(c) < 0 PROVE total >= 3 /\ 10 * c["overkill"] >= 7 * total
    BY <1>4, <1>5, <1>7 DEF Recommendation, RecommendedOffset
  <1>8. Len(fb) \in 0..Len(fb)
    BY <1>1
  <1>9. Recommendation(c) > 0 => EarnedBy(ds, fb, "underpowered")
    BY <1>4, <1>6, <1>8 DEF EarnedBy, total
  <1>10. Recommendation(c) < 0 => EarnedBy(ds, fb, "overkill")
    BY <1>4, <1>7, <1>8 DEF EarnedBy, total
  <1>. QED BY <1>9, <1>10 DEF OffsetEarned, c

\* What was earned stays earned when either log grows.
LEMMA EarnedStays ==
    ASSUME NEW ds, NEW fb \in Seq(Feedback), NEW ds2, NEW fb2 \in Seq(Feedback), NEW offset,
           \A f \in DOMAIN fb : fb[f].decision \in DOMAIN ds,
           \A d \in DOMAIN ds : ds2[d] = ds[d],
           Len(fb) <= Len(fb2), \A f \in DOMAIN fb : fb2[f] = fb[f],
           OffsetEarned(ds, fb, offset)
    PROVE  OffsetEarned(ds2, fb2, offset)
  <1>1. ASSUME NEW n \in 0..Len(fb), NEW kind
        PROVE  EventsAt(ds2, fb2, n, kind) = EventsAt(ds, fb, n, kind)
    <2>1. \A f \in 1..n : f \in DOMAIN fb
      OBVIOUS
    <2>2. Taught(ds2, fb2, n, kind) = Taught(ds, fb, n, kind)
      BY <2>1 DEF Taught
    <2>. QED BY <2>2 DEF EventsAt
  <1>2. ASSUME NEW kind, EarnedBy(ds, fb, kind) PROVE EarnedBy(ds2, fb2, kind)
    <2>1. PICK n \in 0..Len(fb) :
             TotalAt(ds, fb, n) >= 3 /\ 10 * EventsAt(ds, fb, n, kind) >= 7 * TotalAt(ds, fb, n)
      BY <1>2 DEF EarnedBy
    <2>2. n \in 0..Len(fb2)
      OBVIOUS
    <2>3. TotalAt(ds2, fb2, n) = TotalAt(ds, fb, n)
      BY <1>1 DEF TotalAt
    <2>4. EventsAt(ds2, fb2, n, kind) = EventsAt(ds, fb, n, kind)
      BY <1>1
    <2>. QED BY <2>1, <2>2, <2>3, <2>4 DEF EarnedBy
  <1>. QED BY <1>2 DEF OffsetEarned

\* What a step may do to the stored offset.
OffsetEffect ==
    /\ UNCHANGED prior
    /\ \/ UNCHANGED calibration
       \/ /\ UNCHANGED decisions
          /\ calibration' = SavedOffset(calibration,
                 Recommendation(AddCounts(prior, CountFeedback(decisions, feedback'))))

LEMMA NextOffset == [Next]_vars => OffsetEffect
  <1> SUFFICES ASSUME [Next]_vars PROVE OffsetEffect
    OBVIOUS
  <1>1. ASSUME NEW t, NEW s, NEW kind, RecordFeedback(t, s, kind), UNCHANGED <<decisions, prior>>
        PROVE  OffsetEffect
    BY <1>1 DEF RecordFeedback, OffsetEffect
  <1>2. ASSUME UNCHANGED <<calibration, prior>> PROVE OffsetEffect
    BY <1>2 DEF OffsetEffect
  <1>3. ASSUME NEW i \in Ids, NEW t \in Threads, TurnStart(i, t) PROVE OffsetEffect
    <2>1. ASSUME NEW remark, NEW model, NEW effort, NEW tier,
                 ClientFollowUp(i, t, remark, model, effort, tier)
          PROVE  OffsetEffect
      BY <1>1, <2>1 DEF ClientFollowUp
    <2>2. ASSUME NEW model, NEW effort, NEW tier, ClientUnclassified(i, t, model, effort, tier)
          PROVE  OffsetEffect
      BY <1>2, <2>2 DEF ClientUnclassified
    <2>3. ASSUME NEW model, NEW effort, NEW tier, NEW keepNative, NEW cwdChanged,
                 ClientFirstTurn(i, t, model, effort, tier, keepNative, cwdChanged)
          PROVE  OffsetEffect
      BY <1>2, <2>3 DEF ClientFirstTurn
    <2>4. ASSUME NEW model, NEW effort, NEW tier, ClientFirstTurnFails(i, t, model, effort, tier)
          PROVE  OffsetEffect
      BY <1>2, <2>4 DEF ClientFirstTurnFails
    <2>. QED BY <1>3, <2>1, <2>2, <2>3, <2>4 DEF TurnStart
  <1>4. ASSUME NEW t, NEW model, NEW effort, NEW tier, ClientSettings(t, model, effort, tier)
        PROVE  OffsetEffect
    BY <1>1, <1>4 DEF ClientSettings
  <1>5. ASSUME NEW i, NEW t, ClientResume(i, t) PROVE OffsetEffect
    BY <1>2, <1>5 DEF ClientResume
  <1>6. ASSUME NEW i, NEW isError, NEW result, RelayAnswer(i, isError, result)
        PROVE  OffsetEffect
    BY <1>2, <1>6 DEF RelayAnswer
  <1>7. ASSUME NEW k, RelayServerRequest(k) PROVE OffsetEffect
    BY <1>2, <1>7 DEF RelayServerRequest
  <1>8. CASE UNCHANGED vars
    BY <1>2, <1>8 DEF vars
  <1>. QED BY <1>3, <1>4, <1>5, <1>6, <1>7, <1>8 DEF Next

\* Both logs only grow, and only by decisions of the agent.
LEMMA LogsGrow ==
    ASSUME TypeOK, TypeOK', Effect, AgentDecisions
    PROVE  /\ \A d \in DOMAIN decisions : d \in DOMAIN decisions' /\ decisions'[d] = decisions[d]
           /\ Len(feedback) <= Len(feedback')
           /\ \A f \in DOMAIN feedback : feedback'[f] = feedback[f]
           /\ AgentDecisions'
  <1>1. decisions \in Seq(Decision) /\ feedback \in Seq(Feedback)
    BY DEF TypeOK
  <1>2. CASE UNCHANGED <<decisions, feedback>>
    BY <1>1, <1>2 DEF AgentDecisions
  <1>3. ASSUME NEW event, UNCHANGED decisions, feedback' = Append(feedback, event)
        PROVE  /\ Len(feedback) <= Len(feedback')
               /\ \A f \in DOMAIN feedback : feedback'[f] = feedback[f]
               /\ AgentDecisions'
    BY <1>1, <1>3 DEF AgentDecisions
  <1>4. ASSUME NEW rec, rec.mode = "agent", UNCHANGED feedback, decisions' = Append(decisions, rec)
        PROVE  /\ \A d \in DOMAIN decisions :
                      d \in DOMAIN decisions' /\ decisions'[d] = decisions[d]
               /\ AgentDecisions'
    BY <1>1, <1>4 DEF AgentDecisions
  <1>5. CASE Quiet
    BY <1>2, <1>5 DEF Quiet
  <1>6. ASSUME NEW t, NEW kind, Learns(t, kind)
        PROVE  \E event : UNCHANGED decisions /\ feedback' = Append(feedback, event)
    BY <1>6 DEF Learns
  <1>7. ASSUME NEW t, NEW source, NEW accepted, Commits(t, source, accepted)
        PROVE  \/ UNCHANGED <<decisions, feedback>>
               \/ \E rec : rec.mode = "agent" /\ UNCHANGED feedback
                            /\ decisions' = Append(decisions, rec)
    <2>1. [thread |-> t, mode |-> "agent", source |-> source, accepted |-> accepted].mode = "agent"
      OBVIOUS
    <2>. QED BY <1>7, <2>1 DEF Commits
  <1>8. \/ UNCHANGED <<decisions, feedback>>
        \/ \E event : UNCHANGED decisions /\ feedback' = Append(feedback, event)
        \/ \E rec : rec.mode = "agent" /\ UNCHANGED feedback
                     /\ decisions' = Append(decisions, rec)
    BY <1>5, <1>6, <1>7 DEF Effect, Quiet
  <1>. QED BY <1>1, <1>2, <1>3, <1>4, <1>8

EarnedInv == FeedbackInv /\ AgentDecisions /\ CalibrationEarned

LEMMA EarnedStep ==
    ASSUME EarnedInv, [Next]_vars
    PROVE  EarnedInv'
  <1>1. TypeOK /\ TypeOK' /\ Effect /\ FeedbackInv'
    BY ConstantsOK, NextType, NextEffect, FeedbackStep DEF EarnedInv, FeedbackInv
  <1>2. /\ \A d \in DOMAIN decisions : d \in DOMAIN decisions' /\ decisions'[d] = decisions[d]
        /\ Len(feedback) <= Len(feedback')
        /\ \A f \in DOMAIN feedback : feedback'[f] = feedback[f]
        /\ AgentDecisions'
    BY <1>1, LogsGrow DEF EarnedInv
  <1>3. /\ feedback \in Seq(Feedback) /\ feedback' \in Seq(Feedback)
        /\ \A f \in DOMAIN feedback : feedback[f].decision \in DOMAIN decisions
        /\ \A f \in DOMAIN feedback' : feedback'[f].decision \in DOMAIN decisions'
    BY <1>1 DEF EarnedInv, FeedbackInv, FeedbackCloses, TypeOK
  <1>4. OffsetEarned(decisions, feedback, calibration)
    BY CalibrationEarnedMeans DEF EarnedInv
  <1>5. OffsetEarned(decisions', feedback', calibration) /\ UNCHANGED prior
    <2>1. UNCHANGED prior
      BY NextOffset DEF OffsetEffect
    <2>. QED BY <1>2, <1>3, <1>4, <2>1, EarnedStays
  <1>6. OffsetEarned(decisions', feedback',
            Recommendation(AddCounts(prior, CountFeedback(decisions', feedback'))))
    BY <1>1, <1>2, <1>3, RecommendationIsEarned DEF AgentDecisions
  <1>7. OffsetEarned(decisions', feedback', calibration')
    BY <1>5, <1>6, NextOffset DEF OffsetEffect, SavedOffset
  <1>8. CalibrationEarned'
    BY <1>5, <1>7 DEF CalibrationEarned, OffsetEarned, EarnedBy, TotalAt, EventsAt, Taught
  <1>. QED BY <1>1, <1>2, <1>8 DEF EarnedInv

\* The offset in calibration.json is always backed by feedback: some prefix of
\* the events, those about preserved routes left out, had the outcomes and the
\* majority it needs, for every history and every order of events.
THEOREM OffsetsAreEarned == Spec => []CalibrationEarned
  <1>1. Init => EarnedInv
    <2> SUFFICES ASSUME Init PROVE EarnedInv
      OBVIOUS
    <2>1. TypeOK
      BY ConstantsOK, InitType
    <2>2. FeedbackInv
      BY <2>1 DEF Init, FeedbackInv, PinNamesOwnDecision, FreshThread, FeedbackCloses,
                  FeedbackOncePerDecision
    <2>3. AgentDecisions
      BY DEF Init, AgentDecisions
    <2>4. /\ feedback \in Seq(Feedback) /\ DOMAIN feedback = {} /\ DOMAIN decisions = {}
          /\ calibration = Recommendation(prior)
      BY <2>1 DEF Init, TypeOK
    <2>5. OffsetEarned(decisions, feedback,
              Recommendation(AddCounts(prior, CountFeedback(decisions, feedback))))
      BY <2>1, <2>4, RecommendationIsEarned
    <2>6. AddCounts(prior, CountFeedback(decisions, feedback)) = prior
      <3>1. \A kind \in FeedbackKinds : CountFeedback(decisions, feedback)[kind] = 0
        BY <2>4, FS_EmptySet DEF CountFeedback
      <3>2. prior \in Counts
        BY <2>1 DEF TypeOK
      <3>. QED BY <3>1, <3>2 DEF AddCounts, Counts
    <2>7. CalibrationEarned
      BY <2>4, <2>5, <2>6, CalibrationEarnedMeans
    <2>. QED BY <2>2, <2>3, <2>7 DEF EarnedInv
  <1>2. EarnedInv /\ [Next]_vars => EarnedInv'
    BY EarnedStep
  <1>3. EarnedInv => CalibrationEarned
    BY DEF EarnedInv
  <1>. QED BY <1>1, <1>2, <1>3, PTL DEF Spec
=============================================================================
