----------------------------- MODULE RelayProofs -----------------------------
(***************************************************************************)
(* Proofs about Relay, for any number of pages, notices, any size of the    *)
(* socket buffers and any number of messages: no child is left behind, the  *)
(* streams stay faithful, and the interceptor is never out of step.         *)
(***************************************************************************)
EXTENDS Relay, Integers, TLAPS

USE RelayConstantsOK

Ended == {"wait", "drop guards", "returned"}
Beginning == Phases \ (Relaying \cup Ended)

\* In the phases that forward an item, notify about it or inspect it there is one.
HandHolds ==
    /\ pc \in {"forward request", "notify request"} => heard["tui"] > 0
    /\ pc \in {"forward event", "inspect", "notify event"} => heard["server"] > 0

TypeInv == TypeOK /\ HandHolds

-----------------------------------------------------------------------------
(* The streams *)

LEMMA AppendAt ==
    ASSUME NEW S, NEW s \in Seq(S), NEW x \in S
    PROVE  /\ Append(s, x) \in Seq(S)
           /\ Len(Append(s, x)) = Len(s) + 1 /\ Len(s) \in Nat
           /\ DOMAIN s = 1..Len(s) /\ DOMAIN Append(s, x) = 1..Len(s) + 1
           /\ \A i \in 1..Len(s) : Append(s, x)[i] = s[i]
           /\ Append(s, x)[Len(s) + 1] = x
  OBVIOUS

\* A stream to which something was added: at p's end, and nowhere else.
LEMMA Added ==
    ASSUME NEW S, NEW f \in [Peers -> Seq(S)], NEW p \in Peers, NEW x \in S,
           NEW g, g = [f EXCEPT ![p] = Append(@, x)]
    PROVE  /\ g \in [Peers -> Seq(S)]
           /\ \A q \in Peers : Len(f[q]) \in Nat /\ DOMAIN f[q] = 1..Len(f[q])
           /\ \A q \in Peers : q # p => g[q] = f[q]
           /\ Len(g[p]) = Len(f[p]) + 1 /\ DOMAIN g[p] = 1..Len(f[p]) + 1
           /\ \A i \in 1..Len(f[p]) : g[p][i] = f[p][i]
           /\ g[p][Len(f[p]) + 1] = x
  <1>1. g[p] = Append(f[p], x) /\ g \in [Peers -> Seq(S)]
    BY AppendAt
  <1>2. \A q \in Peers : q # p => g[q] = f[q]
    OBVIOUS
  <1>3. \A q \in Peers : Len(f[q]) \in Nat /\ DOMAIN f[q] = 1..Len(f[q])
    OBVIOUS
  <1> QED BY <1>1, <1>2, <1>3, AppendAt

\* What was read last is there.
LEMMA CurrentIsSaid ==
    ASSUME TypeInv, NEW p \in Peers, heard[p] > 0
    PROVE  /\ heard[p] \in DOMAIN said[p] /\ Current(p) \in Said
           /\ Item(p, Current(p).kind) \in Told
  <1>1. said[p] \in Seq(Said) /\ heard[p] \in Nat /\ heard[p] <= Len(said[p])
    BY DEF TypeInv, TypeOK
  <1>2. heard[p] \in DOMAIN said[p] /\ said[p][heard[p]] \in Said
    BY <1>1
  <1> QED BY <1>1, <1>2 DEF Current, Item, Said, Told

LEMMA SeenType ==
    ASSUME TypeOK, NEW p \in Peers
    PROVE  SeenBy(p) \in SUBSET Nat
  <1>1. told[p] \in Seq(Told) /\ got[p] \in Nat /\ got[p] <= Len(told[p])
    BY DEF TypeOK
  <1>2. ASSUME NEW j \in 1..got[p] PROVE told[p][j].n \in Nat
    <2>1. j \in 1..Len(told[p])
      BY <1>1
    <2>2. told[p][j] \in Told
      BY <1>1, <2>1
    <2> QED BY <2>2 DEF Told
  <1> QED BY <1>2 DEF SeenBy

LEMMA QuestionsOK == Len(Questions) = 5
  BY DEF Questions

-----------------------------------------------------------------------------
(* Types *)

LEMMA TypeInit == Init => TypeInv
  <1> SUFFICES ASSUME Init PROVE TypeInv
    OBVIOUS
  <1>1. pc \in Phases /\ HandHolds
    BY DEF Init, HandHolds, Phases
  <1>2. pages \in 0..MaxPages-1 /\ question \in 1..Len(Questions) /\ notices \in 0..MaxNotices
    BY QuestionsOK DEF Init
  <1>3. /\ child \in [Peers -> {"none", "running", "exited", "reaped"}]
        /\ line \in [Peers -> {"none", "dialed", "open", "closing", "gone"}]
        /\ heard \in [Peers -> Nat] /\ got \in [Peers -> Nat]
    BY DEF Init
  <1>4. said \in [Peers -> Seq(Said)] /\ told \in [Peers -> Seq(Told)]
    BY DEF Init
  <1>5. \A p \in Peers : heard[p] <= Len(said[p]) /\ got[p] <= Len(told[p])
    BY DEF Init
  <1>6. handled \in Seq([from : Peers, n : Nat])
    BY DEF Init
  <1> QED BY <1>1, <1>2, <1>3, <1>4, <1>5, <1>6 DEF Init, TypeInv, TypeOK

\* What most steps leave alone.
Children == [Peers -> {"none", "running", "exited", "reaped"}]
Lines == [Peers -> {"none", "dialed", "open", "closing", "gone"}]
Streams == UNCHANGED <<said, heard, told, got, handled>>
LEMMA TypeFrame ==
    ASSUME TypeInv, Streams, pc' \in Phases, result' \in {"none", "status", "error"},
           question' \in 1..5, pages' \in 0..MaxPages-1, listening' \in BOOLEAN,
           child' \in Children, line' \in Lines, notices' \in 0..MaxNotices,
           pc' \in {"forward request", "notify request", "forward event", "inspect", "notify event"} => pc' = pc
    PROVE  TypeInv'
  BY QuestionsOK DEF TypeInv, TypeOK, HandHolds, Streams, Children, Lines

LEMMA EndsType ==
    ASSUME TypeInv PROVE HangUp \in [Peers -> {"none", "gone"}]
                         /\ Dropped \in [Peers -> {"none", "running", "exited", "reaped"}]
  BY DEF TypeInv, TypeOK, HangUp, Dropped

LEMMA StartTypes ==
    ASSUME TypeInv,
           SpawnServer \/ Connect \/ Negotiate \/ NegotiateFails \/ SpawnTui \/ AcceptTui
           \/ Handshake \/ HandshakeFails \/ Dial
    PROVE  TypeInv'
  <1>1. CASE SpawnServer \/ SpawnTui
    <2>1. child' \in Children
      BY <1>1, EndsType DEF SpawnServer, SpawnTui, Fail, TypeInv, TypeOK, Children, Peers
    <2>2. line' \in Lines
      BY <1>1, EndsType DEF SpawnServer, SpawnTui, Fail, TypeInv, TypeOK, Lines, Peers
    <2>3. /\ pc' \in Phases /\ result' \in {"none", "status", "error"}
          /\ pc' \in {"forward request", "notify request", "forward event", "inspect",
                     "notify event"} => pc' = pc
      BY <1>1 DEF SpawnServer, SpawnTui, Fail, setup, TypeInv, TypeOK, Phases, Relaying
    <2>4. question' \in 1..5 /\ pages' \in 0..MaxPages-1
      BY <1>1, QuestionsOK DEF SpawnServer, SpawnTui, Fail, setup, TypeInv, TypeOK
    <2>5. Streams /\ notices' \in 0..MaxNotices /\ listening' \in BOOLEAN
      BY <1>1 DEF SpawnServer, SpawnTui, Streams, streams, setup, TypeInv, TypeOK
    <2> QED BY <2>1, <2>2, <2>3, <2>4, <2>5, TypeFrame
  <1>2. CASE Connect
    <2>1. child' \in Children
      BY <1>2, EndsType DEF Connect, ConnectWithRetry, Fail, TypeInv, TypeOK, Children, Peers
    <2>2. line' \in Lines
      BY <1>2, EndsType DEF Connect, ConnectWithRetry, Fail, TypeInv, TypeOK, Lines, Peers
    <2>3. /\ pc' \in Phases /\ result' \in {"none", "status", "error"}
          /\ pc' \in {"forward request", "notify request", "forward event", "inspect",
                     "notify event"} => pc' = pc
      BY <1>2 DEF Connect, ConnectWithRetry, Fail, setup, TypeInv, TypeOK, Phases, Relaying
    <2>4. question' \in 1..5 /\ pages' \in 0..MaxPages-1
      BY <1>2, QuestionsOK DEF Connect, ConnectWithRetry, Fail, setup, TypeInv, TypeOK
    <2>5. Streams /\ notices' \in 0..MaxNotices /\ listening' \in BOOLEAN
      BY <1>2 DEF Connect, ConnectWithRetry, Streams, streams, setup, TypeInv, TypeOK
    <2> QED BY <2>1, <2>2, <2>3, <2>4, <2>5, TypeFrame
  <1>3. CASE Dial
    <2>1. child' \in Children
      BY <1>3, EndsType DEF Dial, ConnectWithRetry, Fail, TypeInv, TypeOK, Children, Peers
    <2>2. line' \in Lines
      BY <1>3, EndsType DEF Dial, ConnectWithRetry, Fail, TypeInv, TypeOK, Lines, Peers
    <2>3. /\ pc' \in Phases /\ result' \in {"none", "status", "error"}
          /\ pc' \in {"forward request", "notify request", "forward event", "inspect",
                     "notify event"} => pc' = pc
      BY <1>3 DEF Dial, ConnectWithRetry, Fail, setup, TypeInv, TypeOK, Phases, Relaying
    <2>4. question' \in 1..5 /\ pages' \in 0..MaxPages-1
      BY <1>3, QuestionsOK DEF Dial, ConnectWithRetry, Fail, setup, TypeInv, TypeOK
    <2>5. Streams /\ notices' \in 0..MaxNotices /\ listening' \in BOOLEAN
      BY <1>3 DEF Dial, ConnectWithRetry, Streams, streams, setup, TypeInv, TypeOK
    <2> QED BY <2>1, <2>2, <2>3, <2>4, <2>5, TypeFrame
  <1>4. CASE Negotiate
    <2>1. child' \in Children
      BY <1>4, EndsType DEF Negotiate, Answer, Fail, TypeInv, TypeOK, Children, Peers
    <2>2. line' \in Lines
      BY <1>4, EndsType DEF Negotiate, Answer, Fail, TypeInv, TypeOK, Lines, Peers
    <2>3. /\ pc' \in Phases /\ result' \in {"none", "status", "error"}
          /\ pc' \in {"forward request", "notify request", "forward event", "inspect",
                     "notify event"} => pc' = pc
      BY <1>4 DEF Negotiate, Answer, Fail, setup, TypeInv, TypeOK, Phases, Relaying
    <2>4. question' \in 1..5 /\ pages' \in 0..MaxPages-1
      <3>1. question \in 1..5 /\ pages \in 0..MaxPages-1 /\ MaxPages \in Nat
        BY QuestionsOK DEF TypeInv, TypeOK
      <3>2. Answer
        BY <1>4 DEF Negotiate
      <3>3. \/ pages + 1 < MaxPages /\ pages' = pages + 1 /\ question' = question
            \/ question < 5 /\ question' = question + 1 /\ pages' = pages
            \/ question' = question /\ pages' = pages
        BY <3>2, QuestionsOK DEF Answer
      <3> QED BY <3>1, <3>3
    <2>5. Streams /\ notices' \in 0..MaxNotices /\ listening' \in BOOLEAN
      BY <1>4 DEF Negotiate, Answer, Streams, streams, setup, TypeInv, TypeOK
    <2> QED BY <2>1, <2>2, <2>3, <2>4, <2>5, TypeFrame
  <1>5. CASE NegotiateFails \/ HandshakeFails
    <2>1. child' \in Children
      BY <1>5, EndsType DEF NegotiateFails, HandshakeFails, Fail, TypeInv, TypeOK, Children, Peers
    <2>2. line' \in Lines
      BY <1>5, EndsType DEF NegotiateFails, HandshakeFails, Fail, TypeInv, TypeOK, Lines, Peers
    <2>3. /\ pc' \in Phases /\ result' \in {"none", "status", "error"}
          /\ pc' \in {"forward request", "notify request", "forward event", "inspect",
                     "notify event"} => pc' = pc
      BY <1>5 DEF NegotiateFails, HandshakeFails, Fail, setup, TypeInv, TypeOK, Phases, Relaying
    <2>4. question' \in 1..5 /\ pages' \in 0..MaxPages-1
      BY <1>5, QuestionsOK DEF NegotiateFails, HandshakeFails, Fail, setup, TypeInv, TypeOK
    <2>5. Streams /\ notices' \in 0..MaxNotices /\ listening' \in BOOLEAN
      BY <1>5 DEF NegotiateFails, HandshakeFails, Streams, streams, setup, TypeInv, TypeOK
    <2> QED BY <2>1, <2>2, <2>3, <2>4, <2>5, TypeFrame
  <1>6. CASE AcceptTui
    <2>1. child' \in Children
      BY <1>6, EndsType DEF AcceptTui, AcceptOrGiveUp, Fail, TypeInv, TypeOK, Children, Peers
    <2>2. line' \in Lines
      BY <1>6, EndsType DEF AcceptTui, AcceptOrGiveUp, Fail, TypeInv, TypeOK, Lines, Peers
    <2>3. /\ pc' \in Phases /\ result' \in {"none", "status", "error"}
          /\ pc' \in {"forward request", "notify request", "forward event", "inspect",
                     "notify event"} => pc' = pc
      BY <1>6 DEF AcceptTui, AcceptOrGiveUp, Fail, setup, TypeInv, TypeOK, Phases, Relaying
    <2>4. question' \in 1..5 /\ pages' \in 0..MaxPages-1
      BY <1>6, QuestionsOK DEF AcceptTui, AcceptOrGiveUp, Fail, setup, TypeInv, TypeOK
    <2>5. Streams /\ notices' \in 0..MaxNotices /\ listening' \in BOOLEAN
      BY <1>6 DEF AcceptTui, AcceptOrGiveUp, Streams, streams, setup, TypeInv, TypeOK
    <2> QED BY <2>1, <2>2, <2>3, <2>4, <2>5, TypeFrame
  <1>7. CASE Handshake
    <2>1. child' \in Children
      BY <1>7, EndsType DEF Handshake, Fail, TypeInv, TypeOK, Children, Peers
    <2>2. line' \in Lines
      BY <1>7, EndsType DEF Handshake, Fail, TypeInv, TypeOK, Lines, Peers
    <2>3. /\ pc' \in Phases /\ result' \in {"none", "status", "error"}
          /\ pc' \in {"forward request", "notify request", "forward event", "inspect",
                     "notify event"} => pc' = pc
      BY <1>7 DEF Handshake, Fail, setup, TypeInv, TypeOK, Phases, Relaying
    <2>4. question' \in 1..5 /\ pages' \in 0..MaxPages-1
      BY <1>7, QuestionsOK DEF Handshake, Fail, setup, TypeInv, TypeOK
    <2>5. Streams /\ notices' \in 0..MaxNotices /\ listening' \in BOOLEAN
      BY <1>7 DEF Handshake, Streams, streams, setup, TypeInv, TypeOK
    <2> QED BY <2>1, <2>2, <2>3, <2>4, <2>5, TypeFrame
  <1> QED BY <1>1, <1>2, <1>3, <1>4, <1>5, <1>6, <1>7

LEMMA EndTypes ==
    ASSUME TypeInv, Poll \/ ReadFails \/ WriteFails \/ Breaks \/ WaitTui \/ DropGuards
    PROVE  TypeInv'
  <1>1. CASE Poll
    <2>1. child' \in Children
      BY <1>1, EndsType DEF Poll, Fail, TypeInv, TypeOK, Children, Peers
    <2>2. line' \in Lines
      BY <1>1, EndsType DEF Poll, Fail, TypeInv, TypeOK, Lines, Peers
    <2>3. /\ pc' \in Phases /\ result' \in {"none", "status", "error"}
          /\ pc' \in {"forward request", "notify request", "forward event", "inspect",
                     "notify event"} => pc' = pc
      BY <1>1 DEF Poll, Fail, setup, TypeInv, TypeOK, Phases, Relaying
    <2>4. question' \in 1..5 /\ pages' \in 0..MaxPages-1
      BY <1>1, QuestionsOK DEF Poll, Fail, setup, TypeInv, TypeOK
    <2>5. Streams /\ notices' \in 0..MaxNotices /\ listening' \in BOOLEAN
      BY <1>1 DEF Poll, Streams, streams, setup, TypeInv, TypeOK
    <2> QED BY <2>1, <2>2, <2>3, <2>4, <2>5, TypeFrame
  <1>2. CASE ReadFails \/ WriteFails \/ Breaks
    <2>1. child' \in Children
      BY <1>2, EndsType DEF ReadFails, WriteFails, Breaks, Fail, TypeInv, TypeOK, Children, Peers
    <2>2. line' \in Lines
      BY <1>2, EndsType DEF ReadFails, WriteFails, Breaks, Fail, TypeInv, TypeOK, Lines, Peers
    <2>3. /\ pc' \in Phases /\ result' \in {"none", "status", "error"}
          /\ pc' \in {"forward request", "notify request", "forward event", "inspect",
                     "notify event"} => pc' = pc
      BY <1>2 DEF ReadFails, WriteFails, Breaks, Fail, setup, TypeInv, TypeOK, Phases, Relaying
    <2>4. question' \in 1..5 /\ pages' \in 0..MaxPages-1
      BY <1>2, QuestionsOK DEF ReadFails, WriteFails, Breaks, Fail, setup, TypeInv, TypeOK
    <2>5. Streams /\ notices' \in 0..MaxNotices /\ listening' \in BOOLEAN
      BY <1>2 DEF ReadFails, WriteFails, Breaks, Streams, streams, setup, TypeInv, TypeOK
    <2> QED BY <2>1, <2>2, <2>3, <2>4, <2>5, TypeFrame
  <1>3. CASE WaitTui
    <2>1. child' \in Children
      BY <1>3, EndsType DEF WaitTui, Fail, TypeInv, TypeOK, Children, Peers
    <2>2. line' \in Lines
      BY <1>3, EndsType DEF WaitTui, Fail, TypeInv, TypeOK, Lines, Peers
    <2>3. /\ pc' \in Phases /\ result' \in {"none", "status", "error"}
          /\ pc' \in {"forward request", "notify request", "forward event", "inspect",
                     "notify event"} => pc' = pc
      BY <1>3 DEF WaitTui, Fail, setup, TypeInv, TypeOK, Phases, Relaying
    <2>4. question' \in 1..5 /\ pages' \in 0..MaxPages-1
      BY <1>3, QuestionsOK DEF WaitTui, Fail, setup, TypeInv, TypeOK
    <2>5. Streams /\ notices' \in 0..MaxNotices /\ listening' \in BOOLEAN
      BY <1>3 DEF WaitTui, Streams, streams, setup, TypeInv, TypeOK
    <2> QED BY <2>1, <2>2, <2>3, <2>4, <2>5, TypeFrame
  <1>4. CASE DropGuards
    <2>1. child' \in Children
      BY <1>4, EndsType DEF DropGuards, Fail, TypeInv, TypeOK, Children, Peers
    <2>2. line' \in Lines
      BY <1>4, EndsType DEF DropGuards, Fail, TypeInv, TypeOK, Lines, Peers
    <2>3. /\ pc' \in Phases /\ result' \in {"none", "status", "error"}
          /\ pc' \in {"forward request", "notify request", "forward event", "inspect",
                     "notify event"} => pc' = pc
      BY <1>4 DEF DropGuards, Fail, setup, TypeInv, TypeOK, Phases, Relaying
    <2>4. question' \in 1..5 /\ pages' \in 0..MaxPages-1
      BY <1>4, QuestionsOK DEF DropGuards, Fail, setup, TypeInv, TypeOK
    <2>5. Streams /\ notices' \in 0..MaxNotices /\ listening' \in BOOLEAN
      BY <1>4 DEF DropGuards, Streams, streams, setup, TypeInv, TypeOK
    <2> QED BY <2>1, <2>2, <2>3, <2>4, <2>5, TypeFrame
  <1> QED BY <1>1, <1>2, <1>3, <1>4

LEMMA PeerTypes ==
    ASSUME TypeInv, NEW p \in Peers,
           ServerListens \/ TuiDials \/ PeerSays(p) \/ PeerReads(p) \/ PeerExits(p)
    PROVE  TypeInv'
  <1>1. CASE ServerListens \/ TuiDials
    <2>1. child' \in Children
      BY <1>1, EndsType DEF ServerListens, TuiDials, Fail, TypeInv, TypeOK, Children, Peers
    <2>2. line' \in Lines
      BY <1>1, EndsType DEF ServerListens, TuiDials, Fail, TypeInv, TypeOK, Lines, Peers
    <2>3. /\ pc' \in Phases /\ result' \in {"none", "status", "error"}
          /\ pc' \in {"forward request", "notify request", "forward event", "inspect",
                     "notify event"} => pc' = pc
      BY <1>1 DEF ServerListens, TuiDials, Fail, setup, TypeInv, TypeOK, Phases, Relaying
    <2>4. question' \in 1..5 /\ pages' \in 0..MaxPages-1
      BY <1>1, QuestionsOK DEF ServerListens, TuiDials, Fail, setup, TypeInv, TypeOK
    <2>5. Streams /\ notices' \in 0..MaxNotices /\ listening' \in BOOLEAN
      BY <1>1 DEF ServerListens, TuiDials, Streams, streams, setup, TypeInv, TypeOK
    <2> QED BY <2>1, <2>2, <2>3, <2>4, <2>5, TypeFrame
  <1>2. CASE PeerExits(p)
    <2>1. child' \in Children
      BY <1>2, EndsType DEF PeerExits, Fail, TypeInv, TypeOK, Children, Peers
    <2>2. line' \in Lines
      BY <1>2, EndsType DEF PeerExits, Fail, TypeInv, TypeOK, Lines, Peers
    <2>3. /\ pc' \in Phases /\ result' \in {"none", "status", "error"}
          /\ pc' \in {"forward request", "notify request", "forward event", "inspect",
                     "notify event"} => pc' = pc
      BY <1>2 DEF PeerExits, Fail, setup, TypeInv, TypeOK, Phases, Relaying
    <2>4. question' \in 1..5 /\ pages' \in 0..MaxPages-1
      BY <1>2, QuestionsOK DEF PeerExits, Fail, setup, TypeInv, TypeOK
    <2>5. Streams /\ notices' \in 0..MaxNotices /\ listening' \in BOOLEAN
      BY <1>2 DEF PeerExits, Streams, streams, setup, TypeInv, TypeOK
    <2> QED BY <2>1, <2>2, <2>3, <2>4, <2>5, TypeFrame
  <1>3. CASE PeerReads(p)
    <2>1. got' \in [Peers -> Nat] /\ \A q \in Peers : got'[q] <= Len(told[q])
      <3>1. told \in [Peers -> Seq(Told)] /\ got \in [Peers -> Nat]
            /\ \A q \in Peers : got[q] <= Len(told[q]) /\ Len(told[q]) \in Nat
        BY DEF TypeInv, TypeOK
      <3>2. got[p] < Len(told[p]) /\ got' = [got EXCEPT ![p] = @ + 1]
        BY <1>3 DEF PeerReads
      <3> QED BY <3>1, <3>2
    <2>2. UNCHANGED <<pc, setup, child, line, said, heard, told, notices, handled>>
      BY <1>3 DEF PeerReads
    <2> QED BY <2>1, <2>2 DEF setup, TypeInv, TypeOK, HandHolds
  <1>4. CASE PeerSays(p)
    <2>1. PICK kind \in {"message", "close"} :
             /\ said' = [said EXCEPT ![p] = Append(@, [kind |-> kind, seen |-> SeenBy(p)])]
             /\ line' = IF kind = "close" THEN [line EXCEPT ![p] = "closing"] ELSE line
      BY <1>4 DEF PeerSays
    <2>2. [kind |-> kind, seen |-> SeenBy(p)] \in Said /\ said \in [Peers -> Seq(Said)]
      BY SeenType DEF Said, TypeInv, TypeOK
    <2>3. said' \in [Peers -> Seq(Said)] /\ \A q \in Peers : Len(said'[q]) >= Len(said[q])
      BY <2>1, <2>2, Added
    <2>4. line' \in [Peers -> {"none", "dialed", "open", "closing", "gone"}]
      BY <2>1 DEF TypeInv, TypeOK
    <2>5. UNCHANGED <<pc, setup, child, heard, told, got, notices, handled>>
      BY <1>4 DEF PeerSays
    <2>6. \A q \in Peers : Len(said'[q]) \in Nat /\ Len(said[q]) \in Nat
      BY <2>2, <2>3
    <2>7. \A q \in Peers : heard[q] \in Nat /\ heard[q] <= Len(said[q])
      BY DEF TypeInv, TypeOK
    <2>8. \A q \in Peers : heard[q] <= Len(said'[q])
      BY <2>3, <2>6, <2>7
    <2> QED BY <2>3, <2>4, <2>5, <2>8 DEF setup, TypeInv, TypeOK, HandHolds
  <1> QED BY <1>1, <1>2, <1>3, <1>4

\* Steps of the relay loop: an item is read, or something written to q.
LEMMA ReadType ==
    ASSUME TypeInv, NEW p \in Peers, ReadItem(p)
    PROVE  heard' \in [Peers -> Nat] /\ heard'[p] = heard[p] + 1 /\ heard[p] + 1 \in Nat /\ heard'[p] > 0
           /\ \A q \in Peers : heard'[q] <= Len(said[q]) /\ (q # p => heard'[q] = heard[q])
  <1>1. heard \in [Peers -> Nat] /\ \A q \in Peers : heard[q] <= Len(said[q]) /\ Len(said[q]) \in Nat
    BY DEF TypeInv, TypeOK
  <1>2. heard[p] < Len(said[p]) /\ heard' = [heard EXCEPT ![p] = @ + 1]
    BY DEF ReadItem
  <1> QED BY <1>1, <1>2

LEMMA WriteType ==
    ASSUME TypeInv, NEW q \in Peers, NEW item \in Told, Write(q, item)
    PROVE  /\ told' \in [Peers -> Seq(Told)]
           /\ \A r \in Peers : got[r] <= Len(told'[r])
  <1>1. told \in [Peers -> Seq(Told)] /\ told' = [told EXCEPT ![q] = Append(@, item)]
    BY DEF Write, TypeInv, TypeOK
  <1>2. told' \in [Peers -> Seq(Told)] /\ \A r \in Peers : Len(told[r]) \in Nat
        /\ (Len(told'[r]) = Len(told[r]) \/ Len(told'[r]) = Len(told[r]) + 1)
    BY <1>1, Added
  <1>3. \A r \in Peers : got[r] \in Nat /\ got[r] <= Len(told[r])
    BY DEF TypeInv, TypeOK
  <1> QED BY <1>2, <1>3

LEMMA InterceptType ==
    ASSUME TypeInv, NEW p \in Peers, NEW n \in Nat, NEW quiet \in Phases, NEW noisy \in Phases,
           Intercept(p, n, quiet, noisy)
    PROVE  /\ handled' \in Seq([from : Peers, n : Nat])
           /\ notices' \in 0..MaxNotices /\ line' \in Lines /\ pc' \in {quiet, noisy, "drop guards"}
           /\ result' \in {"none", "status", "error"}
  <1>1. handled' = Append(handled, [from |-> p, n |-> n]) /\ handled \in Seq([from : Peers, n : Nat])
    BY DEF Intercept, TypeInv, TypeOK
  <1>2. [from |-> p, n |-> n] \in [from : Peers, n : Nat]
    OBVIOUS
  <1>3. handled' \in Seq([from : Peers, n : Nat])
    BY <1>1, <1>2, AppendAt
  <1>4. notices' \in 0..MaxNotices /\ line' \in Lines /\ pc' \in {quiet, noisy, "drop guards"}
    BY EndsType DEF Intercept, Fail, TypeInv, TypeOK, Lines
  <1>5. result' \in {"none", "status", "error"}
    BY DEF Intercept, Fail, TypeInv, TypeOK
  <1> QED BY <1>3, <1>4, <1>5

LEMMA LoopTypes ==
    ASSUME TypeInv
    PROVE  (\/ ReadRequest \/ ForwardRequest \/ ReadEvent \/ ForwardEvent \/ Inspect
            \/ Notify("tui", "notify request", "read server")
            \/ Notify("server", "notify event", "read tui")) => TypeInv'
  <1>1. CASE ReadRequest
    <2>1. ReadItem("tui") /\ pc = "read tui"
      BY <1>1 DEF ReadRequest
    <2>2. heard["tui"] + 1 \in Nat /\ "forward request" \in Phases
      BY <2>1, ReadType DEF Peers, Phases, Relaying
    <2>3. \/ Intercept("tui", heard["tui"] + 1, "forward request", "forward request")
          \/ notices' = 0 /\ pc' = "forward request" /\ UNCHANGED <<result, line, handled>>
      BY <1>1 DEF ReadRequest
    <2>4. /\ handled' \in Seq([from : Peers, n : Nat])
          /\ notices' \in 0..MaxNotices /\ line' \in Lines /\ pc' \in {"forward request", "drop guards"}
          /\ result' \in {"none", "status", "error"}
      <3>1. CASE Intercept("tui", heard["tui"] + 1, "forward request", "forward request")
        BY <2>2, <3>1, InterceptType DEF Peers
      <3>2. CASE notices' = 0 /\ pc' = "forward request" /\ UNCHANGED <<result, line, handled>>
        <4>1. 0 \in 0..MaxNotices
          OBVIOUS
        <4> QED BY <3>2, <4>1 DEF TypeInv, TypeOK, Lines
      <3> QED BY <2>3, <3>1, <3>2
    <2>5. heard' \in [Peers -> Nat] /\ heard'["tui"] > 0 /\ \A q \in Peers : heard'[q] <= Len(said[q])
      BY <2>1, ReadType DEF Peers
    <2>6. UNCHANGED <<question, pages, listening, child, said, told, got>>
      BY <2>1 DEF ReadItem
    <2>7. pc' \in Phases
      BY <2>4 DEF Phases, Relaying
    <2> QED BY <2>4, <2>5, <2>6, <2>7 DEF TypeInv, TypeOK, HandHolds, Lines
  <1>2. CASE ReadEvent
    <2>1. ReadItem("server") /\ pc' = "forward event" /\ UNCHANGED <<result, line, notices, handled>>
      BY <1>2 DEF ReadEvent
    <2>2. heard' \in [Peers -> Nat] /\ heard'["server"] > 0 /\ \A q \in Peers : heard'[q] <= Len(said[q])
      BY <2>1, ReadType DEF Peers
    <2>3. UNCHANGED <<question, pages, listening, child, said, told, got>>
      BY <2>1 DEF ReadItem
    <2>4. pc' \in Phases
      BY <2>1 DEF Phases, Relaying
    <2> QED BY <2>1, <2>2, <2>3, <2>4 DEF TypeInv, TypeOK, HandHolds
  <1>3. CASE ForwardRequest \/ ForwardEvent
    <2>1. PICK p \in Peers : /\ Write(Other(p), Item(p, Current(p).kind)) /\ heard[p] > 0
                             /\ Closing(p) \/ heard'[p] > 0
      BY <1>3 DEF ForwardRequest, ForwardEvent, Other, Peers, TypeInv, HandHolds, streams
    <2>2. Item(p, Current(p).kind) \in Told /\ Other(p) \in Peers
      BY <2>1, CurrentIsSaid DEF Other, Peers
    <2>3. told' \in [Peers -> Seq(Told)] /\ \A r \in Peers : got[r] <= Len(told'[r])
      BY <2>1, <2>2, WriteType
    <2>4. UNCHANGED <<setup, child, said, heard, got, notices, handled>>
      BY <1>3 DEF ForwardRequest, ForwardEvent
    <2>5. line' \in Lines
      BY <1>3, EndsType DEF ForwardRequest, ForwardEvent, LeaveAfterClose, TypeInv, TypeOK, Lines
    <2>6. pc' \in {"wait", "read server", "notify request", "inspect"} /\ HandHolds'
      BY <1>3, <2>4 DEF ForwardRequest, ForwardEvent, LeaveAfterClose, TypeInv, HandHolds
    <2>7. pc' \in Phases
      BY <2>6 DEF Phases, Relaying
    <2> QED BY <2>3, <2>4, <2>5, <2>6, <2>7 DEF setup, TypeInv, TypeOK, Lines
  <1>4. CASE Inspect
    <2>1. heard["server"] \in Nat
      BY DEF TypeInv, TypeOK, Peers
    <2>2. Intercept("server", heard["server"], "read tui", "notify event")
          /\ UNCHANGED <<question, pages, listening, child, streams>> /\ pc = "inspect"
      BY <1>4 DEF Inspect
    <2>3. /\ handled' \in Seq([from : Peers, n : Nat])
          /\ notices' \in 0..MaxNotices /\ line' \in Lines
          /\ pc' \in {"read tui", "notify event", "drop guards"}
          /\ result' \in {"none", "status", "error"}
      BY <2>1, <2>2, InterceptType DEF Peers, Phases, Relaying
    <2>4. pc' \in Phases /\ HandHolds'
      BY <2>2, <2>3 DEF Phases, Relaying, TypeInv, HandHolds, streams
    <2> QED BY <2>2, <2>3, <2>4 DEF streams, TypeInv, TypeOK, Lines
  <1>5. ASSUME NEW p \in Peers, NEW here, NEW next, Notify(p, here, next),
               \/ p = "tui" /\ here = "notify request" /\ next = "read server"
               \/ p = "server" /\ here = "notify event" /\ next = "read tui"
        PROVE  TypeInv'
    <2>1. heard[p] \in Nat /\ Item(p, "notice") \in Told
      BY DEF Item, Told, TypeInv, TypeOK
    <2>2. Write("tui", Item(p, "notice")) /\ notices > 0 /\ notices' = notices - 1
          /\ pc = here /\ pc' \in {here, next}
          /\ UNCHANGED <<setup, child, line, said, heard, got, handled>>
      BY <1>5 DEF Notify
    <2>3. told' \in [Peers -> Seq(Told)] /\ \A r \in Peers : got[r] <= Len(told'[r])
      BY <2>1, <2>2, WriteType DEF Peers
    <2>4. notices' \in 0..MaxNotices
      <3>1. notices \in 0..MaxNotices /\ MaxNotices \in Nat
        BY DEF TypeInv, TypeOK
      <3>2. notices' = notices - 1 /\ notices > 0
        BY <2>2
      <3> QED BY <3>1, <3>2, SMT
    <2>5. pc' \in Phases /\ HandHolds'
      <3>1. UNCHANGED heard /\ pc \in {"notify request", "notify event"}
            /\ pc' \in {pc, "read server", "read tui"}
        BY <1>5, <2>2
      <3> QED BY <3>1 DEF Phases, Relaying, TypeInv, HandHolds
    <2> QED BY <2>2, <2>3, <2>4, <2>5 DEF setup, TypeInv, TypeOK
  <1> QED BY <1>1, <1>2, <1>3, <1>4, <1>5 DEF Peers

LEMMA TypeStep == TypeInv /\ [Next]_vars => TypeInv'
  <1> SUFFICES ASSUME TypeInv, [Next]_vars PROVE TypeInv'
    OBVIOUS
  <1>1. CASE UNCHANGED vars
    BY <1>1 DEF vars, setup, streams, TypeInv, TypeOK, HandHolds
  <1>2. CASE Cauto
    BY <1>2, StartTypes, EndTypes, LoopTypes DEF Cauto
  <1>3. CASE Environment
    BY <1>3, StartTypes, EndTypes, PeerTypes DEF Environment, Peers
  <1> QED BY <1>1, <1>2, <1>3 DEF Next

\* Every variable keeps its type, and pages are never asked for beyond the bound.
THEOREM RelayTypeCorrect == Spec => []TypeOK
  <1>1. TypeInv => TypeOK
    BY DEF TypeInv
  <1> QED BY TypeInit, TypeStep, <1>1, PTL DEF Spec

-----------------------------------------------------------------------------
(* No child is left behind *)

LEMMA ReapedStep == TypeInv /\ ChildrenReaped /\ [Next]_vars => ChildrenReaped'
  <1> SUFFICES ASSUME TypeInv, ChildrenReaped, [Next]_vars PROVE ChildrenReaped'
    OBVIOUS
  <1>1. CASE UNCHANGED vars
    BY <1>1 DEF vars, ChildrenReaped
  <1>2. CASE DropGuards
    <2>1. child \in Children /\ child' = Dropped
      BY <1>2 DEF DropGuards, TypeInv, TypeOK, Children
    <2>2. \A p \in Peers : Dropped[p] \in {"none", "reaped"}
      BY <2>1 DEF Dropped, Children
    <2> QED BY <2>1, <2>2 DEF ChildrenReaped
  <1>3. CASE \/ SpawnServer \/ Connect \/ NegotiateFails \/ SpawnTui \/ AcceptTui
             \/ HandshakeFails \/ Dial \/ Poll \/ ReadFails \/ WriteFails \/ Breaks \/ WaitTui
             \/ Negotiate \/ Handshake
    <2>1. pc' # "returned"
      BY <1>3 DEF SpawnServer, Connect, ConnectWithRetry, NegotiateFails, SpawnTui, AcceptTui,
            AcceptOrGiveUp, HandshakeFails, Dial, Poll, ReadFails, WriteFails, Breaks, WaitTui, Negotiate,
            Answer, Handshake, Fail
    <2> QED BY <2>1 DEF ChildrenReaped
  <1>4. CASE ReadRequest \/ ForwardRequest \/ ReadEvent \/ ForwardEvent \/ Inspect
    <2>1. pc' # "returned"
      BY <1>4 DEF ReadRequest, ForwardRequest, ReadEvent, ForwardEvent, Inspect, Intercept,
            LeaveAfterClose, Fail
    <2> QED BY <2>1 DEF ChildrenReaped
  <1>5. CASE \/ Notify("tui", "notify request", "read server")
             \/ Notify("server", "notify event", "read tui")
    <2>1. pc' # "returned"
      BY <1>5 DEF Notify
    <2> QED BY <2>1 DEF ChildrenReaped
  <1>6. CASE ServerListens \/ TuiDials \/ \E p \in Peers : PeerSays(p) \/ PeerReads(p)
    BY <1>6 DEF ServerListens, TuiDials, PeerSays, PeerReads, ChildrenReaped
  <1>7. ASSUME NEW p \in Peers, PeerExits(p) PROVE ChildrenReaped'
    <2>1. pc' # "returned"
      BY <1>7 DEF PeerExits, ChildrenReaped
    <2> QED BY <2>1 DEF ChildrenReaped
  <1> QED BY <1>1, <1>2, <1>3, <1>4, <1>5, <1>6, <1>7 DEF Next, Cauto, Environment

\* When run returns, whatever failed and in whatever order, no child is left to run or
\* to be waited for.
THEOREM ChildrenAlwaysReaped == Spec => []ChildrenReaped
  <1>1. Init => ChildrenReaped
    BY DEF Init, ChildrenReaped
  <1> QED BY <1>1, TypeInit, TypeStep, ReapedStep, PTL DEF Spec

-----------------------------------------------------------------------------
(* What a step does to the streams *)

Hand(p) == IF p = "tui" THEN "forward request" ELSE "forward event"

\* Nothing, and then only these ways of going on.
Quiet ==
    /\ UNCHANGED <<said, heard, told, handled>>
    /\ \/ pc' = pc \/ pc' \in Ended
       \/ pc \in Beginning /\ pc' \in Beginning
       \/ pc = "dial" /\ pc' = "read tui"
       \/ pc \in {"read tui", "read server"} /\ pc' \in {"read tui", "read server"}

Reads(p) ==
    /\ pc = (IF p = "tui" THEN "read tui" ELSE "read server")
    /\ ReadItem(p)
    /\ pc' = Hand(p) \/ pc' \in Ended
    /\ LET n == heard[p] + 1 IN
       \/ p = "tui" /\ said[p][n].kind = "message"
          /\ handled' = Append(handled, [from |-> p, n |-> n])
       \/ (p = "tui" => said[p][n].kind = "close") /\ UNCHANGED handled

Sends(p) ==
    /\ pc = Hand(p)
    /\ told' = [told EXCEPT ![Other(p)] = Append(@, Item(p, Current(p).kind))]
    /\ UNCHANGED <<said, heard, handled>>
    /\ \/ pc' \in Ended
       \/ pc' \in (IF p = "tui" THEN {"read server", "notify request"} ELSE {"inspect"})

Notifies(p) ==
    /\ pc = (IF p = "tui" THEN "notify request" ELSE "notify event")
    /\ told' = [told EXCEPT !["tui"] = Append(@, Item(p, "notice"))]
    /\ UNCHANGED <<said, heard, handled>>
    /\ pc' = pc \/ pc' = (IF p = "tui" THEN "read server" ELSE "read tui")

Inspects ==
    /\ pc = "inspect" /\ pc' \in {"read tui", "notify event"} \cup Ended
    /\ handled' = Append(handled, [from |-> "server", n |-> heard["server"]])
    /\ UNCHANGED <<said, heard, told>>

Effect ==
    \/ Quiet \/ Inspects
    \/ \E p \in Peers : PeerSays(p) \/ Reads(p) \/ Sends(p) \/ Notifies(p)

LEMMA NextEffect == ASSUME TypeInv PROVE [Next]_vars => Effect
  <1>1. CASE UNCHANGED vars
    BY <1>1 DEF vars, streams, Effect, Quiet
  <1>2. CASE \/ SpawnServer \/ Connect \/ NegotiateFails \/ SpawnTui \/ AcceptTui
             \/ HandshakeFails \/ Negotiate \/ Handshake
    <2>1. UNCHANGED <<said, heard, told, handled>>
      BY <1>2 DEF SpawnServer, Connect, NegotiateFails, SpawnTui, AcceptTui, HandshakeFails,
            Negotiate, Handshake, streams
    <2>2. \/ pc' = pc \/ pc' = "drop guards"
          \/ /\ pc \in {"start", "connect", "negotiate", "spawn tui", "accept", "handshake"}
             /\ pc' \in {"connect", "negotiate", "spawn tui", "accept", "handshake", "dial"}
      BY <1>2 DEF SpawnServer, Connect, ConnectWithRetry, NegotiateFails, SpawnTui, AcceptTui,
            AcceptOrGiveUp, HandshakeFails, Negotiate, Answer, Handshake, Fail
    <2> QED BY <2>1, <2>2 DEF Effect, Quiet, Ended, Beginning, Phases, Relaying
  <1>3. CASE Dial \/ Poll \/ ReadFails \/ WriteFails \/ Breaks \/ WaitTui \/ DropGuards
    <2>1. UNCHANGED <<said, heard, told, handled>>
      BY <1>3 DEF Dial, Poll, ReadFails, WriteFails, Breaks, WaitTui, DropGuards, streams
    <2>2. \/ pc' \in {"drop guards", "returned"}
          \/ pc = "dial" /\ pc' = "read tui"
          \/ pc \in {"read tui", "read server"} /\ pc' \in {"read tui", "read server"}
      BY <1>3 DEF Dial, ConnectWithRetry, Poll, ReadFails, WriteFails, Breaks, WaitTui, DropGuards, Fail
    <2> QED BY <2>1, <2>2 DEF Effect, Quiet, Ended
  <1>4. CASE ReadRequest
    <2>1. Reads("tui")
      BY <1>4 DEF ReadRequest, Intercept, Fail, Reads, Hand, Ended
    <2> QED BY <2>1 DEF Effect, Peers
  <1>5. CASE ReadEvent
    <2>1. Reads("server")
      BY <1>5 DEF ReadEvent, Reads, Hand
    <2> QED BY <2>1 DEF Effect, Peers
  <1>6. CASE ForwardRequest
    <2>1. Sends("tui")
      BY <1>6 DEF ForwardRequest, LeaveAfterClose, Write, Sends, Hand, Other, Ended
    <2> QED BY <2>1 DEF Effect, Peers
  <1>7. CASE ForwardEvent
    <2>1. Sends("server")
      BY <1>7 DEF ForwardEvent, LeaveAfterClose, Write, Sends, Hand, Other, Ended
    <2> QED BY <2>1 DEF Effect, Peers
  <1>8. CASE Inspect
    BY <1>8 DEF Inspect, Intercept, Fail, Effect, Inspects, Ended, streams
  <1>9. CASE Notify("tui", "notify request", "read server")
    <2>1. Notifies("tui")
      BY <1>9 DEF Notify, Write, Notifies
    <2> QED BY <2>1 DEF Effect, Peers
  <1>10. CASE Notify("server", "notify event", "read tui")
    <2>1. Notifies("server")
      BY <1>10 DEF Notify, Write, Notifies
    <2> QED BY <2>1 DEF Effect, Peers
  <1>11. CASE ServerListens \/ TuiDials \/ \E p \in Peers : PeerReads(p) \/ PeerExits(p)
    BY <1>11 DEF ServerListens, TuiDials, PeerReads, PeerExits, streams, Effect, Quiet
  <1>12. CASE \E p \in Peers : PeerSays(p)
    BY <1>12 DEF Effect
  <1> QED BY <1>1, <1>2, <1>3, <1>4, <1>5, <1>6, <1>7, <1>8, <1>9, <1>10, <1>11, <1>12
          DEF Next, Cauto, Environment

-----------------------------------------------------------------------------
(* Order *)

\* The relayed streams are empty until the loop begins.
NothingYet == pc \in Beginning => \A p \in Peers : heard[p] = 0 /\ told[p] = <<>>

\* What was written was read, and is no longer in hand.
WrittenWasRead ==
    \A p \in Peers : \A i \in DOMAIN told[p] :
        told[p][i].kind # "notice" => told[p][i].n <= Forwarded(Other(p))

OrderInv == NothingYet /\ WrittenWasRead /\ InOrderAtMostOnce /\ NoneLost

LEMMA OtherPeer ==
    \A p \in Peers : Other(p) \in Peers /\ Other(p) # p /\ Other(Other(p)) = p
  BY DEF Peers, Other

LEMMA StreamTypes ==
    ASSUME TypeInv
    PROVE  /\ said \in [Peers -> Seq(Said)] /\ told \in [Peers -> Seq(Told)]
           /\ heard \in [Peers -> Nat]
           /\ \A p \in Peers : heard[p] \in Nat /\ Forwarded(p) \in Int /\ Forwarded(p) <= heard[p]
                              /\ heard[p] <= Len(said[p]) /\ Len(said[p]) \in Nat
                              /\ DOMAIN said[p] = 1..Len(said[p])
  <1>1. /\ said \in [Peers -> Seq(Said)] /\ told \in [Peers -> Seq(Told)]
        /\ heard \in [Peers -> Nat] /\ \A p \in Peers : heard[p] <= Len(said[p])
    BY DEF TypeInv, TypeOK
  <1>2. \A p \in Peers : heard[p] \in Nat /\ Len(said[p]) \in Nat /\ DOMAIN said[p] = 1..Len(said[p])
    BY <1>1
  <1>3. \A p \in Peers : Forwarded(p) \in Int /\ Forwarded(p) <= heard[p]
    BY <1>2 DEF Forwarded
  <1> QED BY <1>1, <1>2, <1>3

LEMMA ToldItem ==
    ASSUME TypeInv, NEW p \in Peers, NEW i \in DOMAIN told[p]
    PROVE  told[p][i] \in Told /\ told[p][i].n \in Nat
  <1>1. told[p] \in Seq(Told)
    BY DEF TypeInv, TypeOK
  <1>2. told[p][i] \in Told
    BY <1>1
  <1> QED BY <1>2 DEF Told

LEMMA QuietOrder == ASSUME TypeInv, OrderInv, Quiet PROVE OrderInv'
  <1>1. NothingYet'
    BY DEF OrderInv, NothingYet, Quiet, Beginning, Ended, Relaying
  <1>2. \A p \in Peers : Forwarded(p) \in Int /\ Forwarded(p)' \in Int /\ Forwarded(p)' >= Forwarded(p)
    <2>1. \A p \in Peers : heard[p] \in Nat /\ heard'[p] = heard[p]
      BY StreamTypes DEF Quiet
    <2>2. \A p \in Peers : InHand(p)' => InHand(p)
      BY DEF InHand, Quiet, Ended, Beginning, Relaying
    <2> QED BY <2>1, <2>2 DEF Forwarded
  <1>3. WrittenWasRead'
    <2> SUFFICES ASSUME NEW p \in Peers, NEW i \in DOMAIN told[p], told[p][i].kind # "notice"
                 PROVE  told[p][i].n <= Forwarded(Other(p))'
      BY DEF WrittenWasRead, Quiet
    <2>1. told[p][i].n <= Forwarded(Other(p)) /\ told[p][i].n \in Nat
      BY ToldItem DEF OrderInv, WrittenWasRead
    <2> QED BY <1>2, <2>1, OtherPeer
  <1>4. InOrderAtMostOnce'
    BY DEF OrderInv, InOrderAtMostOnce, Quiet
  <1>5. NoneLost'
    <2> SUFFICES ASSUME pc' \in Relaying, NEW p \in Peers, NEW n \in 1..Forwarded(p)'
                 PROVE  \E i \in DOMAIN told[Other(p)] :
                           told[Other(p)][i] = [from |-> p, n |-> n, kind |-> said[p][n].kind]
      BY DEF NoneLost, Quiet
    <2>1. CASE pc \in Relaying
      <3>1. InHand(p)' <=> InHand(p)
        BY <2>1 DEF Quiet, InHand, Relaying, Ended, Beginning
      <3>2. Forwarded(p)' = Forwarded(p)
        BY <3>1 DEF Forwarded, Quiet
      <3> QED BY <2>1, <3>2 DEF OrderInv, NoneLost
    <2>2. CASE pc \notin Relaying
      <3>1. pc \in Beginning /\ pc' = "read tui"
        BY <2>2 DEF Quiet, Relaying, Ended, Beginning, Phases
      <3>2. Forwarded(p)' = 0
        BY <3>1 DEF Forwarded, InHand, OrderInv, NothingYet, Quiet
      <3> QED BY <3>2
    <2> QED BY <2>1, <2>2
  <1> QED BY <1>1, <1>3, <1>4, <1>5 DEF OrderInv

LEMMA SaysOrder == ASSUME TypeInv, OrderInv, NEW q \in Peers PROVE PeerSays(q) => OrderInv'
  <1> SUFFICES ASSUME PeerSays(q) PROVE OrderInv'
    OBVIOUS
  <1>1. UNCHANGED <<pc, heard, told>>
    BY DEF PeerSays
  <1>2. \A p \in Peers : Forwarded(p)' = Forwarded(p)
    BY <1>1 DEF Forwarded, InHand
  <1>3. NothingYet' /\ WrittenWasRead' /\ InOrderAtMostOnce'
    BY <1>1, <1>2, OtherPeer DEF OrderInv, NothingYet, WrittenWasRead, InOrderAtMostOnce
  <1>4. \A p \in Peers : \A n \in 1..Len(said[p]) : said'[p][n] = said[p][n]
    <2>1. PICK kind \in {"message", "close"} :
             said' = [said EXCEPT ![q] = Append(@, [kind |-> kind, seen |-> SeenBy(q)])]
      BY DEF PeerSays
    <2>2. [kind |-> kind, seen |-> SeenBy(q)] \in Said
      BY SeenType DEF TypeInv, Said
    <2> QED BY <2>1, <2>2, StreamTypes, Added
  <1>5. NoneLost'
    <2> SUFFICES ASSUME pc \in Relaying, NEW p \in Peers, NEW n \in 1..Forwarded(p)
                 PROVE  \E i \in DOMAIN told[Other(p)] :
                           told[Other(p)][i] = [from |-> p, n |-> n, kind |-> said'[p][n].kind]
      BY <1>1, <1>2 DEF NoneLost
    <2>1. n \in 1..Len(said[p])
      BY StreamTypes
    <2> QED BY <1>4, <2>1 DEF OrderInv, NoneLost
  <1> QED BY <1>3, <1>5 DEF OrderInv

LEMMA ReadsOrder == ASSUME TypeInv, OrderInv, NEW p \in Peers PROVE Reads(p) => OrderInv'
  <1> SUFFICES ASSUME Reads(p) PROVE OrderInv'
    OBVIOUS
  <1>1. UNCHANGED <<said, told>> /\ heard'[p] = heard[p] + 1
        /\ \A q \in Peers : q # p => heard'[q] = heard[q]
    BY ReadType DEF Reads, ReadItem
  <1>2. pc \in {"read tui", "read server"} /\ (pc' = Hand(p) \/ pc' \in Ended)
    BY DEF Reads
  <1>3. ASSUME NEW q \in Peers
        PROVE  /\ Forwarded(q) = heard[q] /\ heard[q] \in Nat /\ heard'[q] \in Nat
               /\ Forwarded(q)' \in Int /\ Forwarded(q)' >= Forwarded(q)
               /\ pc' \in Relaying => Forwarded(q)' = Forwarded(q)
    <2>1. Forwarded(q) = heard[q] /\ heard[q] \in Nat /\ heard'[q] \in Nat
      <3>1. ~InHand(q)
        BY <1>2 DEF InHand
      <3>2. heard[q] \in Nat
        BY StreamTypes
      <3>3. heard'[q] = heard[q] \/ heard'[q] = heard[q] + 1
        BY <1>1
      <3> QED BY <3>1, <3>2, <3>3 DEF Forwarded
    <2>2. CASE q = p
      <3>1. pc' \in Relaying => InHand(p)'
        BY <1>2 DEF InHand, Hand, Ended, Relaying, Peers
      <3>2. Forwarded(p)' = heard[p] \/ Forwarded(p)' = heard[p] + 1
        BY <1>1, <2>1, <2>2 DEF Forwarded
      <3>3. InHand(p)' => Forwarded(p)' = heard[p]
        BY <1>1, <2>1, <2>2 DEF Forwarded
      <3> QED BY <2>1, <2>2, <3>1, <3>2, <3>3
    <2>3. CASE q # p
      <3>1. ~InHand(q)'
        BY <1>2, <2>3 DEF InHand, Hand, Ended, Peers
      <3>2. Forwarded(q)' = heard[q]
        BY <1>1, <2>3, <3>1 DEF Forwarded
      <3> QED BY <2>1, <3>2
    <2> QED BY <2>1, <2>2, <2>3
  <1>4. pc' \in Relaying => \A q \in Peers : Forwarded(q)' = Forwarded(q)
    BY <1>3
  <1>5. NothingYet'
    BY <1>2 DEF NothingYet, Beginning, Ended, Hand, Relaying
  <1>6. WrittenWasRead'
    <2> SUFFICES ASSUME NEW q \in Peers, NEW i \in DOMAIN told[q], told[q][i].kind # "notice"
                 PROVE  told[q][i].n <= Forwarded(Other(q))'
      BY <1>1 DEF WrittenWasRead
    <2>1. told[q][i].n <= Forwarded(Other(q)) /\ told[q][i].n \in Nat
      BY ToldItem DEF OrderInv, WrittenWasRead
    <2>2. Forwarded(Other(q))' >= Forwarded(Other(q)) /\ Forwarded(Other(q)) \in Nat
          /\ Forwarded(Other(q))' \in Int
      BY <1>3, OtherPeer
    <2> QED BY <2>1, <2>2
  <1>7. InOrderAtMostOnce'
    BY <1>1 DEF OrderInv, InOrderAtMostOnce
  <1>8. NoneLost'
    <2>1. pc \in Relaying
      BY <1>2 DEF Relaying
    <2> QED BY <1>1, <1>4, <2>1 DEF OrderInv, NoneLost
  <1> QED BY <1>5, <1>6, <1>7, <1>8 DEF OrderInv

LEMMA InspectsOrder == ASSUME TypeInv, OrderInv, Inspects PROVE OrderInv'
  <1>1. UNCHANGED <<said, heard, told>> /\ pc \in Relaying /\ pc \notin Beginning
        /\ pc' \notin Beginning
    BY DEF Inspects, Relaying, Beginning, Ended
  <1>2. \A p \in Peers : Forwarded(p)' = Forwarded(p)
    BY DEF Inspects, Forwarded, InHand, Ended
  <1> QED BY <1>1, <1>2, OtherPeer DEF OrderInv, NothingYet, WrittenWasRead, InOrderAtMostOnce, NoneLost

\* What writing to q adds to the streams.
LEMMA WrittenTo ==
    ASSUME TypeInv, NEW q \in Peers, NEW item \in Told, told' = [told EXCEPT ![q] = Append(@, item)]
    PROVE  /\ \A r \in Peers : Len(told[r]) \in Nat /\ DOMAIN told[r] = 1..Len(told[r])
           /\ \A r \in Peers : r # q => told'[r] = told[r]
           /\ DOMAIN told'[q] = 1..Len(told[q]) + 1 /\ Len(told'[q]) = Len(told[q]) + 1
           /\ \A i \in DOMAIN told[q] : i \in DOMAIN told'[q] /\ told'[q][i] = told[q][i]
           /\ \A i \in DOMAIN told'[q] : i \in DOMAIN told[q] \/ (i = Len(told[q]) + 1 /\ told'[q][i] = item)
           /\ Len(told[q]) + 1 \in DOMAIN told'[q] /\ told'[q][Len(told[q]) + 1] = item
  <1>1. told \in [Peers -> Seq(Told)]
    BY StreamTypes
  <1>2. /\ \A r \in Peers : Len(told[r]) \in Nat /\ DOMAIN told[r] = 1..Len(told[r])
        /\ \A r \in Peers : r # q => told'[r] = told[r]
        /\ DOMAIN told'[q] = 1..Len(told[q]) + 1 /\ Len(told'[q]) = Len(told[q]) + 1
        /\ \A i \in 1..Len(told[q]) : told'[q][i] = told[q][i]
        /\ told'[q][Len(told[q]) + 1] = item
    BY <1>1, Added
  <1>3. \A i \in 1..Len(told[q]) + 1 : i \in 1..Len(told[q]) \/ i = Len(told[q]) + 1
    BY <1>2
  <1>4. Len(told[q]) + 1 \in 1..Len(told[q]) + 1 /\ \A i \in 1..Len(told[q]) : i \in 1..Len(told[q]) + 1
    BY <1>2
  <1> QED BY <1>2, <1>3, <1>4

LEMMA SendsOrder == ASSUME TypeInv, OrderInv, NEW p \in Peers PROVE Sends(p) => OrderInv'
  <1> SUFFICES ASSUME Sends(p) PROVE OrderInv'
    OBVIOUS
  <1> DEFINE q == Other(p)
             item == Item(p, Current(p).kind)
             last == Len(told[q]) + 1
  <1>1. heard[p] \in Nat /\ heard[p] > 0
    BY StreamTypes DEF Sends, Hand, TypeInv, HandHolds, Peers
  <1>2. item \in Told /\ q \in Peers /\ q # p /\ Other(q) = p
    BY <1>1, CurrentIsSaid, OtherPeer
  <1>3. item.n = heard[p] /\ item.from = p /\ item.kind = said[p][heard[p]].kind
    BY DEF Item, Current
  <1>4. told' = [told EXCEPT ![q] = Append(@, item)] /\ UNCHANGED <<said, heard, handled>>
        /\ pc = Hand(p) /\ pc' \in Ended \cup {"read server", "notify request", "inspect"}
    BY DEF Sends
  <1>5. /\ told'[p] = told[p]
        /\ \A i \in DOMAIN told[q] : i \in DOMAIN told'[q] /\ told'[q][i] = told[q][i]
        /\ \A i \in DOMAIN told'[q] : i \in DOMAIN told[q] \/ (i = last /\ told'[q][i] = item)
        /\ last \in DOMAIN told'[q] /\ told'[q][last] = item
        /\ DOMAIN told[q] = 1..Len(told[q]) /\ Len(told[q]) \in Nat
    <2> HIDE DEF item
    <2> QED BY <1>2, <1>4, WrittenTo
  <1>6. \A r \in Peers : r = p \/ r = q
    BY DEF Peers, Other
  <1>7. Forwarded(p) = heard[p] - 1 /\ Forwarded(q) = heard[q]
    BY <1>4, <1>2 DEF Forwarded, InHand, Hand, Peers
  <1>8. Forwarded(p)' = heard[p] /\ Forwarded(q)' = heard[q]
    BY <1>4 DEF Forwarded, InHand, Ended
  <1> HIDE DEF item, q, last
  <1>9. NothingYet'
    BY <1>4 DEF NothingYet, Beginning, Ended, Relaying
  <1>10. WrittenWasRead'
    <2>1. ASSUME NEW i \in DOMAIN told'[p], told'[p][i].kind # "notice"
          PROVE  told'[p][i].n <= Forwarded(Other(p))'
      <3>1. told[p][i].n <= Forwarded(q)
        BY <1>5, <2>1 DEF OrderInv, WrittenWasRead, q
      <3> QED BY <1>5, <1>7, <1>8, <3>1 DEF q
    <2>2. ASSUME NEW i \in DOMAIN told'[q], told'[q][i].kind # "notice"
          PROVE  told'[q][i].n <= Forwarded(Other(q))'
      <3>1. CASE i \in DOMAIN told[q]
        <4>1. told[q][i].n <= Forwarded(p) /\ told[q][i].n \in Nat
          BY <1>2, <1>5, <2>2, <3>1, ToldItem DEF OrderInv, WrittenWasRead
        <4>2. told'[q][i].n <= heard[p]
          BY <1>1, <1>5, <1>7, <3>1, <4>1
        <4> QED BY <1>2, <1>8, <4>2
      <3>2. CASE told'[q][i] = item
        BY <1>1, <1>2, <1>3, <1>8, <3>2
      <3> QED BY <1>5, <3>1, <3>2
    <2> QED BY <1>6, <2>1, <2>2 DEF WrittenWasRead
  <1>11. InOrderAtMostOnce'
    <2>1. ASSUME NEW i \in DOMAIN told'[p], NEW j \in DOMAIN told'[p], i < j,
                 told'[p][i].kind # "notice", told'[p][j].kind # "notice"
          PROVE  told'[p][i].n < told'[p][j].n
      BY <1>5, <2>1 DEF OrderInv, InOrderAtMostOnce
    <2>2. ASSUME NEW i \in DOMAIN told'[q], NEW j \in DOMAIN told'[q], i < j,
                 told'[q][i].kind # "notice", told'[q][j].kind # "notice"
          PROVE  told'[q][i].n < told'[q][j].n
      <3>1. i \in DOMAIN told[q]
        BY <1>5, <2>2 DEF last
      <3>2. CASE j \in DOMAIN told[q]
        BY <1>2, <1>5, <2>2, <3>1, <3>2 DEF OrderInv, InOrderAtMostOnce
      <3>3. CASE told'[q][j] = item
        <4>1. told[q][i].n <= Forwarded(p) /\ told[q][i].n \in Nat
          BY <1>2, <1>5, <2>2, <3>1, ToldItem DEF OrderInv, WrittenWasRead
        <4>2. told'[q][i].n < heard[p]
          BY <1>1, <1>5, <1>7, <3>1, <4>1
        <4> QED BY <1>3, <3>3, <4>2
      <3> QED BY <1>5, <3>2, <3>3
    <2> QED BY <1>6, <2>1, <2>2 DEF InOrderAtMostOnce
  <1>12. NoneLost'
    <2>1. pc \in Relaying
      BY <1>4 DEF Hand, Relaying
    <2>2. ASSUME NEW n \in 1..Forwarded(p)'
          PROVE  \E i \in DOMAIN told'[Other(p)] :
                    told'[Other(p)][i] = [from |-> p, n |-> n, kind |-> said'[p][n].kind]
      <3>1. CASE n = heard[p]
        <4>1. item = [from |-> p, n |-> n, kind |-> said'[p][n].kind]
          BY <1>4, <3>1 DEF item, Item, Current
        <4> QED BY <1>5, <4>1 DEF q
      <3>2. CASE n # heard[p]
        <4>1. n \in 1..Forwarded(p)
          BY <1>1, <1>7, <1>8, <3>2
        <4>2. PICK i \in DOMAIN told[q] : told[q][i] = [from |-> p, n |-> n, kind |-> said[p][n].kind]
          BY <2>1, <4>1 DEF OrderInv, NoneLost, q
        <4> QED BY <1>4, <1>5, <4>2 DEF q
      <3> QED BY <3>1, <3>2
    <2>3. ASSUME NEW n \in 1..Forwarded(q)'
          PROVE  \E i \in DOMAIN told'[Other(q)] :
                    told'[Other(q)][i] = [from |-> q, n |-> n, kind |-> said'[q][n].kind]
      <3>1. PICK i \in DOMAIN told[p] : told[p][i] = [from |-> q, n |-> n, kind |-> said[q][n].kind]
        BY <1>2, <1>7, <1>8, <2>1 DEF OrderInv, NoneLost
      <3> QED BY <1>2, <1>4, <1>5, <3>1
    <2> QED BY <1>6, <2>2, <2>3 DEF NoneLost
  <1> QED BY <1>9, <1>10, <1>11, <1>12 DEF OrderInv

LEMMA NotifiesOrder == ASSUME TypeInv, OrderInv, NEW p \in Peers PROVE Notifies(p) => OrderInv'
  <1> SUFFICES ASSUME Notifies(p) PROVE OrderInv'
    OBVIOUS
  <1> DEFINE item == Item(p, "notice")
             last == Len(told["tui"]) + 1
  <1>1. item \in Told /\ item.kind = "notice" /\ "tui" \in Peers
    BY StreamTypes DEF Item, Told, Peers
  <1>2. /\ told' = [told EXCEPT !["tui"] = Append(@, item)] /\ UNCHANGED <<said, heard, handled>>
        /\ pc \in {"notify request", "notify event"}
        /\ pc' \in {"notify request", "notify event", "read server", "read tui"}
    BY DEF Notifies
  <1>3. /\ told'["server"] = told["server"]
        /\ \A i \in DOMAIN told["tui"] : i \in DOMAIN told'["tui"] /\ told'["tui"][i] = told["tui"][i]
        /\ \A i \in DOMAIN told'["tui"] : i \in DOMAIN told["tui"] \/ (i = last /\ told'["tui"][i] = item)
    <2> HIDE DEF item
    <2> QED BY <1>1, <1>2, WrittenTo DEF Peers
  <1> HIDE DEF item, last
  <1>4. \A q \in Peers : Forwarded(q) = heard[q] /\ Forwarded(q)' = heard[q]
    BY <1>2 DEF Forwarded, InHand
  <1>5. \A q \in Peers : \A i \in DOMAIN told'[q] :
            told'[q][i].kind # "notice" => i \in DOMAIN told[q] /\ told'[q][i] = told[q][i]
    BY <1>1, <1>3 DEF Peers
  <1>6. \A q \in Peers : \A i \in DOMAIN told[q] : i \in DOMAIN told'[q] /\ told'[q][i] = told[q][i]
    BY <1>3 DEF Peers
  <1>7. NothingYet'
    BY <1>2 DEF NothingYet, Beginning, Relaying
  <1>8. WrittenWasRead'
    BY <1>4, <1>5, OtherPeer DEF OrderInv, WrittenWasRead
  <1>9. InOrderAtMostOnce'
    BY <1>5 DEF OrderInv, InOrderAtMostOnce
  <1>10. NoneLost'
    <2>1. pc \in Relaying
      BY <1>2 DEF Relaying
    <2> SUFFICES ASSUME NEW q \in Peers, NEW n \in 1..Forwarded(q)'
                 PROVE  \E i \in DOMAIN told'[Other(q)] :
                           told'[Other(q)][i] = [from |-> q, n |-> n, kind |-> said'[q][n].kind]
      BY DEF NoneLost
    <2>2. PICK i \in DOMAIN told[Other(q)] :
             told[Other(q)][i] = [from |-> q, n |-> n, kind |-> said[q][n].kind]
      BY <1>4, <2>1 DEF OrderInv, NoneLost
    <2> QED BY <1>2, <1>6, <2>2, OtherPeer
  <1> QED BY <1>7, <1>8, <1>9, <1>10 DEF OrderInv

LEMMA OrderStep == ASSUME TypeInv, OrderInv PROVE [Next]_vars => OrderInv'
  BY NextEffect, QuietOrder, SaysOrder, ReadsOrder, InspectsOrder, SendsOrder, NotifiesOrder
     DEF Effect

-----------------------------------------------------------------------------
(* Notices *)

\* Until its notices are written, an event is the last thing from App Server that the
\* TUI was sent.
EventJustWritten ==
    pc \in {"inspect", "notify event"} =>
        /\ Len(told["tui"]) > 0
        /\ told["tui"][Len(told["tui"])].from = "server"
        /\ told["tui"][Len(told["tui"])].n = heard["server"]

NoticeInv == EventJustWritten /\ NoticesFollow

LEMMA SendsNotice ==
    ASSUME TypeInv, OrderInv, NoticeInv, NEW p \in Peers PROVE Sends(p) => NoticeInv'
  <1> SUFFICES ASSUME Sends(p) PROVE NoticeInv'
    OBVIOUS
  <1> DEFINE item == Item(p, Current(p).kind)
  <1>1. heard[p] \in Nat /\ heard[p] > 0
    BY StreamTypes DEF Sends, Hand, TypeInv, HandHolds, Peers
  <1>2. item \in Told /\ item.kind # "notice" /\ item.from = p /\ item.n = heard[p]
    BY <1>1, CurrentIsSaid DEF Item, Said
  <1>3. told' = [told EXCEPT ![Other(p)] = Append(@, item)] /\ UNCHANGED heard
        /\ \/ pc' \in Ended
           \/ pc' \in (IF p = "tui" THEN {"read server", "notify request"} ELSE {"inspect"})
    BY DEF Sends
  <1> HIDE DEF item
  <1>4. CASE p = "tui"
    <2>1. /\ told'["tui"] = told["tui"]
          /\ \A i \in DOMAIN told["server"] :
                i \in DOMAIN told'["server"] /\ told'["server"][i] = told["server"][i]
      BY <1>2, <1>3, <1>4, WrittenTo DEF Other, Peers
    <2>2. EventJustWritten'
      BY <1>3, <1>4 DEF EventJustWritten, Ended
    <2>3. NoticesFollow'
      BY <2>1 DEF NoticeInv, NoticesFollow
    <2> QED BY <2>2, <2>3 DEF NoticeInv
  <1>5. CASE p = "server"
    <2> DEFINE last == Len(told["tui"]) + 1
    <2>1. /\ told'["server"] = told["server"]
          /\ DOMAIN told["tui"] = 1..Len(told["tui"]) /\ Len(told["tui"]) \in Nat
          /\ Len(told'["tui"]) = last
          /\ \A i \in DOMAIN told["tui"] : told'["tui"][i] = told["tui"][i]
          /\ \A i \in DOMAIN told'["tui"] : i \in DOMAIN told["tui"] \/ (i = last /\ told'["tui"][i] = item)
          /\ told'["tui"][last] = item
      BY <1>2, <1>3, <1>5, WrittenTo DEF Other, Peers
    <2>2. EventJustWritten'
      <3>1. told'["tui"][Len(told'["tui"])] = item
        BY <2>1
      <3>2. item.from = "server" /\ item.n = heard'["server"]
        BY <1>2, <1>3, <1>5
      <3>3. Len(told'["tui"]) > 0
        BY <2>1
      <3> QED BY <3>1, <3>2, <3>3 DEF EventJustWritten
    <2>3. NoticesFollow'
      <3> SUFFICES ASSUME NEW i \in DOMAIN told'["tui"], told'["tui"][i].kind = "notice"
                   PROVE  IF told'["tui"][i].from = "server"
                          THEN i > 1 /\ told'["tui"][i-1].from = "server" /\ told'["tui"][i-1].n = told'["tui"][i].n
                          ELSE \E j \in DOMAIN told'["server"] : told'["server"][j].n = told'["tui"][i].n
        BY DEF NoticesFollow
      <3>1. i \in DOMAIN told["tui"] /\ told'["tui"][i] = told["tui"][i]
        BY <1>2, <2>1
      <3>2. i > 1 => i - 1 \in DOMAIN told["tui"]
        BY <2>1, <3>1
      <3> QED BY <2>1, <3>1, <3>2 DEF NoticeInv, NoticesFollow
    <2> QED BY <2>2, <2>3 DEF NoticeInv
  <1> QED BY <1>4, <1>5 DEF Peers

LEMMA NotifiesNotice ==
    ASSUME TypeInv, OrderInv, NoticeInv, NEW p \in Peers PROVE Notifies(p) => NoticeInv'
  <1> SUFFICES ASSUME Notifies(p) PROVE NoticeInv'
    OBVIOUS
  <1> DEFINE item == Item(p, "notice")
             last == Len(told["tui"]) + 1
  <1>1. item \in Told /\ item.from = p /\ item.n = heard[p] /\ "tui" \in Peers
    BY StreamTypes DEF Item, Told, Peers
  <1>2. /\ told' = [told EXCEPT !["tui"] = Append(@, item)] /\ UNCHANGED heard
        /\ pc = (IF p = "tui" THEN "notify request" ELSE "notify event")
        /\ pc' = pc \/ pc' = (IF p = "tui" THEN "read server" ELSE "read tui")
    BY DEF Notifies
  <1>3. /\ told'["server"] = told["server"]
        /\ DOMAIN told["tui"] = 1..Len(told["tui"]) /\ Len(told["tui"]) \in Nat
        /\ Len(told'["tui"]) = last
        /\ \A i \in DOMAIN told["tui"] : told'["tui"][i] = told["tui"][i]
        /\ \A i \in DOMAIN told'["tui"] : i \in DOMAIN told["tui"] \/ (i = last /\ told'["tui"][i] = item)
        /\ told'["tui"][last] = item
    <2> HIDE DEF item
    <2> QED BY <1>1, <1>2, WrittenTo DEF Peers
  <1> HIDE DEF item, last
  <1>4. EventJustWritten'
    <2> SUFFICES ASSUME p = "server" PROVE EventJustWritten'
      BY <1>2 DEF EventJustWritten, Peers
    <2>1. told'["tui"][Len(told'["tui"])] = item
      BY <1>3
    <2>2. item.from = "server" /\ item.n = heard'["server"]
      BY <1>1, <1>2
    <2>3. Len(told'["tui"]) > 0
      BY <1>3 DEF last
    <2> QED BY <2>1, <2>2, <2>3 DEF EventJustWritten
  <1>5. ASSUME p = "server"
        PROVE  /\ last > 1 /\ last - 1 \in DOMAIN told["tui"]
               /\ told["tui"][last - 1].from = "server" /\ told["tui"][last - 1].n = heard[p]
    <2>1. /\ Len(told["tui"]) > 0
          /\ told["tui"][Len(told["tui"])].from = "server"
          /\ told["tui"][Len(told["tui"])].n = heard["server"]
      BY <1>2, <1>5 DEF NoticeInv, EventJustWritten
    <2>2. last - 1 = Len(told["tui"]) /\ last > 1 /\ last - 1 \in DOMAIN told["tui"]
      BY <1>3, <2>1 DEF last
    <2> QED BY <1>5, <2>1, <2>2
  <1>6. p = "tui" => \E j \in DOMAIN told["server"] : told["server"][j].n = heard[p]
    <2> SUFFICES ASSUME p = "tui" PROVE \E j \in DOMAIN told["server"] : told["server"][j].n = heard[p]
      OBVIOUS
    <2>1. pc = "notify request" /\ pc \in Relaying
      BY <1>2 DEF Relaying
    <2>2. heard[p] \in Nat /\ heard[p] > 0
      BY <2>1, StreamTypes DEF TypeInv, HandHolds
    <2>3. Forwarded(p) = heard[p]
      BY <2>1 DEF Forwarded, InHand
    <2>4. heard[p] \in 1..Forwarded(p)
      BY <2>2, <2>3
    <2>5. PICK j \in DOMAIN told[Other(p)] :
             told[Other(p)][j] = [from |-> p, n |-> heard[p], kind |-> said[p][heard[p]].kind]
      BY <2>1, <2>4 DEF OrderInv, NoneLost
    <2>6. Other(p) = "server"
      BY DEF Other
    <2> QED BY <2>5, <2>6
  <1>7. NoticesFollow'
    <2> SUFFICES ASSUME NEW i \in DOMAIN told'["tui"], told'["tui"][i].kind = "notice"
                 PROVE  IF told'["tui"][i].from = "server"
                        THEN i > 1 /\ told'["tui"][i-1].from = "server" /\ told'["tui"][i-1].n = told'["tui"][i].n
                        ELSE \E j \in DOMAIN told'["server"] : told'["server"][j].n = told'["tui"][i].n
      BY DEF NoticesFollow
    <2>1. CASE i \in DOMAIN told["tui"]
      <3>1. i > 1 => i - 1 \in DOMAIN told["tui"]
        BY <1>3, <2>1
      <3> QED BY <1>3, <2>1, <3>1 DEF NoticeInv, NoticesFollow
    <2>2. CASE i = last /\ told'["tui"][i] = item
      BY <1>1, <1>3, <1>5, <1>6, <2>2 DEF Peers
    <2> QED BY <1>3, <2>1, <2>2
  <1> QED BY <1>4, <1>7 DEF NoticeInv

LEMMA NoticeStep == ASSUME TypeInv, OrderInv, NoticeInv PROVE [Next]_vars => NoticeInv'
  <1>1. CASE Quiet
    BY <1>1 DEF Quiet, NoticeInv, EventJustWritten, NoticesFollow, Ended, Beginning, Relaying
  <1>2. CASE Inspects
    BY <1>2 DEF Inspects, NoticeInv, EventJustWritten, NoticesFollow, Ended
  <1>3. ASSUME NEW p \in Peers, PeerSays(p) PROVE NoticeInv'
    BY <1>3 DEF PeerSays, NoticeInv, EventJustWritten, NoticesFollow
  <1>4. ASSUME NEW p \in Peers, Reads(p) PROVE NoticeInv'
    <2>1. UNCHANGED told /\ pc' \notin {"inspect", "notify event"}
      BY <1>4 DEF Reads, ReadItem, Hand, Ended
    <2> QED BY <2>1 DEF NoticeInv, EventJustWritten, NoticesFollow
  <1> QED BY <1>1, <1>2, <1>3, <1>4, NextEffect, SendsNotice, NotifiesNotice DEF Effect

LEMMA StreamsInit == Init => OrderInv /\ NoticeInv
  <1> SUFFICES ASSUME Init PROVE OrderInv /\ NoticeInv
    OBVIOUS
  <1>1. pc = "start" /\ \A p \in Peers : heard[p] = 0 /\ told[p] = <<>>
    BY DEF Init
  <1>2. OrderInv
    BY <1>1, OtherPeer DEF OrderInv, NothingYet, WrittenWasRead, InOrderAtMostOnce, NoneLost, Relaying
  <1>3. NoticeInv
    BY <1>1 DEF NoticeInv, EventJustWritten, NoticesFollow, Peers
  <1> QED BY <1>2, <1>3

\* The relay is transparent, whatever the sizes of buffers and the speed of its peers:
\* what one sends the other gets once and in order, and notices keep their place.
THEOREM StreamsAreAlwaysFaithful == Spec => []StreamsAreFaithful
  <1>1. TypeInv /\ OrderInv /\ NoticeInv => StreamsAreFaithful
    BY DEF OrderInv, NoticeInv, StreamsAreFaithful
  <1> QED BY <1>1, TypeInit, TypeStep, StreamsInit, OrderStep, NoticeStep, PTL DEF Spec

-----------------------------------------------------------------------------
(* The interceptor *)

GivenIn(h, p, n) == \E i \in DOMAIN h : h[i] = [from |-> p, n |-> n]

HandledWasRead == \A i \in DOMAIN handled : handled[i].n \in 1..heard[handled[i].from]

\* What a peer had read when it wrote a message was written to it before.
Written(p, n) == \E i \in DOMAIN told[p] : told[p][i].kind = "message" /\ told[p][i].n = n
SeenWasWritten == \A p \in Peers : \A k \in DOMAIN said[p] : \A n \in said[p][k].seen : Written(p, n)

\* A message is handled before it is written, an event right after that.
WrittenWasHandled ==
    pc \in Relaying =>
        \A p \in Peers : \A i \in DOMAIN told[p] : told[p][i].kind = "message" =>
            \/ GivenIn(handled, Other(p), told[p][i].n)
            \/ p = "tui" /\ pc = "inspect" /\ told[p][i].n = heard["server"]
InHandWasHandled ==
    (pc = "forward request" /\ Current("tui").kind = "message") => GivenIn(handled, "tui", heard["tui"])

StepInv ==
    HandledWasRead /\ SeenWasWritten /\ WrittenWasHandled /\ InHandWasHandled /\ InterceptorInStep

LEMMA ItemOf == ASSUME NEW S, NEW s \in Seq(S), NEW i \in DOMAIN s PROVE s[i] \in S
  OBVIOUS

LEMMA HandledTypes ==
    ASSUME TypeInv
    PROVE  /\ handled \in Seq([from : Peers, n : Nat])
           /\ Len(handled) \in Nat /\ DOMAIN handled = 1..Len(handled)
           /\ \A i \in DOMAIN handled : handled[i].from \in Peers /\ handled[i].n \in Nat
  <1>1. handled \in Seq([from : Peers, n : Nat])
    BY DEF TypeInv, TypeOK
  <1>2. \A i \in DOMAIN handled : handled[i] \in [from : Peers, n : Nat]
    BY <1>1, ItemOf
  <1>3. Len(handled) \in Nat /\ DOMAIN handled = 1..Len(handled)
    BY <1>1
  <1> QED BY <1>1, <1>2, <1>3

LEMMA SeenIsNat ==
    ASSUME TypeInv
    PROVE  \A p \in Peers : \A k \in DOMAIN said[p] : said[p][k].seen \subseteq Nat
  <1> SUFFICES ASSUME NEW p \in Peers, NEW k \in DOMAIN said[p] PROVE said[p][k].seen \subseteq Nat
    OBVIOUS
  <1>1. said[p] \in Seq(Said)
    BY StreamTypes
  <1>2. said[p][k] \in Said
    BY <1>1, ItemOf
  <1> QED BY <1>2 DEF Said

\* One more message for the interceptor.
LEMMA HandledMore ==
    ASSUME TypeInv, NEW p \in Peers, NEW n \in Nat,
           handled' = Append(handled, [from |-> p, n |-> n])
    PROVE  /\ \A i \in DOMAIN handled : i \in DOMAIN handled' /\ handled'[i] = handled[i]
           /\ \A i \in DOMAIN handled' : \/ i \in DOMAIN handled
                                         \/ i = Len(handled) + 1 /\ handled'[i] = [from |-> p, n |-> n]
           /\ GivenIn(handled', p, n)
           /\ \A q \in Peers, k \in Nat : GivenIn(handled, q, k) => GivenIn(handled', q, k)
  <1> DEFINE m == [from |-> p, n |-> n]
  <1>1. m \in [from : Peers, n : Nat]
    OBVIOUS
  <1> HIDE DEF m
  <1>2. /\ Len(handled) \in Nat /\ DOMAIN handled = 1..Len(handled)
        /\ DOMAIN handled' = 1..Len(handled) + 1
        /\ \A i \in 1..Len(handled) : handled'[i] = handled[i]
        /\ handled'[Len(handled) + 1] = m
    BY <1>1, HandledTypes, AppendAt DEF m
  <1>3. \A i \in 1..Len(handled) + 1 : i \in 1..Len(handled) \/ i = Len(handled) + 1
    BY <1>2
  <1>4. Len(handled) + 1 \in 1..Len(handled) + 1 /\ \A i \in 1..Len(handled) : i \in 1..Len(handled) + 1
    BY <1>2
  <1>5. \A i \in DOMAIN handled : i \in DOMAIN handled' /\ handled'[i] = handled[i]
    BY <1>2, <1>4
  <1>6. GivenIn(handled', p, n)
    BY <1>2, <1>4 DEF GivenIn, m
  <1> QED BY <1>2, <1>3, <1>5, <1>6 DEF GivenIn, m

\* A message that its author wrote after reading n was handled after n, if n was.
LEMMA HandledKeepsStep ==
    ASSUME TypeInv, InterceptorInStep, NEW p \in Peers, NEW n \in Nat,
           handled' = Append(handled, [from |-> p, n |-> n]), UNCHANGED said,
           \A k \in said[p][n].seen : GivenIn(handled, Other(p), k)
    PROVE  InterceptorInStep'
  <1> SUFFICES ASSUME NEW i \in DOMAIN handled', NEW k \in said[handled'[i].from][handled'[i].n].seen
               PROVE  \E j \in 1..i-1 : handled'[j] = [from |-> Other(handled'[i].from), n |-> k]
    BY DEF InterceptorInStep
  <1>1. CASE i \in DOMAIN handled
    <2>1. handled'[i] = handled[i]
      BY <1>1, HandledMore
    <2>2. PICK j \in 1..i-1 : handled[j] = [from |-> Other(handled[i].from), n |-> k]
      BY <1>1, <2>1 DEF InterceptorInStep
    <2>3. j \in DOMAIN handled
      BY <1>1, HandledTypes
    <2> QED BY <2>1, <2>2, <2>3, HandledMore
  <1>2. CASE i = Len(handled) + 1 /\ handled'[i] = [from |-> p, n |-> n]
    <2>1. GivenIn(handled, Other(p), k)
      BY <1>2
    <2>2. PICK j \in DOMAIN handled : handled[j] = [from |-> Other(p), n |-> k]
      BY <2>1 DEF GivenIn
    <2>3. j \in 1..i-1
      BY <1>2, HandledTypes
    <2> QED BY <1>2, <2>2, <2>3, HandledMore
  <1> QED BY <1>1, <1>2, HandledMore

LEMMA QuietStep == ASSUME TypeInv, OrderInv, StepInv, Quiet PROVE StepInv'
  <1>1. UNCHANGED <<said, heard, told, handled>> /\ \A p, n : GivenIn(handled', p, n) <=> GivenIn(handled, p, n)
    BY DEF Quiet, GivenIn
  <1>2. HandledWasRead' /\ SeenWasWritten' /\ InterceptorInStep'
    BY <1>1 DEF StepInv, HandledWasRead, SeenWasWritten, Written, InterceptorInStep
  <1>3. WrittenWasHandled'
    <2> SUFFICES ASSUME pc' \in Relaying PROVE WrittenWasHandled'
      BY DEF WrittenWasHandled
    <2>1. CASE pc \in Relaying
      <3>1. pc = "inspect" => pc' = "inspect"
        BY DEF Quiet, Ended, Relaying, Beginning
      <3> QED BY <1>1, <2>1, <3>1 DEF StepInv, WrittenWasHandled
    <2>2. CASE pc \notin Relaying
      <3>1. pc \in Beginning
        BY <2>2 DEF Quiet, Relaying, Ended, Beginning, Phases
      <3>2. \A p \in Peers : DOMAIN told'[p] = {}
        BY <1>1, <3>1 DEF OrderInv, NothingYet
      <3> QED BY <3>2 DEF WrittenWasHandled
    <2> QED BY <2>1, <2>2
  <1>4. InHandWasHandled'
    <2>1. pc' = "forward request" => pc = "forward request"
      BY DEF Quiet, Ended, Relaying, Beginning
    <2> QED BY <1>1, <2>1 DEF StepInv, InHandWasHandled, Current
  <1> QED BY <1>2, <1>3, <1>4 DEF StepInv

LEMMA SaysStep == ASSUME TypeInv, StepInv, NEW q \in Peers PROVE PeerSays(q) => StepInv'
  <1> SUFFICES ASSUME PeerSays(q) PROVE StepInv'
    OBVIOUS
  <1>1. UNCHANGED <<pc, heard, told, handled>> /\ \A p, n : GivenIn(handled', p, n) <=> GivenIn(handled, p, n)
    BY DEF PeerSays, GivenIn
  <1>2. PICK kind \in {"message", "close"} :
           said' = [said EXCEPT ![q] = Append(@, [kind |-> kind, seen |-> SeenBy(q)])]
    BY DEF PeerSays
  <1>3. [kind |-> kind, seen |-> SeenBy(q)] \in Said
    BY SeenType DEF TypeInv, Said
  <1>4. /\ \A p \in Peers : \A k \in 1..Len(said[p]) : said'[p][k] = said[p][k]
        /\ \A p \in Peers : \A k \in DOMAIN said'[p] :
              k \in DOMAIN said[p] \/ (p = q /\ said'[p][k].seen = SeenBy(q))
    <2> DEFINE x == [kind |-> kind, seen |-> SeenBy(q)]
    <2>1. x.seen = SeenBy(q) /\ x \in Said
      BY <1>3
    <2> HIDE DEF x
    <2>2. /\ \A p \in Peers : Len(said[p]) \in Nat /\ DOMAIN said[p] = 1..Len(said[p])
          /\ \A p \in Peers : p # q => said'[p] = said[p]
          /\ DOMAIN said'[q] = 1..Len(said[q]) + 1
          /\ \A k \in 1..Len(said[q]) : said'[q][k] = said[q][k]
          /\ said'[q][Len(said[q]) + 1] = x
      BY <1>2, <2>1, StreamTypes, Added DEF x
    <2>3. \A k \in 1..Len(said[q]) + 1 : k \in 1..Len(said[q]) \/ k = Len(said[q]) + 1
      BY <2>2
    <2> QED BY <2>1, <2>2, <2>3
  <1>5. HandledWasRead'
    BY <1>1 DEF StepInv, HandledWasRead
  <1>6. SeenWasWritten'
    <2>1. ASSUME NEW n \in SeenBy(q) PROVE Written(q, n)
      <3>1. PICK i \in 1..got[q] : told[q][i].kind = "message" /\ told[q][i].n = n
        BY <2>1 DEF SeenBy
      <3>2. i \in DOMAIN told[q]
        BY DEF TypeInv, TypeOK
      <3> QED BY <3>1, <3>2 DEF Written
    <2>2. \A p \in Peers : \A k \in DOMAIN said[p] : said'[p][k] = said[p][k]
      BY <1>4, StreamTypes
    <2>3. \A p \in Peers, n \in Nat : Written(p, n)' <=> Written(p, n)
      BY <1>1 DEF Written
    <2> SUFFICES ASSUME NEW p \in Peers, NEW k \in DOMAIN said'[p], NEW n \in said'[p][k].seen
                 PROVE  Written(p, n)'
      BY DEF SeenWasWritten
    <2>4. Written(p, n)
      BY <1>4, <2>1, <2>2 DEF StepInv, SeenWasWritten
    <2> QED BY <1>1, <2>4 DEF Written
  <1>7. WrittenWasHandled'
    BY <1>1 DEF StepInv, WrittenWasHandled
  <1>8. InHandWasHandled'
    <2>1. pc = "forward request" => heard["tui"] \in 1..Len(said["tui"])
      <3> SUFFICES ASSUME pc = "forward request" PROVE heard["tui"] \in 1..Len(said["tui"])
        OBVIOUS
      <3>1. heard["tui"] > 0 /\ "tui" \in Peers
        BY DEF TypeInv, HandHolds, Peers
      <3> QED BY <3>1, CurrentIsSaid, StreamTypes
    <2> QED BY <1>1, <1>4, <2>1 DEF StepInv, InHandWasHandled, Current, Peers
  <1>9. InterceptorInStep'
    <2> SUFFICES ASSUME NEW i \in DOMAIN handled, NEW n \in said'[handled[i].from][handled[i].n].seen
                 PROVE  \E j \in 1..i-1 : handled[j] = [from |-> Other(handled[i].from), n |-> n]
      BY <1>1 DEF InterceptorInStep
    <2>1. handled[i].from \in Peers /\ handled[i].n \in 1..Len(said[handled[i].from])
      <3>1. handled[i].from \in Peers /\ handled[i].n \in 1..heard[handled[i].from]
        BY HandledTypes DEF StepInv, HandledWasRead
      <3>2. \A p \in Peers : heard[p] \in Nat /\ heard[p] <= Len(said[p]) /\ Len(said[p]) \in Nat
        BY StreamTypes
      <3> QED BY <3>1, <3>2
    <2>2. said'[handled[i].from][handled[i].n] = said[handled[i].from][handled[i].n]
      BY <1>4, <2>1
    <2> QED BY <2>2 DEF StepInv, InterceptorInStep
  <1> QED BY <1>5, <1>6, <1>7, <1>8, <1>9 DEF StepInv


LEMMA ReadsStep == ASSUME TypeInv, StepInv, NEW p \in Peers PROVE Reads(p) => StepInv'
  <1> SUFFICES ASSUME Reads(p) PROVE StepInv'
    OBVIOUS
  <1>1. UNCHANGED <<said, told>> /\ heard'[p] = heard[p] + 1 /\ heard[p] + 1 \in Nat
        /\ \A q \in Peers : q # p => heard'[q] = heard[q]
    BY ReadType DEF Reads, ReadItem
  <1>2. pc \in Relaying /\ pc \notin {"forward request", "inspect"}
        /\ (pc' = Hand(p) \/ pc' \in Ended)
    BY DEF Reads, Relaying
  <1>3. \A q \in Peers : heard[q] \in Nat /\ heard'[q] \in Nat /\ heard[q] <= heard'[q]
    <2>1. \A q \in Peers : heard[q] \in Nat
      BY StreamTypes
    <2> QED BY <1>1, <2>1
  <1>4. SeenWasWritten'
    BY <1>1 DEF StepInv, SeenWasWritten, Written
  <1>5. \A q \in Peers, k \in Nat : Written(q, k) => GivenIn(handled, Other(q), k)
    BY <1>2 DEF StepInv, WrittenWasHandled, Written
  <1>6. CASE UNCHANGED handled /\ (p = "tui" => said[p][heard[p] + 1].kind = "close")
    <2>1. \A q, n : GivenIn(handled', q, n) <=> GivenIn(handled, q, n)
      BY <1>6 DEF GivenIn
    <2>2. HandledWasRead'
      <3> SUFFICES ASSUME NEW i \in DOMAIN handled PROVE handled[i].n \in 1..heard'[handled[i].from]
        BY <1>6 DEF HandledWasRead
      <3>1. handled[i].n \in 1..heard[handled[i].from] /\ handled[i].from \in Peers
        BY HandledTypes DEF StepInv, HandledWasRead
      <3> QED BY <1>3, <3>1
    <2>3. WrittenWasHandled'
      BY <1>1, <1>2, <2>1 DEF StepInv, WrittenWasHandled
    <2>4. InHandWasHandled'
      <3>1. pc' = "forward request" => p = "tui"
        BY <1>2 DEF Hand, Ended, Peers
      <3> QED BY <1>1, <1>6, <3>1 DEF InHandWasHandled, Current
    <2>5. InterceptorInStep'
      BY <1>1, <1>6 DEF StepInv, InterceptorInStep
    <2> QED BY <1>4, <2>2, <2>3, <2>4, <2>5 DEF StepInv
  <1>7. CASE p = "tui" /\ handled' = Append(handled, [from |-> p, n |-> heard[p] + 1])
    <2>1. HandledWasRead'
      <3> SUFFICES ASSUME NEW i \in DOMAIN handled' PROVE handled'[i].n \in 1..heard'[handled'[i].from]
        BY DEF HandledWasRead
      <3>1. CASE i \in DOMAIN handled
        <4>1. handled[i].n \in 1..heard[handled[i].from] /\ handled[i].from \in Peers
          BY <3>1, HandledTypes DEF StepInv, HandledWasRead
        <4>2. handled'[i] = handled[i]
          BY <1>1, <1>7, <3>1, HandledMore
        <4> QED BY <1>3, <4>1, <4>2
      <3>2. CASE handled'[i] = [from |-> p, n |-> heard[p] + 1]
        <4>1. heard[p] \in Nat
          BY <1>3
        <4> QED BY <1>1, <3>2, <4>1
      <3> QED BY <1>1, <1>7, <3>1, <3>2, HandledMore
    <2>2. GivenIn(handled', p, heard[p] + 1) /\ \A q \in Peers, k \in Nat : GivenIn(handled, q, k) => GivenIn(handled', q, k)
      BY <1>1, <1>7, HandledMore
    <2>3. WrittenWasHandled'
      <3> SUFFICES ASSUME NEW q \in Peers, NEW i \in DOMAIN told[q], told[q][i].kind = "message"
                   PROVE  GivenIn(handled', Other(q), told[q][i].n)
        BY <1>1 DEF WrittenWasHandled
      <3>1. told[q][i].n \in Nat
        BY ToldItem
      <3>2. GivenIn(handled, Other(q), told[q][i].n)
        BY <1>2 DEF StepInv, WrittenWasHandled
      <3> QED BY <2>2, <3>1, <3>2, OtherPeer
    <2>4. InHandWasHandled'
      <3>1. GivenIn(handled', "tui", heard'["tui"])
        BY <1>1, <1>7, <2>2
      <3> QED BY <3>1 DEF InHandWasHandled
    <2>5. InterceptorInStep'
      <3>1. heard[p] + 1 \in DOMAIN said[p]
        <4>1. heard[p] \in Nat /\ heard[p] < Len(said[p]) /\ Len(said[p]) \in Nat
              /\ DOMAIN said[p] = 1..Len(said[p])
          BY StreamTypes DEF Reads, ReadItem
        <4> QED BY <4>1
      <3>2. \A k \in said[p][heard[p] + 1].seen : Written(p, k) /\ k \in Nat
        BY <3>1, SeenIsNat DEF StepInv, SeenWasWritten
      <3>3. \A k \in said[p][heard[p] + 1].seen : GivenIn(handled, Other(p), k)
        BY <1>5, <3>2
      <3> QED BY <1>1, <1>7, <3>3, HandledKeepsStep DEF StepInv
    <2> QED BY <1>4, <2>1, <2>3, <2>4, <2>5 DEF StepInv
  <1>8. \/ UNCHANGED handled /\ (p = "tui" => said[p][heard[p] + 1].kind = "close")
        \/ p = "tui" /\ handled' = Append(handled, [from |-> p, n |-> heard[p] + 1])
    BY DEF Reads
  <1> QED BY <1>6, <1>7, <1>8

LEMMA SameHandled ==
    ASSUME StepInv, UNCHANGED <<said, heard, handled>> PROVE HandledWasRead' /\ InterceptorInStep'
  BY DEF StepInv, HandledWasRead, InterceptorInStep

LEMMA SameTold == ASSUME StepInv, UNCHANGED <<said, told>> PROVE SeenWasWritten'
  BY DEF StepInv, SeenWasWritten, Written

\* Writing m to r keeps what was written; only a message must have been handled.
LEMMA WritesStep ==
    ASSUME TypeInv, StepInv, pc \in Relaying, pc # "inspect",
           NEW r \in Peers, NEW m \in Told, told' = [told EXCEPT ![r] = Append(@, m)],
           UNCHANGED <<said, heard, handled>>, pc' # "forward request",
           m.kind = "message" => \/ GivenIn(handled, Other(r), m.n)
                                 \/ r = "tui" /\ pc' = "inspect" /\ m.n = heard["server"]
                                 \/ pc' \notin Relaying
    PROVE  StepInv'
  <1>1. HandledWasRead' /\ InterceptorInStep'
    BY SameHandled
  <1>2. InHandWasHandled'
    BY DEF InHandWasHandled
  <1>3. \A q \in Peers : \A i \in DOMAIN told[q] : i \in DOMAIN told'[q] /\ told'[q][i] = told[q][i]
    BY WrittenTo
  <1>4. SeenWasWritten'
    <2> SUFFICES ASSUME NEW p \in Peers, NEW k \in DOMAIN said[p], NEW n \in said[p][k].seen
                 PROVE  \E i \in DOMAIN told'[p] : told'[p][i].kind = "message" /\ told'[p][i].n = n
      BY DEF SeenWasWritten, Written
    <2>1. PICK i \in DOMAIN told[p] : told[p][i].kind = "message" /\ told[p][i].n = n
      BY DEF StepInv, SeenWasWritten, Written
    <2> QED BY <1>3, <2>1
  <1>5. WrittenWasHandled'
    <2> SUFFICES ASSUME pc' \in Relaying, NEW q \in Peers, NEW i \in DOMAIN told'[q],
                        told'[q][i].kind = "message"
                 PROVE  \/ GivenIn(handled, Other(q), told'[q][i].n)
                        \/ q = "tui" /\ pc' = "inspect" /\ told'[q][i].n = heard["server"]
      BY DEF WrittenWasHandled
    <2>1. CASE i \in DOMAIN told[q]
      <3>1. told'[q][i] = told[q][i]
        BY <1>3, <2>1
      <3> QED BY <2>1, <3>1 DEF StepInv, WrittenWasHandled
    <2>2. CASE q = r /\ told'[q][i] = m
      <3>1. m.kind = "message" /\ m.n = told'[q][i].n
        BY <2>2
      <3>2. GivenIn(handled, Other(r), m.n) \/ (r = "tui" /\ pc' = "inspect" /\ m.n = heard["server"])
        BY <3>1
      <3> QED BY <2>2, <3>1, <3>2
    <2>3. i \in DOMAIN told[q] \/ (q = r /\ told'[q][i] = m)
      BY WrittenTo
    <2> QED BY <2>1, <2>2, <2>3
  <1> QED BY <1>1, <1>2, <1>4, <1>5 DEF StepInv

LEMMA SendsStep == ASSUME TypeInv, StepInv, NEW p \in Peers PROVE Sends(p) => StepInv'
  <1> SUFFICES ASSUME Sends(p) PROVE StepInv'
    OBVIOUS
  <1> DEFINE m == Item(p, Current(p).kind)
  <1>1. heard[p] \in Nat /\ heard[p] > 0
    BY StreamTypes DEF Sends, Hand, TypeInv, HandHolds, Peers
  <1>2. m \in Told /\ m.n = heard[p] /\ m.kind = Current(p).kind
    BY <1>1, CurrentIsSaid DEF Item
  <1>3. /\ told' = [told EXCEPT ![Other(p)] = Append(@, m)] /\ UNCHANGED <<said, heard, handled>>
        /\ pc = Hand(p)
        /\ \/ pc' \in Ended
           \/ pc' \in (IF p = "tui" THEN {"read server", "notify request"} ELSE {"inspect"})
    BY DEF Sends
  <1> HIDE DEF m
  <1>4. pc \in Relaying /\ pc # "inspect" /\ pc' # "forward request"
    BY <1>3 DEF Hand, Relaying, Ended, Peers
  <1>5. m.kind = "message" => \/ GivenIn(handled, Other(Other(p)), m.n)
                              \/ Other(p) = "tui" /\ pc' = "inspect" /\ m.n = heard["server"]
                              \/ pc' \notin Relaying
    <2>1. CASE p = "tui"
      <3>1. m.kind = "message" => GivenIn(handled, "tui", m.n)
        BY <1>2, <1>3, <2>1 DEF StepInv, InHandWasHandled, Hand
      <3> QED BY <2>1, <3>1 DEF Other
    <2>2. CASE p = "server"
      BY <1>2, <1>3, <2>2 DEF Other, Ended, Relaying
    <2> QED BY <2>1, <2>2 DEF Peers
  <1> QED BY <1>2, <1>3, <1>4, <1>5, OtherPeer, WritesStep

LEMMA NotifiesStep == ASSUME TypeInv, StepInv, NEW p \in Peers PROVE Notifies(p) => StepInv'
  <1> SUFFICES ASSUME Notifies(p) PROVE StepInv'
    OBVIOUS
  <1> DEFINE m == Item(p, "notice")
  <1>1. m \in Told /\ m.kind = "notice" /\ "tui" \in Peers
    BY StreamTypes DEF Item, Told, Peers
  <1>2. /\ told' = [told EXCEPT !["tui"] = Append(@, m)] /\ UNCHANGED <<said, heard, handled>>
        /\ pc \in Relaying /\ pc # "inspect" /\ pc' # "forward request"
    BY DEF Notifies, Relaying
  <1> HIDE DEF m
  <1> QED BY <1>1, <1>2, WritesStep

LEMMA InspectsStep == ASSUME TypeInv, StepInv PROVE Inspects => StepInv'
  <1> SUFFICES ASSUME Inspects PROVE StepInv'
    OBVIOUS
  <1>0. "server" \in Peers
    BY DEF Peers
  <1>1. /\ UNCHANGED <<said, heard, told>> /\ pc = "inspect" /\ pc \in Relaying
        /\ pc' \notin {"inspect", "forward request"}
    BY DEF Inspects, Relaying, Ended
  <1>2. heard["server"] > 0 /\ heard["server"] \in Nat
    BY <1>0, <1>1, StreamTypes DEF TypeInv, HandHolds
  <1>3. /\ \A i \in DOMAIN handled : i \in DOMAIN handled' /\ handled'[i] = handled[i]
        /\ \A i \in DOMAIN handled' : \/ i \in DOMAIN handled
                                      \/ handled'[i] = [from |-> "server", n |-> heard["server"]]
        /\ GivenIn(handled', "server", heard["server"])
        /\ \A q \in Peers, k \in Nat : GivenIn(handled, q, k) => GivenIn(handled', q, k)
    <2>1. handled' = Append(handled, [from |-> "server", n |-> heard["server"]])
      BY DEF Inspects
    <2> DEFINE n == heard["server"]
    <2>2. n \in Nat /\ handled' = Append(handled, [from |-> "server", n |-> n])
      BY <1>2, <2>1
    <2> HIDE DEF n
    <2>3. /\ \A i \in DOMAIN handled : i \in DOMAIN handled' /\ handled'[i] = handled[i]
          /\ \A i \in DOMAIN handled' : \/ i \in DOMAIN handled
                                        \/ i = Len(handled) + 1 /\ handled'[i] = [from |-> "server", n |-> n]
          /\ GivenIn(handled', "server", n)
          /\ \A q \in Peers, k \in Nat : GivenIn(handled, q, k) => GivenIn(handled', q, k)
      BY <1>0, <2>2, HandledMore
    <2> QED BY <2>3 DEF n
  <1>4. HandledWasRead'
    <2> SUFFICES ASSUME NEW i \in DOMAIN handled' PROVE handled'[i].n \in 1..heard[handled'[i].from]
      BY <1>1 DEF HandledWasRead
    <2>1. CASE i \in DOMAIN handled
      BY <1>3, <2>1 DEF StepInv, HandledWasRead
    <2>2. CASE handled'[i] = [from |-> "server", n |-> heard["server"]]
      BY <1>2, <2>2
    <2> QED BY <1>3, <2>1, <2>2
  <1>5. SeenWasWritten'
    BY <1>1, SameTold
  <1>6. WrittenWasHandled'
    <2> SUFFICES ASSUME NEW q \in Peers, NEW i \in DOMAIN told[q], told[q][i].kind = "message"
                 PROVE  GivenIn(handled', Other(q), told[q][i].n)
      BY <1>1 DEF WrittenWasHandled
    <2>1. told[q][i].n \in Nat
      BY ToldItem
    <2>2. \/ GivenIn(handled, Other(q), told[q][i].n)
          \/ q = "tui" /\ told[q][i].n = heard["server"]
      BY <1>1 DEF StepInv, WrittenWasHandled
    <2>3. q = "tui" => Other(q) = "server"
      BY DEF Other
    <2> QED BY <1>3, <2>1, <2>2, <2>3, OtherPeer
  <1>7. InHandWasHandled'
    BY <1>1 DEF InHandWasHandled
  <1>8. InterceptorInStep'
    <2>1. heard["server"] \in DOMAIN said["server"]
      BY <1>0, <1>2, CurrentIsSaid
    <2>2. \A k \in said["server"][heard["server"]].seen : Written("server", k)
      BY <1>0, <2>1 DEF StepInv, SeenWasWritten
    <2>3. ASSUME NEW k \in said["server"][heard["server"]].seen
          PROVE  GivenIn(handled, Other("server"), k)
      <3>1. PICK i \in DOMAIN told["server"] : told["server"][i].kind = "message" /\ told["server"][i].n = k
        BY <2>2 DEF Written
      <3> QED BY <1>0, <1>1, <3>1 DEF StepInv, WrittenWasHandled
    <2>4. handled' = Append(handled, [from |-> "server", n |-> heard["server"]])
      BY DEF Inspects
    <2> QED BY <1>0, <1>1, <1>2, <2>3, <2>4, HandledKeepsStep DEF StepInv
  <1> QED BY <1>4, <1>5, <1>6, <1>7, <1>8 DEF StepInv

LEMMA StepStep == ASSUME TypeInv, OrderInv, StepInv PROVE [Next]_vars => StepInv'
  BY NextEffect, QuietStep, SaysStep, ReadsStep, InspectsStep, SendsStep, NotifiesStep DEF Effect

LEMMA StepInit == Init => StepInv
  <1> SUFFICES ASSUME Init PROVE StepInv
    OBVIOUS
  <1>1. pc = "start" /\ handled = <<>> /\ \A p \in Peers : said[p] = <<>>
    BY DEF Init
  <1> QED BY <1>1 DEF StepInv, HandledWasRead, SeenWasWritten, WrittenWasHandled, Relaying,
             InHandWasHandled, InterceptorInStep

\* The interceptor never lags behind what a peer knew, however the two peers, the
\* buffers and the relay are scheduled.
THEOREM InterceptorIsAlwaysInStep == Spec => []InterceptorInStep
  <1>1. TypeInv /\ OrderInv /\ StepInv => InterceptorInStep
    BY DEF StepInv
  <1>2. Init => OrderInv
    BY StreamsInit
  <1> QED BY <1>1, <1>2, TypeInit, TypeStep, OrderStep, StepInit, StepStep, PTL DEF Spec

=============================================================================
