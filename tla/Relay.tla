-------------------------------- MODULE Relay --------------------------------
(***************************************************************************)
(* One adaptive session as app_server/mod.rs runs it: `run` starts an App   *)
(* Server, negotiates with it, starts the TUI, relays messages between the  *)
(* two on one thread with blocking writes, waits for the TUI and reaps both *)
(* children.  The interceptor (AgentRouter) may add notices for the TUI to  *)
(* a message, or fail.                                                      *)
(*                                                                          *)
(* A stream only grows; what is still in a socket buffer is what its reader *)
(* has not counted yet.  A message is its position in its sender's stream.  *)
(***************************************************************************)
EXTENDS Naturals, Sequences

CONSTANTS
    MaxPages,    \* model/list pages that are asked for (10 in the code)
    MaxNotices,  \* notices the interceptor adds to one message, at most
    Capacity,    \* items a socket buffer holds
    MaxSaid      \* bound on the items both peers send

ASSUME RelayConstantsOK ==
    /\ MaxPages \in Nat \ {0} /\ Capacity \in Nat \ {0}
    /\ MaxNotices \in Nat /\ MaxSaid \in Nat

Peers == {"tui", "server"}
Other(p) == IF p = "tui" THEN "server" ELSE "tui"

\* What a peer sends: a message or the closing frame, with the messages of the
\* other peer it has read by then; and what the relay writes to a peer: an item of
\* the other one, or a notice caused by an item of either.
Said == [kind : {"message", "close"}, seen : SUBSET Nat]
Told == [from : Peers, n : Nat, kind : {"message", "close", "notice"}]

\* The requests of negotiate, in order.
Questions == <<"initialize", "models", "modes", "capabilities", "features">>

Relaying == {"read tui", "forward request", "notify request",
             "read server", "forward event", "inspect", "notify event"}
Phases == {"start", "connect", "negotiate", "spawn tui", "accept", "handshake", "dial"}
          \cup Relaying \cup {"wait", "drop guards", "returned"}

VARIABLES
    pc,         \* where `run` is
    result,     \* what it returns: "status" of the TUI or "error"
    question,   \* negotiate: the request that is unanswered
    pages,      \* request_all_models: pages received
    child,      \* the two child processes
    listening,  \* App Server accepts connections
    line,       \* the relayed connection with each peer
    said,       \* what each peer has sent
    heard,      \* how much of that the relay has read
    told,       \* what the relay has written to each peer
    got,        \* how much of that the peer has read
    notices,    \* notices of the current message that are not yet written
    handled     \* the messages the interceptor was given, in its order

setup == <<result, question, pages, listening>>
streams == <<said, heard, told, got>>
vars == <<pc, setup, child, line, streams, notices, handled>>

Init ==
    /\ pc = "start" /\ result = "none"
    /\ question = 1 /\ pages = 0 /\ listening = FALSE
    /\ child = [p \in Peers |-> "none"]
    /\ line = [p \in Peers |-> "none"]
    /\ said = [p \in Peers |-> <<>>] /\ heard = [p \in Peers |-> 0]
    /\ told = [p \in Peers |-> <<>>] /\ got = [p \in Peers |-> 0]
    /\ notices = 0 /\ handled = <<>>

-----------------------------------------------------------------------------
(* Ways out of run: sockets are closed and the guards dropped, TUI first *)

HangUp == [p \in Peers |-> IF line[p] = "none" THEN "none" ELSE "gone"]

\* An early return with an error (the `?` operator).
Fail == pc' = "drop guards" /\ result' = "error" /\ line' = HangUp

\* ChildGuard::drop, for the TUI and then for App Server: a child that still runs is
\* killed, and one that has exited is waited for.  (Fault: only one that has exited.)
DropOnlyExited == [p \in Peers |-> IF child[p] = "exited" THEN "reaped" ELSE child[p]]
Dropped ==
    [p \in Peers |-> IF child[p] \in {"running", "exited"} THEN "reaped" ELSE child[p]]

DropGuards ==
    /\ pc = "drop guards" /\ pc' = "returned" /\ child' = Dropped
    /\ UNCHANGED <<setup, line, streams, notices, handled>>

\* tui.wait(), after the relay has returned; nothing else ends it.
WaitTui ==
    /\ pc = "wait" /\ child["tui"] = "exited"
    /\ child' = [child EXCEPT !["tui"] = "reaped"]
    /\ pc' = "drop guards" /\ result' = "status"
    /\ UNCHANGED <<question, pages, listening, line, streams, notices, handled>>

-----------------------------------------------------------------------------
(* Starting *)

\* reserve_endpoint, unused_endpoint and spawn_app_server.
SpawnServer ==
    /\ pc = "start"
    /\ \/ /\ child' = [child EXCEPT !["server"] = "running"]
          /\ pc' = "connect" /\ UNCHANGED <<result, line>>
       \/ Fail /\ UNCHANGED child
    /\ UNCHANGED <<question, pages, listening, streams, notices, handled>>

\* connect_with_retry: until the connection and its handshake succeed, App Server is
\* seen to have exited, or an attempt fails after more than ten seconds.
ConnectWithRetry(next, joined) ==
    \/ /\ child["server"] = "running" /\ listening
       /\ pc' = next /\ line' = joined /\ UNCHANGED <<child, result>>
    \/ /\ child["server"] = "exited"
       /\ child' = [child EXCEPT !["server"] = "reaped"] /\ Fail
    \/ child["server"] = "running" /\ Fail /\ UNCHANGED child

Connect ==
    /\ pc = "connect" /\ ConnectWithRetry("negotiate", line)
    /\ UNCHANGED <<question, pages, listening, streams, notices, handled>>

\* request and request_all_models: App Server answers the pending request.  An
\* error, an answer without a result, and a page beyond the bound end the session;
\* other messages are skipped.  There is no limit on the time this takes.
\* (Fault: the pages are not counted against the bound.)
AnswerWithoutPageBound ==
    \/ /\ Questions[question] = "models"
       /\ pages' = pages + 1 /\ UNCHANGED <<pc, result, line, question>>
    \/ /\ question < Len(Questions) /\ question' = question + 1
       /\ UNCHANGED <<pc, result, line, pages>>
    \/ /\ question = Len(Questions) /\ pc' = "spawn tui"
       /\ UNCHANGED <<result, line, question, pages>>
    \/ Fail /\ UNCHANGED <<question, pages>>
Answer ==
    \/ /\ Questions[question] = "models" /\ pages + 1 < MaxPages
       /\ pages' = pages + 1 /\ UNCHANGED <<pc, result, line, question>>
    \/ /\ question < Len(Questions) /\ question' = question + 1
       /\ UNCHANGED <<pc, result, line, pages>>
    \/ /\ question = Len(Questions) /\ pc' = "spawn tui"
       /\ UNCHANGED <<result, line, question, pages>>
    \/ Fail /\ UNCHANGED <<question, pages>>

Negotiate ==
    /\ pc = "negotiate" /\ child["server"] = "running" /\ Answer
    /\ UNCHANGED <<listening, child, streams, notices, handled>>
NegotiateFails ==
    /\ pc = "negotiate" /\ child["server"] # "running" /\ Fail
    /\ UNCHANGED <<question, pages, listening, child, streams, notices, handled>>

\* interceptor.negotiated and spawn_tui, either of which may fail.
SpawnTui ==
    /\ pc = "spawn tui"
    /\ \/ /\ child' = [child EXCEPT !["tui"] = "running"]
          /\ pc' = "accept" /\ UNCHANGED <<result, line>>
       \/ Fail /\ UNCHANGED child
    /\ UNCHANGED <<question, pages, listening, streams, notices, handled>>

\* accept_tui: a connection that is there is taken; otherwise the loop looks at the
\* TUI and then at App Server.  The user's prompts have all the time they need.
\* (Fault: App Server is not looked at.)
AcceptIgnoringServer ==
    \/ /\ line["tui"] # "none" /\ pc' = "handshake" /\ UNCHANGED <<child, line, result>>
    \/ /\ line["tui"] = "none" /\ child["tui"] = "exited"
       /\ child' = [child EXCEPT !["tui"] = "reaped"] /\ Fail
AcceptOrGiveUp ==
    \/ /\ line["tui"] # "none" /\ pc' = "handshake" /\ UNCHANGED <<child, line, result>>
    \/ \E p \in Peers :
          /\ line["tui"] = "none" /\ child[p] = "exited"
          /\ p = "server" => child["tui"] # "exited"
          /\ child' = [child EXCEPT ![p] = "reaped"] /\ Fail
AcceptTui ==
    /\ pc = "accept" /\ AcceptOrGiveUp
    /\ UNCHANGED <<question, pages, listening, streams, notices, handled>>

\* tungstenite::accept on the blocking stream: the TUI sends its upgrade request, or
\* is gone.
Handshake ==
    /\ pc = "handshake" /\ line["tui"] = "dialed"
    /\ pc' = "dial" /\ line' = [line EXCEPT !["tui"] = "open"]
    /\ UNCHANGED <<setup, child, streams, notices, handled>>
HandshakeFails ==
    /\ pc = "handshake" /\ line["tui"] = "gone" /\ Fail
    /\ UNCHANGED <<question, pages, listening, child, streams, notices, handled>>

\* The second connection to App Server, the one that is relayed.
Dial ==
    /\ pc = "dial" /\ ConnectWithRetry("read tui", [line EXCEPT !["server"] = "open"])
    /\ UNCHANGED <<question, pages, listening, streams, notices, handled>>

-----------------------------------------------------------------------------
(* The relay loop *)

\* The item that was read last from a peer, as it is written to the other one.
Current(p) == said[p][heard[p]]
Item(p, kind) == [from |-> p, n |-> heard[p], kind |-> kind]
Closing(p) == Current(p).kind = "close"

\* A blocking write: it waits for room in the peer's buffer.  To a peer that is gone
\* it may fail, or succeed for nobody.
Write(p, item) ==
    /\ Len(told[p]) - got[p] < Capacity \/ line[p] = "gone"
    /\ told' = [told EXCEPT ![p] = Append(@, item)]
WritesTo(p) ==
    pc \in IF p = "server" THEN {"forward request"}
           ELSE {"notify request", "forward event", "notify event"}
WriteFails ==
    /\ \E p \in Peers : line[p] = "gone" /\ WritesTo(p)
    /\ Fail
    /\ UNCHANGED <<question, pages, listening, child, streams, notices, handled>>

\* A read finds nothing for 8 ms, or fails because the peer left without a closing
\* frame.  (ConnectionClosed needs a finished closing handshake; by then the relay has
\* returned.)  (Fault: the read of the TUI has no timeout.)
NothingToReadFromServer(p) == line[p] # "gone" /\ heard[p] = Len(said[p]) /\ p = "server"
NothingToRead(p) == line[p] # "gone" /\ heard[p] = Len(said[p])
Poll ==
    /\ \/ pc = "read tui" /\ NothingToRead("tui") /\ pc' = "read server"
       \/ pc = "read server" /\ NothingToRead("server") /\ pc' = "read tui"
    /\ UNCHANGED <<setup, child, line, streams, notices, handled>>
ReadFails ==
    /\ \E p \in Peers : /\ line[p] = "gone"
                        /\ pc = IF p = "tui" THEN "read tui" ELSE "read server"
    /\ Fail
    /\ UNCHANGED <<question, pages, listening, child, streams, notices, handled>>

ReadItem(p) ==
    /\ heard[p] < Len(said[p])
    /\ heard' = [heard EXCEPT ![p] = @ + 1]
    /\ UNCHANGED <<question, pages, listening, child, said, told, got>>

\* The interceptor is called with a message: it returns notices, or an error.
Intercept(p, n, quiet, noisy) ==
    /\ handled' = Append(handled, [from |-> p, n |-> n])
    /\ \/ /\ notices' \in 0..MaxNotices
          /\ pc' = IF notices' = 0 THEN quiet ELSE noisy
          /\ UNCHANGED <<result, line>>
       \/ Fail /\ UNCHANGED notices

\* client.read and transform_client: a closing frame is not shown to the interceptor.
ReadRequest ==
    /\ pc = "read tui" /\ ReadItem("tui")
    /\ LET n == heard["tui"] + 1 IN
       \/ /\ said["tui"][n].kind = "message"
          /\ Intercept("tui", n, "forward request", "forward request")
       \/ /\ said["tui"][n].kind = "close"
          /\ notices' = 0 /\ pc' = "forward request" /\ UNCHANGED <<result, line, handled>>

\* The relay returns after it has passed a closing frame on; its sockets close.
LeaveAfterClose == pc' = "wait" /\ line' = HangUp

\* target.send.  (Fault: the request is written again if that took long.)
ForwardRequestAgain ==
    /\ pc = "forward request" /\ Write("server", Item("tui", Current("tui").kind))
    /\ \/ Closing("tui") /\ LeaveAfterClose
       \/ ~Closing("tui") /\ UNCHANGED line
          /\ pc' \in {pc, IF notices = 0 THEN "read server" ELSE "notify request"}
    /\ UNCHANGED <<setup, child, said, heard, got, notices, handled>>
ForwardRequest ==
    /\ pc = "forward request" /\ Write("server", Item("tui", Current("tui").kind))
    /\ \/ Closing("tui") /\ LeaveAfterClose
       \/ ~Closing("tui") /\ UNCHANGED line
          /\ pc' = IF notices = 0 THEN "read server" ELSE "notify request"
    /\ UNCHANGED <<setup, child, said, heard, got, notices, handled>>

\* target.read.
ReadEvent ==
    /\ pc = "read server" /\ ReadItem("server")
    /\ pc' = "forward event"
    /\ UNCHANGED <<result, line, notices, handled>>

\* client.send, and inspect_server afterwards.
\* (Fault: the inspection may be put off.)
ForwardEventUninspected ==
    /\ pc = "forward event" /\ Write("tui", Item("server", Current("server").kind))
    /\ \/ Closing("server") /\ LeaveAfterClose
       \/ ~Closing("server") /\ pc' \in {"inspect", "read tui"} /\ UNCHANGED line
    /\ UNCHANGED <<setup, child, said, heard, got, notices, handled>>
ForwardEvent ==
    /\ pc = "forward event" /\ Write("tui", Item("server", Current("server").kind))
    /\ \/ Closing("server") /\ LeaveAfterClose
       \/ ~Closing("server") /\ pc' = "inspect" /\ UNCHANGED line
    /\ UNCHANGED <<setup, child, said, heard, got, notices, handled>>
Inspect ==
    /\ pc = "inspect"
    /\ Intercept("server", heard["server"], "read tui", "notify event")
    /\ UNCHANGED <<question, pages, listening, child, streams>>

\* send_json of the interceptor's notices to the TUI, one after another.
Notify(cause, here, next) ==
    /\ pc = here /\ notices > 0
    /\ Write("tui", Item(cause, "notice"))
    /\ notices' = notices - 1
    /\ pc' = IF notices = 1 THEN next ELSE here
    /\ UNCHANGED <<setup, child, line, said, heard, got, handled>>

-----------------------------------------------------------------------------
(* The system and the two programs at the other ends, as far as cauto can tell *)

\* What may go wrong although both children are alive: a socket cannot be set up or
\* accepted from, a child cannot be looked at, a living peer breaks off a handshake or
\* its connection, or sends what is no WebSocket message.  It always ends the session.
Breakable == {"connect", "negotiate", "accept", "handshake", "dial", "wait"}
             \cup (Relaying \ {"inspect"})
Breaks ==
    /\ pc \in Breakable /\ Fail
    /\ UNCHANGED <<question, pages, listening, child, streams, notices, handled>>

\* App Server binds its port.
ServerListens ==
    /\ child["server"] = "running" /\ ~listening /\ listening' = TRUE
    /\ UNCHANGED <<pc, result, question, pages, child, line, streams, notices, handled>>

\* The TUI has finished its prompts and connects.
TuiDials ==
    /\ child["tui"] = "running" /\ line["tui"] = "none"
    /\ line' = [line EXCEPT !["tui"] = "dialed"]
    /\ UNCHANGED <<pc, setup, child, streams, notices, handled>>

\* What a peer has read: messages of the other one.
SeenBy(p) == {told[p][i].n : i \in {j \in 1..got[p] : told[p][j].kind = "message"}}

\* There is room in the buffer that p writes to.
HasRoom(p) == Len(said[p]) - heard[p] < Capacity
PeerSays(p) ==
    /\ line[p] = "open" /\ child[p] = "running"
    /\ Len(said["tui"]) + Len(said["server"]) < MaxSaid /\ HasRoom(p)
    /\ \E kind \in {"message", "close"} :
          /\ said' = [said EXCEPT ![p] = Append(@, [kind |-> kind, seen |-> SeenBy(p)])]
          /\ line' = IF kind = "close" THEN [line EXCEPT ![p] = "closing"] ELSE line
    /\ UNCHANGED <<pc, setup, child, heard, told, got, notices, handled>>

\* What a peer still finds in its buffer after the connection is lost makes no
\* difference to cauto.
PeerReads(p) ==
    /\ line[p] \in {"open", "closing"} /\ got[p] < Len(told[p])
    /\ got' = [got EXCEPT ![p] = @ + 1]
    /\ UNCHANGED <<pc, setup, child, line, said, heard, told, notices, handled>>

\* A peer that waits for room to write may not read meanwhile: it surely reads only
\* while there is room.
PeerReadsWithRoom(p) == HasRoom(p) /\ PeerReads(p)

PeerExits(p) ==
    /\ child[p] = "running"
    /\ child' = [child EXCEPT ![p] = "exited"]
    /\ line' = [line EXCEPT ![p] = IF @ = "none" THEN "none" ELSE "gone"]
    /\ listening' = (listening /\ p # "server")
    /\ UNCHANGED <<pc, result, question, pages, streams, notices, handled>>

-----------------------------------------------------------------------------

\* The thread of `run`, where it does not wait for an answer of a peer.
Cauto ==
    \/ SpawnServer \/ Connect \/ NegotiateFails \/ SpawnTui
    \/ AcceptTui \/ HandshakeFails \/ Dial
    \/ Poll \/ ReadFails \/ WriteFails
    \/ ReadRequest \/ ForwardRequest
    \/ Notify("tui", "notify request", "read server")
    \/ ReadEvent \/ ForwardEvent \/ Inspect
    \/ Notify("server", "notify event", "read tui")
    \/ WaitTui \/ DropGuards

Environment ==
    \/ Breaks \/ Negotiate \/ Handshake \/ ServerListens \/ TuiDials
    \/ \E p \in Peers : PeerSays(p) \/ PeerReads(p) \/ PeerExits(p)

Next == Cauto \/ Environment

\* The thread is scheduled.  Of the programs it talks to: a living App Server answers
\* in the end, a TUI that connects completes the handshake, and both read while they
\* are not held up by writing.  Nothing is assumed of the user, of exits, of what the
\* peers send, or of errors.
Fairness ==
    /\ WF_vars(Cauto) /\ WF_vars(Negotiate) /\ WF_vars(Handshake)
    /\ \A p \in Peers : WF_vars(PeerReadsWithRoom(p))

Spec == Init /\ [][Next]_vars /\ Fairness

-----------------------------------------------------------------------------
(* Properties *)

TypeOK ==
    /\ pc \in Phases /\ result \in {"none", "status", "error"}
    /\ question \in 1..Len(Questions) /\ pages \in 0..MaxPages-1
    /\ listening \in BOOLEAN
    /\ child \in [Peers -> {"none", "running", "exited", "reaped"}]
    /\ line \in [Peers -> {"none", "dialed", "open", "closing", "gone"}]
    /\ said \in [Peers -> Seq(Said)] /\ told \in [Peers -> Seq(Told)]
    /\ heard \in [Peers -> Nat] /\ got \in [Peers -> Nat]
    /\ \A p \in Peers : heard[p] <= Len(said[p]) /\ got[p] <= Len(told[p])
    /\ notices \in 0..MaxNotices
    /\ handled \in Seq([from : Peers, n : Nat])

\* ARCHITECTURE.md: "Child guards terminate and reap the App Server and TUI on every
\* return path": whatever fails in whatever order, no child is left when run returns.
ChildrenReaped ==
    pc = "returned" => \A p \in Peers : child[p] \in {"none", "reaped"}

\* What the relay still has in its hand of a peer's stream.
InHand(p) ==
    \/ p = "tui" /\ pc = "forward request"
    \/ p = "server" /\ pc = "forward event"
Forwarded(p) == IF InHand(p) THEN heard[p] - 1 ELSE heard[p]

\* Messages keep their order in each direction and none is written twice.
InOrderAtMostOnce ==
    \A p \in Peers : \A i, j \in DOMAIN told[p] :
        (i < j /\ told[p][i].kind # "notice" /\ told[p][j].kind # "notice") =>
            told[p][i].n < told[p][j].n

\* While the relay runs, each that was read is in the other stream or in its hand.
NoneLost ==
    pc \in Relaying => \A p \in Peers : \A n \in 1..Forwarded(p) :
        \E i \in DOMAIN told[Other(p)] :
            told[Other(p)][i] = [from |-> p, n |-> n, kind |-> said[p][n].kind]

\* A notice about an event comes right behind it; one about a request only after the
\* request was passed on (CHANGELOG.md: "Relay real App Server requests and responses
\* before cosmetic route notices").
NoticesFollow ==
    \A i \in DOMAIN told["tui"] : LET t == told["tui"][i] IN t.kind = "notice" =>
        IF t.from = "server"
        THEN i > 1 /\ told["tui"][i-1].from = "server" /\ told["tui"][i-1].n = t.n
        ELSE \E j \in DOMAIN told["server"] : told["server"][j].n = t.n

\* The relay is transparent: nothing is lost, doubled or reordered between the peers,
\* and notices never overtake what they are about.
StreamsAreFaithful == InOrderAtMostOnce /\ NoneLost /\ NoticesFollow

\* The interceptor is never behind what a peer knew: when it is given a message, it has
\* been given everything of the other peer that the sender had read when it wrote that
\* message.  So an answer meets the state its request left, and a request the state of
\* every answer its author had seen, as AgentRouter takes for granted.
InterceptorInStep ==
    \A i \in DOMAIN handled : LET m == handled[i] IN
        \A n \in said[m.from][m.n].seen :
            \E j \in 1..i-1 : handled[j] = [from |-> Other(m.from), n |-> n]

\* Writers in a circle: the relay waits to write to a living peer, whose buffer is
\* full, while that peer can write no more itself.  The relay does not read meanwhile,
\* so nothing but the peer's reading, or its end, gets them out of it.
Circle(p) ==
    /\ WritesTo(p) /\ line[p] # "gone"
    /\ Len(told[p]) - got[p] >= Capacity /\ ~HasRoom(p)

\* Nobody waits for the dead: a session whose TUI has exited ends, and one that has
\* lost its App Server ends or waits only for the user to leave the TUI.  The one way
\* to stay is a circle of writers with the peer that is left.
NobodyWaitsForTheDead ==
    /\ child["tui"] \in {"exited", "reaped"} ~> pc = "returned" \/ Circle("server")
    /\ child["server"] \in {"exited", "reaped"} ~> pc \in {"wait", "returned"} \/ Circle("tui")

\* With one thread, blocking writes and bounded buffers, a circle of writers is the
\* only way in which the relay gets stuck between the two: otherwise, unless the
\* session ends, all that was sent arrives.
MessagesArrive ==
    \A p \in Peers :
        <>[](\/ pc \in {"wait", "drop guards", "returned"}
             \/ \E q \in Peers : Circle(q)
             \/ \A n \in DOMAIN said[p] : n \in SeenBy(Other(p)))
=============================================================================
