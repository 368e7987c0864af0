----------------------------- MODULE McpSession -----------------------------
(***************************************************************************)
(* The agent sessions of a bridge over WebSocket (src/src/bridge.ts): a    *)
(* client, known by its X-Claude-Code-Session-Id, loses its connection and *)
(* comes back; within the grace period its session, with the calls in      *)
(* flight, is resumed on the new socket.                                   *)
(*                                                                         *)
(* A handler of the event loop is one action.  A lost connection is noticed*)
(* by the client first ("lost") and by the bridge later, by itself or at   *)
(* the heartbeat.  The client is the stdio shim, which relays one handshake*)
(* and never repeats it.                                                   *)
(***************************************************************************)
EXTENDS McpTransport

CONSTANTS
    Client,         \* session ids of the clients
    ClientOf,       \* who makes each call
    MaxSessions,    \* config.maxSessions
    MaxConn,        \* bound: connections made, by all clients
    NoSession       \* no entry in the sessions map

Conn == 1..MaxConn

\* AgentSession.
SessionRecord ==
    [ws : Conn, grace : BOOLEAN, wsAlive : BOOLEAN, transport : TransportRecord(Conn)]

ASSUME SessionAssumption ==
    /\ ClientOf \in [Call -> Client]
    /\ MaxSessions \in Nat /\ MaxConn \in Nat
    /\ NoSession \notin Conn \cup Client \cup SessionRecord /\ NoWs \notin Conn

VARIABLES
    link,       \* of each connection: "new", "open", "lost" (gone, and the bridge has
                \* not noticed) or "closed"
    owner,      \* the client of each connection, NoSession while it is new
    obj,        \* AgentSession objects, named by the connection that created them
    sessions,   \* Bridge.sessions: session id -> object
    greeted,    \* clients whose handshake has been relayed
    call        \* of each call: how far it is, and the listener that took it

vars == <<link, owner, obj, sessions, greeted, call>>

AgentSession(ws) ==
    [ws |-> ws, grace |-> FALSE, wsAlive |-> TRUE,
     transport |-> Attach(Constructed, ws, FALSE)]

NotReceived == [stage |-> "fresh", obj |-> NoSession, gen |-> 0, ws |-> NoWs]

Init ==
    /\ link = [c \in Conn |-> "new"]
    /\ owner = [c \in Conn |-> NoSession]
    /\ obj = [c \in Conn |-> NoSession]
    /\ sessions = [k \in Client |-> NoSession]
    /\ greeted = {}
    /\ call = [c \in Call |-> NotReceived]

\* ws.readyState = OPEN, as the bridge sees it.
IsOpen(c) == link[c] \in {"open", "lost"}

Live == {sessions[k] : k \in Client} \ {NoSession}
ActiveSessionCount == Cardinality({s \in Live : ~obj[s].grace})

(***************************************************************************)
(* Connections.                                                            *)
(***************************************************************************)

\* The next connection; the client has none that it believes open.
Connects(k, c) ==
    /\ link[c] = "new" /\ \A d \in Conn : d < c => link[d] # "new"
    /\ \A d \in Conn : owner[d] = k => link[d] # "open"
    /\ owner' = [owner EXCEPT ![c] = k]

\* The session is in its grace period: it goes on with the new socket.
Resume(k, c) ==
    /\ Connects(k, c)
    /\ sessions[k] # NoSession /\ obj[sessions[k]].grace
    /\ link' = [link EXCEPT ![c] = "open"]
    /\ obj' = [obj EXCEPT ![sessions[k]] =
                 [ws |-> c, grace |-> FALSE, wsAlive |-> TRUE,
                  transport |-> Attach(DetachSoft(@.transport), c, TRUE)]]
    /\ UNCHANGED <<sessions, greeted, call>>

NotResumable(k) == sessions[k] # NoSession => ~obj[sessions[k]].grace

\* At capacity: closed with 1013.
Refuse(k, c) ==
    /\ Connects(k, c) /\ NotResumable(k)
    /\ ActiveSessionCount >= MaxSessions
    /\ link' = [link EXCEPT ![c] = "closed"]
    /\ UNCHANGED <<obj, sessions, greeted, call>>

\* A session of its own, in the place of any the id still has.
Create(k, c) ==
    /\ Connects(k, c) /\ NotResumable(k)
    /\ ActiveSessionCount < MaxSessions
    /\ link' = [link EXCEPT ![c] = "open"]
    /\ obj' = [obj EXCEPT ![c] = AgentSession(c)]
    /\ sessions' = [sessions EXCEPT ![k] = c]
    /\ UNCHANGED <<greeted, call>>

\* The connection goes down and the bridge has not noticed.
Lose(c) ==
    /\ link[c] = "open"
    /\ link' = [link EXCEPT ![c] = "lost"]
    /\ UNCHANGED <<owner, obj, sessions, greeted, call>>

\* A mutant: the close of a connection takes down whichever session has its id.
OnCloseById(c) ==
    LET s == sessions[owner[c]] IN
    /\ link' = [link EXCEPT ![c] = "closed"]
    /\ obj' = IF s # NoSession THEN [obj EXCEPT ![s].grace = TRUE] ELSE obj

\* ws.on("close"): ignored when another socket has replaced this one.
OnClose(c) ==
    LET s == sessions[owner[c]] IN
    /\ link' = [link EXCEPT ![c] = "closed"]
    /\ obj' = IF s # NoSession /\ obj[s].ws = c
              THEN [obj EXCEPT ![s].grace = TRUE]
              ELSE obj

\* Either end closes, or the bridge's socket notices the loss.
Close(c) ==
    /\ IsOpen(c)
    /\ OnClose(c)
    /\ UNCHANGED <<owner, sessions, greeted, call>>

\* A mutant: a ping that does not take wsAlive back.
HeartbeatTrusting(s) ==
    /\ s \in Live /\ ~obj[s].grace /\ IsOpen(obj[s].ws)
    /\ \/ ~obj[s].wsAlive /\ OnClose(obj[s].ws)
       \/ obj[s].wsAlive /\ UNCHANGED <<link, obj>>
    /\ UNCHANGED <<owner, sessions, greeted, call>>

\* The round of the heartbeat for one session: terminate (its close event follows) or ping.
Heartbeat(s) ==
    /\ s \in Live /\ ~obj[s].grace /\ IsOpen(obj[s].ws)
    /\ \/ ~obj[s].wsAlive /\ OnClose(obj[s].ws)
       \/ obj[s].wsAlive /\ obj' = [obj EXCEPT ![s].wsAlive = FALSE] /\ UNCHANGED link
    /\ UNCHANGED <<owner, sessions, greeted, call>>

Pong(s) ==
    /\ s \in Live /\ link[obj[s].ws] = "open" /\ ~obj[s].wsAlive
    /\ obj' = [obj EXCEPT ![s].wsAlive = TRUE]
    /\ UNCHANGED <<link, owner, sessions, greeted, call>>

\* The grace timer: cleanupSession.
GraceExpires(k) ==
    /\ sessions[k] # NoSession /\ obj[sessions[k]].grace
    /\ obj' = [obj EXCEPT ![sessions[k]].grace = FALSE,
                          ![sessions[k]].transport = Detach(@)]
    /\ sessions' = [sessions EXCEPT ![k] = NoSession]
    /\ UNCHANGED <<link, owner, greeted, call>>

(***************************************************************************)
(* Requests.                                                               *)
(***************************************************************************)

\* A message of client k arrives at the listener of s, that of its current socket.
Receives(s, k) ==
    /\ obj[s] # NoSession
    /\ obj[s].transport.ws # NoWs
    /\ link[obj[s].transport.ws] = "open"
    /\ owner[obj[s].transport.ws] = k

Settled == [NotReceived EXCEPT !.stage = "settled"]

\* Where the answer to an open call goes, if that socket is open by then.
AnswerSocket(c) == Target(obj[call[c].obj].transport, c, call[c].ws)

Update(s, t) == obj' = [obj EXCEPT ![s].transport = t]

\* initialize and notifications/initialized, which the client sends once.
Handshake(s, k) ==
    /\ Receives(s, k) /\ k \notin greeted
    /\ Update(s, [obj[s].transport EXCEPT !.initialized = TRUE])
    /\ greeted' = greeted \cup {k}
    /\ UNCHANGED <<link, owner, sessions, call>>

\* tools/call takes its slots.
Accept(s, c) ==
    LET t == obj[s].transport IN
    /\ call[c].stage = "fresh" /\ Receives(s, ClientOf[c])
    /\ Admits(t, c)
    /\ Update(s, Take(t, c))
    /\ call' = [call EXCEPT ![c] = [stage |-> "open", obj |-> s, gen |-> t.gen,
                                    ws |-> t.ws]]
    /\ UNCHANGED <<link, owner, sessions, greeted>>

\* Answered with an error at once: Admits is false, or a rate limit, the scope or the
\* arguments are against it.
Reject(s, c) ==
    /\ call[c].stage = "fresh" /\ Receives(s, ClientOf[c])
    /\ call' = [call EXCEPT ![c] = Settled]
    /\ UNCHANGED <<link, owner, obj, sessions, greeted>>

\* The kill switch is engaged, the approval gate refuses or throws, the handler that it
\* lets run ends, or its time is up: whichever it is, and whenever, the slots are released
\* and the answer is sent on AnswerSocket(c).
Settle(c) ==
    LET s == call[c].obj
        t == obj[s].transport
    IN  /\ call[c].stage = "open"
        /\ Update(s, Release(t, c, call[c].gen))
        /\ call' = [call EXCEPT ![c] = Settled]
        /\ UNCHANGED <<link, owner, sessions, greeted>>

(***************************************************************************)
(* Elicitation: the bridge asks the newest connected session.              *)
(***************************************************************************)
Newest(s) ==
    /\ s \in Live /\ IsOpen(obj[s].ws)
    /\ \A r \in Live : IsOpen(obj[r].ws) => r <= s

Elicit(s) ==
    LET t == obj[s].transport IN
    /\ Newest(s) /\ t.initialized
    /\ Update(s, [t EXCEPT !.elicits = @ \cup {t.ws}])
    /\ UNCHANGED <<link, owner, sessions, greeted, call>>

\* Answered by the client that was asked, on the connection it has, or timed out.
ElicitEnds(s, asked) ==
    /\ obj[s] # NoSession /\ asked \in obj[s].transport.elicits
    /\ Update(s, [obj[s].transport EXCEPT !.elicits = @ \ {asked}])
    /\ UNCHANGED <<link, owner, sessions, greeted, call>>

Next ==
    \/ \E k \in Client, c \in Conn : Resume(k, c) \/ Refuse(k, c) \/ Create(k, c)
    \/ \E c \in Conn : Lose(c) \/ Close(c) \/ Heartbeat(c) \/ Pong(c) \/ Elicit(c)
    \/ \E k \in Client : GraceExpires(k)
    \/ \E s \in Conn, k \in Client : Handshake(s, k)
    \/ \E s \in Conn, c \in Call : Accept(s, c) \/ Reject(s, c)
    \/ \E c \in Call : Settle(c)
    \/ \E s, asked \in Conn : ElicitEnds(s, asked)

Spec == Init /\ [][Next]_vars

\* The heartbeat interval and the grace timers fire.
FairSpec ==
    /\ Spec
    /\ \A s \in Conn : WF_vars(Heartbeat(s))
    /\ \A k \in Client : WF_vars(GraceExpires(k))
(***************************************************************************)
(* Properties.                                                             *)
(***************************************************************************)
Unsettled(s) == {c \in Call : call[c].stage = "open" /\ call[c].obj = s}

\* The types.
TypeOK ==
    /\ link \in [Conn -> {"new", "open", "lost", "closed"}]
    /\ owner \in [Conn -> Client \cup {NoSession}]
    /\ sessions \in [Client -> Conn \cup {NoSession}]
    /\ greeted \subseteq Client
    /\ obj \in [Conn -> SessionRecord \cup {NoSession}]
    /\ call \in [Call -> [stage : {"fresh", "open", "settled"},
                          obj : Conn \cup {NoSession}, gen : Nat,
                          ws : Conn \cup {NoWs}]]

\* The slots of a session are those of its unsettled calls, however often it has been
\* resumed and whatever settles when: none is leaked to an older connection, none is
\* released twice, no id stands for two calls.  Nothing asked of an earlier connection
\* is still open on a later one (transport.ts:160, 698).
SlotsExact ==
    \A s \in Conn : obj[s] # NoSession /\ obj[s].transport.ws # NoWs =>
        LET t == obj[s].transport IN
        /\ t.inFlight = Unsettled(s)
        /\ t.active = Cardinality(Unsettled(s))
        /\ \A c, d \in Unsettled(s) : IdOf[c] = IdOf[d] => c = d
        /\ t.soft = {IdOf[c] : c \in {d \in Unsettled(s) : call[d].gen # t.gen}}
        /\ t.elicits \subseteq {t.ws}

\* The answer to a call goes to the connection its session has when it is ready, if the
\* session has one, and to no other client (transport.ts:1026-1036, 2172-2179).
AnswersFollowTheSession ==
    \A c \in Call : call[c].stage = "open" =>
        LET s == call[c].obj IN
        /\ owner[AnswerSocket(c)] = ClientOf[c]
        /\ obj[s].transport.ws # NoWs /\ IsOpen(obj[s].ws) => AnswerSocket(c) = obj[s].ws

\* A session whose client is connected is not torn down or replaced, whichever older
\* connection of that id closes in the meantime (bridge.ts:379-393, 690-703).
ConnectedSessionKept ==
    [][\A k \in Client :
        LET s == sessions[k] IN
        s # NoSession /\ link[obj[s].ws] = "open" /\ link'[obj[s].ws] = "open" =>
            sessions'[k] = s /\ ~obj'[s].grace]_vars

\* A session that has lost its client makes room: it is resumed or it goes.  Nobody has
\* to tell the bridge that the connection is gone (bridge.ts:2558-2579).
LostSessionsGo ==
    \A k \in Client :
        []<>(sessions[k] = NoSession \/ link[obj[sessions[k]].ws] = "open")

\* What bridge.ts:438-452 says of reconnects: a client that comes back while the bridge
\* still has its session finds it initialized.
HandshakeSurvives ==
    [][\A k \in Client :
        LET s == sessions[k]
            r == sessions'[k]
        IN  s # NoSession /\ obj[s].transport.initialized /\ r # NoSession =>
                obj'[r].transport.initialized]_vars
=============================================================================
