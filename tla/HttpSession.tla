----------------------------- MODULE HttpSession -----------------------------
(***************************************************************************)
(* MCP over streamable HTTP (src/src/streamableHttp.ts): a small pool of   *)
(* sessions, each a McpTransport behind an HttpAdapter.  A POST waits for  *)
(* the answer to its own request; the adapter finds the waiting POST by    *)
(* the JSON-RPC id.                                                        *)
(*                                                                         *)
(* Clients crash without a DELETE, so a full pool evicts an idle session   *)
(* and a timer prunes old ones; neither may take a session in use.  A call *)
(* can outlive its POST: the wait is sized for the tool, not for the       *)
(* approval gate in front of it.                                           *)
(***************************************************************************)
EXTENDS McpTransport

CONSTANTS
    Session,        \* session ids, each a fresh UUID
    SessionOf,      \* the session each call is sent to
    MaxHttpSessions, \* MAX_HTTP_SESSIONS
    MaxPendingSends, \* MAX_PENDING_SENDS
    IdleThreshold,  \* IDLE_THRESHOLD_MS, in ticks
    MaxWait,        \* the longest wait of a POST
    SessionTtl,     \* SESSION_TTL_MS
    Adapter,        \* the one stand-in for the WebSocket of a transport
    NoCall,
    Conforming      \* clients do not reuse an id that they are waiting for

ASSUME HttpAssumption ==
    /\ SessionOf \in [Call -> Session]
    /\ MaxHttpSessions \in Nat /\ MaxPendingSends \in Nat
    /\ IdleThreshold \in Nat /\ MaxWait \in Nat /\ SessionTtl \in Nat
    /\ MaxWait < SessionTtl     \* 290 s and two hours
    /\ NoCall \notin Call /\ Adapter # NoWs
    /\ Conforming \in BOOLEAN

VARIABLES
    session,    \* HttpSession objects; "creating" ones are counted by pendingSessionCreates
    post,       \* of each call's POST: how far it is, its wait, the call whose answer it got
    running,    \* calls at the gate or in their handler
    closed      \* the bridge has shut down

vars == <<session, post, running, closed>>

\* HttpSession; its adapter is the only socket there is.
SessionRecord ==
    [state : {"unused", "creating", "live", "gone"}, transport : TransportRecord({Adapter}),
     idle : 0..SessionTtl + 1, clientIdle : 0..SessionTtl + 1, inFlight : Nat,
     sse : BOOLEAN]

NewSession ==
    [state |-> "unused", transport |-> Constructed, idle |-> 0, clientIdle |-> 0,
     inFlight |-> 0, sse |-> FALSE]

Init ==
    /\ session = [s \in Session |-> NewSession]
    /\ post = [c \in Call |-> [stage |-> "fresh", waited |-> 0, got |-> NoCall]]
    /\ running = {}
    /\ closed = FALSE

In(state) == {s \in Session : session[s].state = state}

\* pendingSends of a session, and the entry of an id.
Waiting(s) == {c \in Call : post[c].stage = "waiting" /\ SessionOf[c] = s}
Waiter(s, id) == {c \in Waiting(s) : IdOf[c] = id}

(***************************************************************************)
(* The pool.                                                               *)
(***************************************************************************)

\* destroySession: calls are aborted, waiting posts get a 504.
Destroyed(ss) ==
    [s \in Session |->
        IF s \in ss
        THEN [NewSession EXCEPT !.state = "gone", !.transport = Detach(session[s].transport)]
        ELSE session[s]]
Abandoned(ss) ==
    [c \in Call |->
        IF \E s \in ss : c \in Waiting(s) THEN [post[c] EXCEPT !.stage = "failed", !.waited = 0]
        ELSE post[c]]

\* A mutant: only the sessions that exist are counted.
HasRoomForgettingPending == Cardinality(In("live")) < MaxHttpSessions

HasRoom == Cardinality(In("live") \cup In("creating")) < MaxHttpSessions

\* A mutant: a session with a request in flight is a candidate too.
EvictableBusy(s) ==
    /\ s \in In("live") /\ session[s].clientIdle > IdleThreshold
    /\ \A r \in In("live") : session[r].clientIdle <= session[s].clientIdle

\* evictOldestIdleSession; which of two equally old ones goes is left open.
Evictable(s) ==
    /\ s \in In("live") /\ session[s].inFlight = 0
    /\ session[s].clientIdle > IdleThreshold
    /\ \A r \in In("live") :
         session[r].inFlight = 0 => session[r].clientIdle <= session[s].clientIdle

\* POST initialize, up to the await of the instructions.
InitializeBegin(s) ==
    /\ ~closed /\ s \in In("unused")
    /\ HasRoom
    /\ session' = [session EXCEPT ![s].state = "creating"]
    /\ UNCHANGED <<post, running, closed>>

InitializeEvicting(s, old) ==
    /\ ~closed /\ s \in In("unused")
    /\ ~HasRoom /\ Evictable(old)
    /\ session' = [Destroyed({old}) EXCEPT ![s].state = "creating"]
    /\ post' = Abandoned({old})
    /\ UNCHANGED <<running, closed>>

\* The session is registered, and its transport answers the initialize at once.
InitializeEnd(s) ==
    /\ s \in In("creating")
    /\ session' = [session EXCEPT
            ![s] = [NewSession EXCEPT !.state = "live",
                                      !.transport = Attach(@, Adapter, FALSE)]]
    /\ UNCHANGED <<post, running, closed>>

\* createSession throws.
InitializeFails(s) ==
    /\ s \in In("creating")
    /\ session' = [session EXCEPT ![s].state = "gone"]
    /\ UNCHANGED <<post, running, closed>>

Delete(s) ==
    /\ ~closed /\ s \in In("live") /\ session[s].inFlight = 0
    /\ session' = Destroyed({s}) /\ post' = Abandoned({s})
    /\ UNCHANGED <<running, closed>>

\* A mutant: a session with a stream counts as in use.
ExpiredStreamless == {s \in In("live") : session[s].idle > SessionTtl /\ ~session[s].sse}

Expired == {s \in In("live") : session[s].idle > SessionTtl}

PruneIdle ==
    /\ ~closed /\ Expired # {}
    /\ session' = Destroyed(Expired) /\ post' = Abandoned(Expired)
    /\ UNCHANGED <<running, closed>>

Close ==
    /\ ~closed /\ closed' = TRUE
    /\ session' = Destroyed(In("live")) /\ post' = Abandoned(In("live"))
    /\ UNCHANGED running

(***************************************************************************)
(* Requests.                                                               *)
(***************************************************************************)
Touched(r) == [r EXCEPT !.idle = 0, !.clientIdle = 0]

\* notifications/initialized.
Initialized(s) ==
    /\ ~closed /\ s \in In("live")
    /\ session' = [session EXCEPT ![s] = [Touched(@) EXCEPT !.transport.initialized = TRUE]]
    /\ UNCHANGED <<post, running, closed>>

\* HttpAdapter.send of the answer to call c: to whoever waits for its id, or on the
\* stream; p is the table of posts, r the session.
Sent(s, c, p, r) ==
    LET to == {w \in Call : p[w].stage = "waiting" /\ SessionOf[w] = s /\ IdOf[w] = IdOf[c]}
    IN  /\ post' = [w \in Call |->
             IF w \in to THEN [stage |-> "answered", waited |-> 0, got |-> c] ELSE p[w]]
        /\ session' = [session EXCEPT ![s] =
             [r EXCEPT !.inFlight = @ - Cardinality(to),
                       !.idle = IF to = {} /\ r.sse THEN 0 ELSE @]]

\* waitForSend accepts.
CanWait(c) ==
    /\ Cardinality(Waiting(SessionOf[c])) < MaxPendingSends
    /\ Waiter(SessionOf[c], IdOf[c]) = {}

\* handlePost has called waitForSend: its promise is pending, or rejected, which the
\* handler sees only after the request has gone to the transport.
Posts(c) == [post EXCEPT ![c].stage = IF CanWait(c) THEN "waiting" ELSE "failed"]
Counted(c) == [Touched(session[SessionOf[c]]) EXCEPT !.inFlight = IF CanWait(c) THEN @ + 1 ELSE @]

\* A tools/call is posted.
Arrives(c) ==
    /\ ~closed /\ SessionOf[c] \in In("live")
    /\ post[c].stage = "fresh"
    /\ Conforming => Waiter(SessionOf[c], IdOf[c]) = {}

\* It takes its slots and goes to the gate.
PostTaken(c) ==
    LET s == SessionOf[c] IN
    /\ Arrives(c) /\ Admits(session[s].transport, c)
    /\ post' = Posts(c)
    /\ session' = [session EXCEPT ![s] = [Counted(c) EXCEPT !.transport = Take(@, c)]]
    /\ running' = running \cup {c}
    /\ UNCHANGED closed

\* It is refused and answered at once: Admits is false, or a rate limit, the scope or the
\* arguments are against it.
PostRefused(c) ==
    /\ Arrives(c)
    /\ Sent(SessionOf[c], c, Posts(c), Counted(c))
    /\ UNCHANGED <<running, closed>>

\* The gate refuses, the handler ends, or it is aborted: the slots are released and the
\* answer is sent, unless the adapter is closed.
Settle(c) ==
    LET s == SessionOf[c]
        r == [session[s] EXCEPT !.transport = Release(@, c, @.gen)]
    IN  /\ c \in running
        /\ running' = running \ {c}
        /\ IF session[s].state = "live" THEN Sent(s, c, post, r)
           ELSE UNCHANGED <<session, post>>
        /\ UNCHANGED closed

\* onActivity: a call that runs reports progress.
Progress(c) ==
    /\ c \in running /\ session[SessionOf[c]].state = "live"
    /\ session' = [session EXCEPT ![SessionOf[c]].idle = 0]
    /\ UNCHANGED <<post, running, closed>>

\* The wait is over: 504, and the call goes on.
WaitEnds(c) ==
    /\ post[c].stage = "waiting"
    /\ post' = [post EXCEPT ![c].stage = "failed", ![c].waited = 0]
    /\ session' = [session EXCEPT ![SessionOf[c]].inFlight = @ - 1]
    /\ UNCHANGED <<running, closed>>

(***************************************************************************)
(* The event stream and the clock.                                         *)
(***************************************************************************)
Get(s) ==
    /\ ~closed /\ s \in In("live")
    /\ session' = [session EXCEPT ![s] = [Touched(@) EXCEPT !.sse = TRUE]]
    /\ UNCHANGED <<post, running, closed>>

StreamCloses(s) ==
    /\ session[s].sse
    /\ session' = [session EXCEPT ![s].sse = FALSE]
    /\ UNCHANGED <<post, running, closed>>

BroadcastListChanged ==
    /\ session' = [s \in Session |->
         IF session[s].sse THEN [session[s] EXCEPT !.idle = 0] ELSE session[s]]
    /\ UNCHANGED <<post, running, closed>>

Older(n, cap) == IF n > cap THEN n ELSE n + 1

\* Ages are not told apart beyond the time to live.
Tick ==
    /\ \A c \in Call : post[c].stage = "waiting" => post[c].waited < MaxWait
    /\ session' = [s \in Session |->
         IF session[s].state = "live"
         THEN [session[s] EXCEPT !.idle = Older(@, SessionTtl),
                                 !.clientIdle = Older(@, SessionTtl)]
         ELSE session[s]]
    /\ post' = [c \in Call |->
         IF post[c].stage = "waiting" THEN [post[c] EXCEPT !.waited = @ + 1] ELSE post[c]]
    /\ UNCHANGED <<running, closed>>

Next ==
    \/ \E s \in Session :
         \/ InitializeBegin(s) \/ InitializeEnd(s) \/ InitializeFails(s)
         \/ \E old \in Session : InitializeEvicting(s, old)
         \/ Delete(s) \/ Initialized(s) \/ Get(s) \/ StreamCloses(s)
    \/ \E c \in Call :
         PostTaken(c) \/ PostRefused(c) \/ Settle(c) \/ Progress(c) \/ WaitEnds(c)
    \/ PruneIdle \/ Close \/ BroadcastListChanged \/ Tick

Spec == Init /\ [][Next]_vars

\* Time passes, and the timers of the waits and of the pruning fire.
FairSpec ==
    /\ Spec
    /\ WF_vars(Tick) /\ WF_vars(PruneIdle)
    /\ \A c \in Call : WF_vars(post[c].waited >= MaxWait /\ WaitEnds(c))
(***************************************************************************)
(* Properties.                                                             *)
(***************************************************************************)

\* The types.
TypeOK ==
    /\ session \in [Session -> SessionRecord]
    /\ post \in [Call -> [stage : {"fresh", "waiting", "answered", "failed"},
                          waited : 0..MaxWait, got : Call \cup {NoCall}]]
    /\ running \subseteq Call /\ closed \in BOOLEAN

\* The pool and the counters agree with what is going on: initializes that overlap do not
\* overfill the pool, a session counts exactly the posts that wait, whichever way each
\* of them ended, and its transport exactly the calls that run (streamableHttp.ts:422-428).
Accounts ==
    /\ Cardinality(In("live") \cup In("creating")) <= MaxHttpSessions
    /\ \A s \in In("live") :
         LET t == session[s].transport
             open == {c \in running : SessionOf[c] = s}
         IN  /\ session[s].inFlight = Cardinality(Waiting(s))
             /\ t.inFlight = open /\ t.active = Cardinality(open)

\* A post is answered with the answer to its own request, although ids come back after
\* a timeout while the call they stood for still runs (streamableHttp.ts:72-82).
AnswerIsOwn == \A c \in Call : post[c].stage = "answered" => post[c].got = c

\* Nothing but the shutdown takes a session away from a post that waits: not a newcomer
\* in need of room, not the prune timer, not a DELETE (streamableHttp.ts:857-861, 1109).
BusySessionKept ==
    [][\A s \in Session :
        session[s].state = "live" /\ Waiting(s) # {} /\ ~closed' =>
            session'[s].state = "live"]_vars

\* A session nobody uses goes: its client need not say goodbye, and a stream that was
\* never closed does not keep it (streamableHttp.ts:1091-1099).  The shutdown stops the timer.
UnusedSessionsGo ==
    \A s \in Session : []<>(session[s].state # "live" \/ session[s].idle = 0 \/ closed)
=============================================================================
