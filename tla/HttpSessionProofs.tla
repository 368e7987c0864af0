-------------------------- MODULE HttpSessionProofs --------------------------
(***************************************************************************)
(* What HttpSession promises for any pool, any calls and any limits.       *)
(*                                                                         *)
(* Accounts needs three facts beside it.  A post that waits has a call that*)
(* runs (Waiters), so that two waiting posts of a session never share an   *)
(* id.  The session of a waiting post was in use since that post came in   *)
(* (Waiters), so that it is too young to be pruned.  A call outlives its   *)
(* post, but no call is there before its session (Started).                *)
(***************************************************************************)
EXTENDS HttpSession, FiniteSetTheorems, TLAPS

\* The calls of a session that are at the gate or in their handler.
Open(s) == {c \in running : SessionOf[c] = s}

\* The sessions that count against MAX_HTTP_SESSIONS.
InPool == In("live") \cup In("creating")

Pool == IsFiniteSet(InPool) /\ Cardinality(InPool) <= MaxHttpSessions

\* The call of a waiting post runs, and its session is in use since the post came in.
WaiterOf(c) ==
    LET s == SessionOf[c] IN
    c \in running /\ session[s].state = "live" /\ session[s].idle <= post[c].waited

Waiters == \A c \in Call : post[c].stage = "waiting" => WaiterOf(c)

\* No call is at work for a session that has not been live.
Started == \A c \in running : session[SessionOf[c]].state \in {"live", "gone"}

\* The counters of a live session, and that no id stands for two of its calls.
BooksOf(s) ==
    LET t == session[s].transport IN
    /\ IsFiniteSet(Waiting(s)) /\ session[s].inFlight = Cardinality(Waiting(s))
    /\ IsFiniteSet(Open(s)) /\ t.inFlight = Open(s) /\ t.active = Cardinality(Open(s))
    /\ \A c, d \in Open(s) : IdOf[c] = IdOf[d] => c = d

Books == \A s \in Session : session[s].state = "live" => BooksOf(s)

Inv == TypeOK /\ Pool /\ Waiters /\ Started /\ Books

(***************************************************************************)
(* The operators of McpTransport, field by field.                          *)
(***************************************************************************)
Transport == TransportRecord({Adapter})

\* A new transport, and one that has been attached to its adapter.
LEMMA NewTransport ==
  /\ Constructed \in Transport
  /\ LET t == Attach(Constructed, Adapter, FALSE) IN
     t \in Transport /\ t.inFlight = {} /\ t.active = 0
<1> DEFINE t == Constructed
           g == t.gen + 1
           i == t.initialized /\ FALSE
<1>1. t \in Transport /\ t.inFlight = {} /\ t.active = 0
  BY DEF Constructed, Transport, TransportRecord
<1>2. g \in Nat /\ i \in BOOLEAN
  BY <1>1 DEF Transport, TransportRecord
<1>3. Attach(t, Adapter, FALSE) = [t EXCEPT !.ws = Adapter, !.gen = g, !.initialized = i]
  BY DEF Attach
<1> HIDE DEF t, g, i
<1>4. LET r == Attach(t, Adapter, FALSE) IN
      r \in Transport /\ r.inFlight = t.inFlight /\ r.active = t.active
  BY <1>1, <1>2, <1>3 DEF Transport, TransportRecord
<1> QED BY <1>1, <1>4 DEF t

\* detach.
LEMMA Detached == ASSUME NEW t \in Transport PROVE Detach(t) \in Transport
BY DEF Detach, Transport, TransportRecord

\* A call takes its slots.
LEMMA Taken ==
  ASSUME NEW t \in Transport, NEW c \in Call
  PROVE  LET r == Take(t, c) IN
         r \in Transport /\ r.inFlight = t.inFlight \cup {c} /\ r.active = t.active + 1
<1> DEFINE fl == t.inFlight \cup {c}
           n == t.active + 1
<1>1. fl \in SUBSET Call /\ n \in Nat
  BY DEF Transport, TransportRecord
<1>2. Take(t, c) = [t EXCEPT !.inFlight = fl, !.active = n]
  BY DEF Take
<1> HIDE DEF fl, n
<1>3. LET r == Take(t, c) IN r \in Transport /\ r.inFlight = fl /\ r.active = n
  BY <1>1, <1>2 DEF Transport, TransportRecord
<1> QED BY <1>3 DEF fl, n

\* A call of the transport's own generation releases its slots.
LEMMA Released ==
  ASSUME NEW t \in Transport, NEW c \in Call
  PROVE  LET r == Release(t, c, t.gen) IN
         /\ r \in Transport
         /\ r.inFlight = {d \in t.inFlight : IdOf[d] # IdOf[c]}
         /\ t.active > 0 => r.active = t.active - 1
<1> DEFINE rest == [t EXCEPT !.soft = @ \ {IdOf[c]}]
<1>1. /\ rest \in Transport /\ rest.inFlight = t.inFlight /\ rest.active = t.active
  BY DEF Transport, TransportRecord
<1> DEFINE fl == {d \in rest.inFlight : IdOf[d] # IdOf[c]}
           n == IF rest.active > 0 THEN rest.active - 1 ELSE 0
<1>2. Release(t, c, t.gen) = [rest EXCEPT !.inFlight = fl, !.active = n]
  BY DEF Release
<1>3. fl \in SUBSET Call /\ n \in Nat /\ (rest.active > 0 => n = rest.active - 1)
  BY <1>1 DEF Transport, TransportRecord
<1>4. fl = {d \in t.inFlight : IdOf[d] # IdOf[c]}
  BY <1>1
<1> HIDE DEF rest, fl, n
<1>5. /\ [rest EXCEPT !.inFlight = fl, !.active = n] \in Transport
      /\ [rest EXCEPT !.inFlight = fl, !.active = n].inFlight = fl
      /\ [rest EXCEPT !.inFlight = fl, !.active = n].active = n
  BY <1>1, <1>3 DEF Transport, TransportRecord
<1> QED BY <1>1, <1>2, <1>3, <1>4, <1>5

(***************************************************************************)
(* Sessions and posts.                                                     *)
(***************************************************************************)
Post == [stage : {"fresh", "waiting", "answered", "failed"}, waited : 0..MaxWait,
         got : Call \cup {NoCall}]

\* A session object is a record with all its fields, as is the one before it is made.
LEMMA Record ==
  /\ NewSession \in SessionRecord
  /\ TypeOK => \A s \in Session : session[s] \in SessionRecord
                                  /\ session[s].transport \in Transport
  /\ TypeOK => \A c \in Call : post[c] \in Post /\ SessionOf[c] \in Session
<1>1. NewSession \in SessionRecord
  BY NewTransport, HttpAssumption DEF NewSession, SessionRecord, Transport
<1> QED BY <1>1, HttpAssumption DEF TypeOK, SessionRecord, Transport, Post

\* No step but those of the pool moves a session to another state, and no step changes
\* the books but those of a call.  Quiet: the remaining steps, which move the clocks.
Quiet ==
    /\ session' \in [Session -> SessionRecord]
    /\ post' \in [Call -> Post]
    /\ UNCHANGED <<running, closed>>
    /\ \A s \in Session :
         /\ session'[s].state = session[s].state
         /\ session'[s].inFlight = session[s].inFlight
         /\ session'[s].transport.inFlight = session[s].transport.inFlight
         /\ session'[s].transport.active = session[s].transport.active
    /\ \A c \in Call :
         /\ post'[c].stage = post[c].stage /\ post'[c].got = post[c].got
         /\ post[c].stage = "waiting"
              /\ session[SessionOf[c]].idle <= post[c].waited =>
            session'[SessionOf[c]].idle <= post'[c].waited

\* A step that changes one session: what it puts there, and the rest.
LEMMA Changed ==
  ASSUME TypeOK, NEW s \in Session, NEW r \in SessionRecord,
         session' = [session EXCEPT ![s] = r]
  PROVE  /\ session' \in [Session -> SessionRecord]
         /\ session'[s] = r /\ \A q \in Session \ {s} : session'[q] = session[q]
BY DEF TypeOK

\* The clock of a session is set.
LEMMA IdleSet ==
  ASSUME NEW r \in SessionRecord, NEW i \in 0..SessionTtl + 1
  PROVE  LET o == [r EXCEPT !.idle = i] IN
         /\ o \in SessionRecord /\ o.idle = i
         /\ o.state = r.state /\ o.transport = r.transport
         /\ o.inFlight = r.inFlight /\ o.sse = r.sse
BY DEF SessionRecord

\* The age of a session that has just been used.
LEMMA ZeroAge == 0 \in 0..SessionTtl + 1 /\ \A r \in SessionRecord : r.idle \in Nat
BY HttpAssumption DEF SessionRecord

\* The clocks of a session that is used.
LEMMA TouchedEffect ==
  ASSUME NEW r \in SessionRecord
  PROVE  /\ Touched(r) \in SessionRecord /\ Touched(r).idle = 0
         /\ Touched(r).state = r.state /\ Touched(r).transport = r.transport
         /\ Touched(r).inFlight = r.inFlight /\ Touched(r).sse = r.sse
<1> DEFINE Ages == 0..SessionTtl + 1
<1>1. 0 \in Ages
  BY ZeroAge
<1>2. r \in [state : {"unused", "creating", "live", "gone"},
             transport : TransportRecord({Adapter}),
             idle : Ages, clientIdle : Ages, inFlight : Nat, sse : BOOLEAN]
  BY DEF SessionRecord
<1> HIDE DEF Ages
<1>3. LET o == Touched(r) IN
      /\ o \in [state : {"unused", "creating", "live", "gone"},
                transport : TransportRecord({Adapter}),
                idle : Ages, clientIdle : Ages, inFlight : Nat, sse : BOOLEAN]
      /\ o.idle = 0 /\ o.state = r.state /\ o.transport = r.transport
      /\ o.inFlight = r.inFlight /\ o.sse = r.sse
  BY <1>1, <1>2 DEF Touched
<1> QED BY <1>3 DEF SessionRecord, Ages

\* A step that gives one session younger clocks and leaves its books is quiet.
LEMMA QuietChange ==
  ASSUME TypeOK, NEW s \in Session, NEW r \in SessionRecord,
         session' = [session EXCEPT ![s] = r], UNCHANGED <<post, running, closed>>,
         r.state = session[s].state, r.inFlight = session[s].inFlight,
         r.transport.inFlight = session[s].transport.inFlight,
         r.transport.active = session[s].transport.active,
         r.idle \in {0, session[s].idle}
  PROVE  Quiet
<1>1. /\ session' \in [Session -> SessionRecord] /\ session'[s] = r
      /\ \A q \in Session \ {s} : session'[q] = session[q]
  BY Changed
<1>2. post' \in [Call -> Post] /\ \A c \in Call : post[c].waited \in Nat
  BY HttpAssumption, Record DEF TypeOK, Post
<1>3. ASSUME NEW c \in Call, session[SessionOf[c]].idle <= post[c].waited
      PROVE  session'[SessionOf[c]].idle <= post'[c].waited
  BY <1>1, <1>2, <1>3, Record
<1> QED BY <1>1, <1>2, <1>3 DEF Quiet

\* The steps that change no session but its clocks, its stream or its handshake.
LEMMA QuietSteps ==
  ASSUME TypeOK,
         \/ UNCHANGED vars
         \/ \E s \in Session : Initialized(s) \/ Get(s) \/ StreamCloses(s)
         \/ \E c \in Call : Progress(c)
         \/ BroadcastListChanged \/ Tick
  PROVE  Quiet
<1>1. CASE UNCHANGED vars
  BY <1>1 DEF vars, Quiet, TypeOK, Post
<1>2. ASSUME NEW s \in Session, Initialized(s) PROVE Quiet
  <2> DEFINE o == Touched(session[s])
             t == [o.transport EXCEPT !.initialized = TRUE]
             r == [o EXCEPT !.transport = t]
  <2>1. /\ o \in SessionRecord /\ o.idle = 0 /\ o.state = session[s].state
        /\ o.transport = session[s].transport /\ o.inFlight = session[s].inFlight
        /\ o.transport \in Transport
    BY Record, TouchedEffect
  <2>2. session' = [session EXCEPT ![s] = r] /\ UNCHANGED <<post, running, closed>>
    BY <1>2 DEF Initialized
  <2> HIDE DEF o
  <2>3. t \in Transport /\ t.inFlight = o.transport.inFlight /\ t.active = o.transport.active
    BY <2>1 DEF Transport, TransportRecord
  <2> HIDE DEF t
  <2>4. /\ r \in SessionRecord /\ r.idle = o.idle /\ r.state = o.state /\ r.transport = t
        /\ r.inFlight = o.inFlight
    BY <2>1, <2>3 DEF SessionRecord, Transport
  <2> HIDE DEF r
  <2> QED BY <2>1, <2>2, <2>3, <2>4, QuietChange
<1>3. ASSUME NEW s \in Session, Get(s) PROVE Quiet
  <2> DEFINE o == Touched(session[s])
             r == [o EXCEPT !.sse = TRUE]
  <2>1. /\ o \in SessionRecord /\ o.idle = 0 /\ o.state = session[s].state
        /\ o.transport = session[s].transport /\ o.inFlight = session[s].inFlight
    BY Record, TouchedEffect
  <2>2. session' = [session EXCEPT ![s] = r] /\ UNCHANGED <<post, running, closed>>
    BY <1>3 DEF Get
  <2> HIDE DEF o
  <2>3. /\ r \in SessionRecord /\ r.idle = o.idle /\ r.state = o.state
        /\ r.transport = o.transport /\ r.inFlight = o.inFlight
    BY <2>1 DEF SessionRecord
  <2> HIDE DEF r
  <2> QED BY <2>1, <2>2, <2>3, QuietChange
<1>4. ASSUME NEW s \in Session, StreamCloses(s) PROVE Quiet
  <2> DEFINE r == [session[s] EXCEPT !.sse = FALSE]
  <2>1. session' = [session EXCEPT ![s] = r] /\ UNCHANGED <<post, running, closed>>
    BY <1>4 DEF StreamCloses
  <2>2. /\ r \in SessionRecord /\ r.idle = session[s].idle /\ r.state = session[s].state
        /\ r.transport = session[s].transport /\ r.inFlight = session[s].inFlight
    BY Record DEF SessionRecord
  <2> HIDE DEF r
  <2> QED BY <2>1, <2>2, QuietChange
<1>5. ASSUME NEW c \in Call, Progress(c) PROVE Quiet
  <2> DEFINE s == SessionOf[c]
             r == [session[s] EXCEPT !.idle = 0]
  <2>1. /\ session' = [session EXCEPT ![s] = r] /\ UNCHANGED <<post, running, closed>>
        /\ s \in Session
    BY <1>5, HttpAssumption DEF Progress
  <2> HIDE DEF s
  <2>2. /\ r \in SessionRecord /\ r.idle = 0 /\ r.state = session[s].state
        /\ r.transport = session[s].transport /\ r.inFlight = session[s].inFlight
    BY <2>1, Record, ZeroAge, IdleSet
  <2> HIDE DEF r
  <2> QED BY <2>1, <2>2, QuietChange
<1>6. CASE BroadcastListChanged
  <2>1. /\ session' = [s \in Session |->
              IF session[s].sse THEN [session[s] EXCEPT !.idle = 0] ELSE session[s]]
        /\ UNCHANGED <<post, running, closed>>
    BY <1>6 DEF BroadcastListChanged
  <2>2. ASSUME NEW s \in Session
        PROVE  /\ session'[s] \in SessionRecord /\ session'[s].idle \in {0, session[s].idle}
               /\ session'[s].state = session[s].state
               /\ session'[s].transport = session[s].transport
               /\ session'[s].inFlight = session[s].inFlight
    <3>1. CASE session[s].sse
      BY SMTT(30), <2>1, <3>1, Record, ZeroAge, IdleSet
    <3>2. CASE ~session[s].sse
      BY <2>1, <3>2, Record
    <3> QED BY <3>1, <3>2
  <2>3. post' \in [Call -> Post] /\ \A c \in Call : post[c].waited \in Nat
    BY <2>1, HttpAssumption, Record DEF TypeOK, Post
  <2>4. session' \in [Session -> SessionRecord]
    BY <2>1, <2>2
  <2> QED BY <2>1, <2>2, <2>3, <2>4, Record DEF Quiet
<1>7. CASE Tick
  <2>1. ASSUME NEW s \in Session
        PROVE  LET r == [session[s] EXCEPT !.idle = Older(@, SessionTtl),
                                           !.clientIdle = Older(@, SessionTtl)]
               IN  /\ r \in SessionRecord /\ r.idle <= session[s].idle + 1
                   /\ r.state = session[s].state /\ r.transport = session[s].transport
                   /\ r.inFlight = session[s].inFlight
    <3> DEFINE i == Older(session[s].idle, SessionTtl)
               j == Older(session[s].clientIdle, SessionTtl)
    <3>1. i \in 0..SessionTtl + 1 /\ j \in 0..SessionTtl + 1 /\ i <= session[s].idle + 1
      BY Record, HttpAssumption DEF Older, SessionRecord
    <3> HIDE DEF i, j
    <3>2. LET r == [session[s] EXCEPT !.idle = i, !.clientIdle = j]
          IN  /\ r \in SessionRecord /\ r.idle = i
              /\ r.state = session[s].state /\ r.transport = session[s].transport
              /\ r.inFlight = session[s].inFlight
      BY <3>1, Record DEF SessionRecord
    <3> QED BY <3>1, <3>2 DEF i, j
  <2>2. ASSUME NEW s \in Session
        PROVE  /\ session'[s] \in SessionRecord /\ session'[s].idle <= session[s].idle + 1
               /\ session[s].idle \in Nat /\ session'[s].idle \in Nat
               /\ session'[s].state = session[s].state
               /\ session'[s].transport = session[s].transport
               /\ session'[s].inFlight = session[s].inFlight
    <3>1. session[s].idle \in Nat
      BY Record, HttpAssumption DEF SessionRecord
    <3>2. \/ session'[s] = session[s]
          \/ session'[s] = [session[s] EXCEPT !.idle = Older(@, SessionTtl),
                                              !.clientIdle = Older(@, SessionTtl)]
      BY <1>7 DEF Tick
    <3>3. CASE session'[s] = session[s]
      BY <3>1, <3>3, Record
    <3>4. CASE session'[s] = [session[s] EXCEPT !.idle = Older(@, SessionTtl),
                                                !.clientIdle = Older(@, SessionTtl)]
      BY <2>1, <3>1, <3>4, ZeroAge
    <3> QED BY <3>2, <3>3, <3>4
  <2>3. session' \in [Session -> SessionRecord]
    BY <1>7, <2>2 DEF Tick
  <2>4. ASSUME NEW c \in Call
        PROVE  /\ post'[c] \in Post
               /\ post'[c].stage = post[c].stage /\ post'[c].got = post[c].got
               /\ post[c].stage = "waiting" => post'[c].waited = post[c].waited + 1
               /\ post[c].waited \in Nat
    <3>1. /\ post[c].stage = "waiting" => post[c].waited < MaxWait
          /\ post'[c] = IF post[c].stage = "waiting" THEN [post[c] EXCEPT !.waited = @ + 1]
                                                     ELSE post[c]
      BY <1>7 DEF Tick
    <3> QED BY <3>1, Record, HttpAssumption DEF Post
  <2>5. post' \in [Call -> Post]
    BY <1>7, <2>4 DEF Tick
  <2>6. ASSUME NEW c \in Call, post[c].stage = "waiting",
               session[SessionOf[c]].idle <= post[c].waited
        PROVE  session'[SessionOf[c]].idle <= post'[c].waited
    BY <2>2, <2>4, <2>6, Record
  <2> QED BY <1>7, <2>2, <2>3, <2>4, <2>5, <2>6 DEF Quiet, Tick
<1> QED BY <1>1, <1>2, <1>3, <1>4, <1>5, <1>6, <1>7

\* Sessions are taken out of the pool, with the posts that wait for them; others, that
\* were not live, come to be created or fail to be.  Nothing else changes.
Removes(gone, odd) ==
    /\ gone \subseteq In("live")
    /\ session' \in [Session -> SessionRecord] /\ post' \in [Call -> Post]
    /\ UNCHANGED running
    /\ \A s \in gone : session'[s].state = "gone"
    /\ \A s \in odd : /\ session[s].state \in {"unused", "creating"}
                      /\ session'[s].state \in {"creating", "gone"}
    /\ \A s \in Session \ (gone \cup odd) : session'[s] = session[s]
    /\ \A c \in Call : IF SessionOf[c] \in gone /\ post[c].stage = "waiting"
                       THEN post'[c].stage = "failed" ELSE post'[c] = post[c]

\* destroySession.
LEMMA DestroyedEffect ==
  ASSUME TypeOK, NEW gone \in SUBSET In("live")
  PROVE  /\ Destroyed(gone) \in [Session -> SessionRecord]
         /\ \A s \in gone : Destroyed(gone)[s].state = "gone"
         /\ \A s \in Session \ gone : Destroyed(gone)[s] = session[s]
         /\ Abandoned(gone) \in [Call -> Post]
         /\ \A c \in Call : IF SessionOf[c] \in gone /\ post[c].stage = "waiting"
                            THEN Abandoned(gone)[c].stage = "failed"
                            ELSE Abandoned(gone)[c] = post[c]
<1>1. ASSUME NEW s \in Session
      PROVE  LET o == [NewSession EXCEPT !.state = "gone",
                                         !.transport = Detach(session[s].transport)]
             IN  o \in SessionRecord /\ o.state = "gone"
  <2> DEFINE t == Detach(session[s].transport)
  <2>1. t \in Transport /\ NewSession \in SessionRecord
    BY Record, Detached
  <2> HIDE DEF t
  <2>2. LET o == [NewSession EXCEPT !.state = "gone", !.transport = t]
        IN  o \in SessionRecord /\ o.state = "gone"
    BY <2>1 DEF SessionRecord, Transport
  <2> QED BY <2>2 DEF t
<1>2. ASSUME NEW s \in Session PROVE /\ Destroyed(gone)[s] \in SessionRecord
                                     /\ s \in gone => Destroyed(gone)[s].state = "gone"
                                     /\ s \notin gone => Destroyed(gone)[s] = session[s]
  <2>1. CASE s \in gone
    BY <1>1, <2>1 DEF Destroyed
  <2>2. CASE s \notin gone
    BY <2>2, Record DEF Destroyed
  <2> QED BY <2>1, <2>2
<1>3. Destroyed(gone) \in [Session -> SessionRecord]
  BY <1>2 DEF Destroyed
<1>4. ASSUME NEW c \in Call
      PROVE  Abandoned(gone)[c] = IF SessionOf[c] \in gone /\ post[c].stage = "waiting"
                                  THEN [post[c] EXCEPT !.stage = "failed", !.waited = 0]
                                  ELSE post[c]
  BY DEF Abandoned, Waiting
<1>5. ASSUME NEW c \in Call
      PROVE  LET o == [post[c] EXCEPT !.stage = "failed", !.waited = 0] IN
             o \in Post /\ o.stage = "failed"
  <2>1. 0 \in 0..MaxWait
    BY HttpAssumption
  <2> QED BY <2>1, Record DEF Post
<1>6. ASSUME NEW c \in Call PROVE Abandoned(gone)[c] \in Post
  BY <1>4, <1>5, Record
<1>7. Abandoned(gone) \in [Call -> Post]
  BY <1>6 DEF Abandoned
<1>8. ASSUME NEW c \in Call
      PROVE  IF SessionOf[c] \in gone /\ post[c].stage = "waiting"
             THEN Abandoned(gone)[c].stage = "failed"
             ELSE Abandoned(gone)[c] = post[c]
  BY <1>4, <1>5
<1>9. gone \subseteq Session
  BY DEF In
<1> QED BY <1>2, <1>3, <1>7, <1>8, <1>9

\* A session that is not live yet is moved on.
LEMMA Moved ==
  ASSUME TypeOK, NEW s \in Session, NEW to \in {"creating", "gone"}
  PROVE  LET o == [session[s] EXCEPT !.state = to] IN o \in SessionRecord /\ o.state = to
BY Record DEF SessionRecord

\* The steps of the pool other than the one that makes a session live.
LEMMA PoolSteps ==
  ASSUME TypeOK
  PROVE  /\ \A s \in Session : InitializeBegin(s) => Removes({}, {s})
         /\ \A s, old \in Session : InitializeEvicting(s, old) => Removes({old}, {s})
         /\ \A s \in Session : InitializeFails(s) => Removes({}, {s})
         /\ \A s \in Session : Delete(s) => Removes({s}, {})
         /\ PruneIdle => Removes(Expired, {})
         /\ Close => Removes(In("live"), {})
<1>1. ASSUME NEW s \in Session, InitializeBegin(s) \/ InitializeFails(s)
      PROVE  Removes({}, {s})
  <2> PICK to \in {"creating", "gone"} :
           session' = [session EXCEPT ![s] = [session[s] EXCEPT !.state = to]]
    BY <1>1 DEF InitializeBegin, InitializeFails
  <2>1. /\ session' \in [Session -> SessionRecord] /\ session'[s].state = to
        /\ \A q \in Session \ {s} : session'[q] = session[q]
    BY Changed, Moved
  <2>2. session[s].state \in {"unused", "creating"} /\ UNCHANGED <<post, running>>
    BY <1>1 DEF InitializeBegin, InitializeFails, In
  <2> QED BY <2>1, <2>2, Record DEF Removes, TypeOK, Post
<1>2. ASSUME NEW s \in Session, NEW old \in Session, InitializeEvicting(s, old)
      PROVE  Removes({old}, {s})
  <2> DEFINE D == Destroyed({old})
  <2>1. /\ session[s].state = "unused" /\ {old} \in SUBSET In("live")
        /\ session' = [D EXCEPT ![s].state = "creating"]
        /\ post' = Abandoned({old}) /\ UNCHANGED running
    BY <1>2 DEF InitializeEvicting, Evictable, In
  <2>2. old # s
    BY <2>1 DEF In
  <2>3. /\ D \in [Session -> SessionRecord] /\ D[old].state = "gone"
        /\ \A q \in Session \ {old} : D[q] = session[q]
    BY <2>1, DestroyedEffect
  <2>4. session' = [D EXCEPT ![s] = [session[s] EXCEPT !.state = "creating"]]
    BY <2>1, <2>2, <2>3
  <2> HIDE DEF D
  <2>5. /\ session' \in [Session -> SessionRecord] /\ session'[s].state = "creating"
        /\ \A q \in Session \ {s} : session'[q] = D[q]
    BY <2>3, <2>4, Moved
  <2>6. /\ post' \in [Call -> Post]
        /\ \A c \in Call : IF SessionOf[c] \in {old} /\ post[c].stage = "waiting"
                           THEN post'[c].stage = "failed" ELSE post'[c] = post[c]
    BY <2>1, DestroyedEffect
  <2>7. session'[old].state = "gone" /\ \A q \in Session \ {s, old} : session'[q] = session[q]
    BY <2>2, <2>3, <2>5
  <2> QED BY <2>1, <2>5, <2>6, <2>7 DEF Removes
<1>3. ASSUME NEW gone \in SUBSET In("live"),
             session' = Destroyed(gone), post' = Abandoned(gone), UNCHANGED running
      PROVE  Removes(gone, {})
  BY <1>3, DestroyedEffect DEF Removes
<1>4. ASSUME NEW s \in Session, Delete(s) PROVE Removes({s}, {})
  BY <1>3, <1>4 DEF Delete
<1>5. PruneIdle => Removes(Expired, {})
  BY <1>3 DEF PruneIdle, Expired
<1>6. Close => Removes(In("live"), {})
  BY <1>3 DEF Close
<1> QED BY <1>1, <1>2, <1>4, <1>5, <1>6

\* The answer to call c is sent: W are the posts of its session that wait, r the session.
LEMMA SentEffect ==
  ASSUME TypeOK, NEW s \in Session, NEW c \in Call, NEW p \in [Call -> Post],
         NEW r \in SessionRecord, NEW W,
         W = {w \in Call : p[w].stage = "waiting" /\ SessionOf[w] = s},
         IsFiniteSet(W), r.inFlight = Cardinality(W), Sent(s, c, p, r)
  PROVE  /\ session' \in [Session -> SessionRecord] /\ post' \in [Call -> Post]
         /\ \A q \in Session \ {s} : session'[q] = session[q]
         /\ session'[s].state = r.state /\ session'[s].transport = r.transport
         /\ session'[s].idle \in {0, r.idle}
         /\ Waiting(s)' = {w \in W : IdOf[w] # IdOf[c]}
         /\ IsFiniteSet(Waiting(s)')
         /\ session'[s].inFlight = Cardinality(Waiting(s)')
         /\ \A w \in Call : IF w \in W /\ IdOf[w] = IdOf[c]
                            THEN post'[w].stage = "answered" /\ post'[w].got = c
                            ELSE post'[w] = p[w]
<1> DEFINE to == {w \in W : IdOf[w] = IdOf[c]}
           i == IF to = {} /\ r.sse THEN 0 ELSE r.idle
           n == r.inFlight - Cardinality(to)
           o == [r EXCEPT !.inFlight = n, !.idle = i]
<1>1. to = {w \in Call : p[w].stage = "waiting" /\ SessionOf[w] = s /\ IdOf[w] = IdOf[c]}
  OBVIOUS
<1>2. /\ session' = [session EXCEPT ![s] = o]
      /\ post' = [w \in Call |->
             IF w \in to THEN [stage |-> "answered", waited |-> 0, got |-> c] ELSE p[w]]
  BY <1>1 DEF Sent
<1>3. IsFiniteSet(W \ to) /\ Cardinality(W \ to) = Cardinality(W) - Cardinality(W \cap to)
  BY FS_Difference
<1>4. W \cap to = to
  OBVIOUS
<1>5. n = Cardinality(W \ to) /\ n \in Nat
  BY <1>3, <1>4, FS_CardinalityType
<1>6. i \in 0..SessionTtl + 1 /\ i \in {0, r.idle}
  BY ZeroAge DEF SessionRecord
<1>7. 0 \in 0..MaxWait
  BY HttpAssumption
<1>8. post' \in [Call -> Post]
  BY <1>2, <1>7 DEF Post
<1>9. \A w \in Call : IF w \in to THEN post'[w].stage = "answered" /\ post'[w].got = c
                                  ELSE post'[w] = p[w]
  BY <1>2
<1>10. Waiting(s)' = W \ to
  BY <1>9 DEF Waiting
<1> HIDE DEF i, n
<1>11. /\ o \in SessionRecord /\ o.state = r.state /\ o.transport = r.transport
       /\ o.inFlight = n /\ o.idle = i
  BY <1>5, <1>6 DEF SessionRecord
<1> HIDE DEF o
<1>12. /\ session' \in [Session -> SessionRecord] /\ session'[s] = o
       /\ \A q \in Session \ {s} : session'[q] = session[q]
  BY <1>2, <1>11, Changed
<1> QED BY <1>3, <1>5, <1>6, <1>8, <1>9, <1>10, <1>11, <1>12

(***************************************************************************)
(* Every step keeps what it must.  Core: all but the size of the pool.     *)
(***************************************************************************)
Core ==
    /\ session \in [Session -> SessionRecord] /\ post \in [Call -> Post]
    /\ running \subseteq Call
    /\ Waiters /\ Started /\ Books

\* A session that is left as it is, with its posts and calls, keeps its books.
LEMMA BooksKept ==
  ASSUME NEW s \in Session, BooksOf(s), Waiting(s)' = Waiting(s), Open(s)' = Open(s),
         session'[s].inFlight = session[s].inFlight,
         session'[s].transport.inFlight = session[s].transport.inFlight,
         session'[s].transport.active = session[s].transport.active
  PROVE  BooksOf(s)'
BY DEF BooksOf

LEMMA QuietCore == ASSUME Inv, Quiet PROVE Core'
<1>1. \A s \in Session : Waiting(s)' = Waiting(s) /\ Open(s)' = Open(s)
  BY DEF Quiet, Waiting, Open
<1>2. Books'
  BY <1>1, BooksKept DEF Quiet, Inv, Books
<1>3. Waiters'
  BY Record DEF Quiet, Inv, Waiters, WaiterOf
<1>4. Started'
  BY HttpAssumption DEF Quiet, Inv, Started, TypeOK
<1> QED BY <1>2, <1>3, <1>4 DEF Core, Quiet, Inv, TypeOK

LEMMA RemovesCore ==
  ASSUME Inv, NEW gone, NEW odd, Removes(gone, odd) PROVE Core'
<1>1. ASSUME NEW s \in Session, session'[s].state = "live"
      PROVE  s \notin gone /\ session'[s] = session[s]
  BY <1>1 DEF Removes
<1>2. ASSUME NEW s \in Session, s \notin gone PROVE Waiting(s)' = Waiting(s)
  BY <1>2 DEF Removes, Waiting
<1>3. Books'
  <2> SUFFICES ASSUME NEW s \in Session, session'[s].state = "live" PROVE BooksOf(s)'
    BY DEF Books
  <2>1. /\ session'[s] = session[s] /\ BooksOf(s) /\ Waiting(s)' = Waiting(s)
        /\ Open(s)' = Open(s)
    BY <1>1, <1>2 DEF Inv, Books, Removes, Open
  <2> QED BY <2>1, BooksKept
<1>4. Waiters'
  <2> SUFFICES ASSUME NEW c \in Call, post'[c].stage = "waiting" PROVE WaiterOf(c)'
    BY DEF Waiters
  <2>1. post'[c] = post[c] /\ SessionOf[c] \notin gone /\ SessionOf[c] \in Session
    BY HttpAssumption DEF Removes
  <2>2. WaiterOf(c)
    BY <2>1 DEF Inv, Waiters
  <2>3. session'[SessionOf[c]] = session[SessionOf[c]]
    BY <2>1, <2>2 DEF Removes, WaiterOf
  <2> QED BY <2>1, <2>2, <2>3 DEF WaiterOf, Removes
<1>5. Started'
  <2> SUFFICES ASSUME NEW c \in running
               PROVE  session'[SessionOf[c]].state \in {"live", "gone"}
    BY DEF Started, Removes
  <2>1. SessionOf[c] \in Session /\ session[SessionOf[c]].state \in {"live", "gone"}
    BY HttpAssumption DEF Inv, Started, TypeOK
  <2> QED BY <2>1 DEF Removes
<1> QED BY <1>3, <1>4, <1>5 DEF Core, Removes, Inv, TypeOK

\* A session goes live: nothing waits for it yet.
LEMMA InitializeEndCore ==
  ASSUME Inv, NEW s \in Session, InitializeEnd(s) PROVE Core'
<1> DEFINE t == Attach(Constructed, Adapter, FALSE)
           o == [NewSession EXCEPT !.state = "live", !.transport = t]
<1>1. session' = [session EXCEPT ![s] = o] /\ UNCHANGED <<post, running>>
  BY DEF InitializeEnd, NewSession
<1>2. t \in Transport /\ t.inFlight = {} /\ t.active = 0
  BY NewTransport
<1>3. NewSession \in SessionRecord /\ NewSession.inFlight = 0
  BY Record DEF NewSession
<1> HIDE DEF t
<1>4. /\ o \in SessionRecord /\ o.state = "live" /\ o.inFlight = 0 /\ o.transport = t
  BY <1>2, <1>3 DEF SessionRecord, Transport
<1> HIDE DEF o
<1>5. /\ session' \in [Session -> SessionRecord] /\ session'[s] = o
      /\ \A q \in Session \ {s} : session'[q] = session[q]
  BY <1>1, <1>4, Changed DEF Inv
<1>6. session[s].state = "creating"
  BY DEF InitializeEnd, In
<1>7. Waiting(s)' = {} /\ Open(s)' = {}
  BY <1>1, <1>6 DEF Inv, Waiters, WaiterOf, Started, Waiting, Open
<1>8. BooksOf(s)'
  BY <1>2, <1>4, <1>5, <1>7, FS_EmptySet DEF BooksOf
<1>9. \A q \in Session \ {s} : session[q].state = "live" => BooksOf(q)'
  BY <1>1, <1>5, BooksKept DEF Inv, Books, Waiting, Open
<1>10. Waiters'
  BY <1>1, <1>5, <1>6, HttpAssumption DEF Inv, Waiters, WaiterOf
<1>11. Started'
  BY <1>1, <1>4, <1>5, HttpAssumption DEF Inv, Started, TypeOK
<1> QED BY <1>1, <1>5, <1>8, <1>9, <1>10, <1>11 DEF Core, Books, Inv, TypeOK, Post

\* In the books of a session whose posts wait, two of them never share an id.
LEMMA WaitersApart ==
  ASSUME Inv, NEW s \in Session, session[s].state = "live"
  PROVE  /\ Waiting(s) \subseteq Open(s)
         /\ \A c, d \in Open(s) : IdOf[c] = IdOf[d] => c = d
BY DEF Inv, Waiters, WaiterOf, Waiting, Open, Books, BooksOf

\* What a step of call c leaves to the other sessions.
LEMMA OthersKept ==
  ASSUME Inv, NEW c \in Call, NEW s, s = SessionOf[c],
         \A q \in Session \ {s} : session'[q] = session[q],
         \A w \in Call : SessionOf[w] # s => post'[w] = post[w],
         \A w \in Call : SessionOf[w] # s => (w \in running' <=> w \in running),
         running' \subseteq Call
  PROVE  /\ \A q \in Session \ {s} : session'[q].state = "live" => BooksOf(q)'
         /\ \A w \in Call : SessionOf[w] # s /\ post'[w].stage = "waiting" => WaiterOf(w)'
         /\ \A w \in running' : SessionOf[w] # s =>
              session'[SessionOf[w]].state \in {"live", "gone"}
<1>1. \A q \in Session \ {s} : Waiting(q)' = Waiting(q) /\ Open(q)' = Open(q)
  BY DEF Inv, TypeOK, Waiting, Open
<1>2. \A q \in Session \ {s} : session'[q].state = "live" => BooksOf(q)'
  BY <1>1, BooksKept DEF Inv, Books
<1>3. \A w \in Call : SessionOf[w] # s /\ post'[w].stage = "waiting" => WaiterOf(w)'
  BY HttpAssumption DEF Inv, Waiters, WaiterOf
<1>4. \A w \in running' : SessionOf[w] # s =>
        session'[SessionOf[w]].state \in {"live", "gone"}
  BY HttpAssumption DEF Inv, Started
<1> QED BY <1>2, <1>3, <1>4

\* A post arrives at a live session: what it makes of the posts and of the session.
LEMMA ArrivesEffect ==
  ASSUME Inv, NEW c \in Call, Arrives(c)
  PROVE  LET s == SessionOf[c]
             p == Posts(c)
             r == Counted(c)
             W == {w \in Call : p[w].stage = "waiting" /\ SessionOf[w] = s}
         IN  /\ s \in Session /\ session[s].state = "live" /\ BooksOf(s)
             /\ c \notin Waiting(s)
             /\ p \in [Call -> Post]
             /\ \A w \in Call \ {c} : p[w] = post[w]
             /\ r \in SessionRecord /\ r.state = "live" /\ r.idle = 0
             /\ r.transport = session[s].transport
             /\ W = IF CanWait(c) THEN Waiting(s) \cup {c} ELSE Waiting(s)
             /\ IsFiniteSet(W) /\ r.inFlight = Cardinality(W)
<1> PICK s : s = SessionOf[c]
  OBVIOUS
<1> PICK p : p = Posts(c)
  OBVIOUS
<1> PICK r : r = Counted(c)
  OBVIOUS
<1> PICK W : W = {w \in Call : p[w].stage = "waiting" /\ SessionOf[w] = s}
  OBVIOUS
<1>1. /\ s \in Session /\ session[s].state = "live" /\ BooksOf(s)
      /\ post[c].stage = "fresh" /\ c \notin Waiting(s)
  BY DEF Arrives, In, Inv, Books, Waiting
<1>2. /\ p \in [Call -> Post] /\ \A w \in Call \ {c} : p[w] = post[w]
      /\ p[c].stage = IF CanWait(c) THEN "waiting" ELSE "failed"
  <2>1. post \in [Call -> Post]
    BY DEF Inv, TypeOK, Post
  <2> PICK g \in {"waiting", "failed"} : g = IF CanWait(c) THEN "waiting" ELSE "failed"
    OBVIOUS
  <2>2. p = [post EXCEPT ![c] = [post[c] EXCEPT !.stage = g]]
    BY DEF Posts
  <2>3. [post[c] EXCEPT !.stage = g] \in Post /\ [post[c] EXCEPT !.stage = g].stage = g
    BY <2>1 DEF Post
  <2> QED BY <2>1, <2>2, <2>3
<1>3. W = IF CanWait(c) THEN Waiting(s) \cup {c} ELSE Waiting(s)
  BY <1>1, <1>2 DEF Waiting
<1>4. IsFiniteSet(W) /\ Cardinality(W) \in Nat
      /\ Cardinality(W) = IF CanWait(c) THEN session[s].inFlight + 1 ELSE session[s].inFlight
  <2>1. IsFiniteSet(Waiting(s)) /\ session[s].inFlight = Cardinality(Waiting(s))
    BY <1>1 DEF BooksOf
  <2>2. CASE CanWait(c)
    <3>1. /\ IsFiniteSet(Waiting(s) \cup {c})
          /\ Cardinality(Waiting(s) \cup {c}) = Cardinality(Waiting(s)) + 1
      BY <1>1, <2>1, FS_AddElement
    <3> QED BY <1>3, <2>1, <2>2, <3>1, FS_CardinalityType
  <2>3. CASE ~CanWait(c)
    BY <1>3, <2>1, <2>3, FS_CardinalityType
  <2> QED BY <2>2, <2>3
<1>5. /\ r \in SessionRecord /\ r.state = "live" /\ r.idle = 0
      /\ r.transport = session[s].transport /\ r.inFlight = Cardinality(W)
  <2> DEFINE o == Touched(session[s])
             n == IF CanWait(c) THEN o.inFlight + 1 ELSE o.inFlight
  <2>1. /\ o \in SessionRecord /\ o.idle = 0 /\ o.state = "live"
        /\ o.transport = session[s].transport /\ o.inFlight = session[s].inFlight
    BY <1>1, Record, TouchedEffect DEF Inv
  <2>2. r = [o EXCEPT !.inFlight = n]
    BY DEF Counted
  <2>3. n = Cardinality(W) /\ n \in Nat
    BY <1>4, <2>1
  <2> HIDE DEF o, n
  <2> QED BY <2>1, <2>2, <2>3 DEF SessionRecord
<1> QED BY <1>1, <1>2, <1>3, <1>4, <1>5

\* A call is let in: it takes its slots, and its post, if there is room for it, waits.
LEMMA PostTakenCore ==
  ASSUME Inv, NEW c \in Call, PostTaken(c) PROVE Core'
<1> DEFINE s == SessionOf[c]
           p == Posts(c)
           r == Counted(c)
           W == {w \in Call : p[w].stage = "waiting" /\ SessionOf[w] = s}
<1>1. /\ s \in Session /\ session[s].state = "live" /\ BooksOf(s) /\ c \notin Waiting(s)
      /\ p \in [Call -> Post]
      /\ \A w \in Call \ {c} : p[w] = post[w]
      /\ r \in SessionRecord /\ r.state = "live" /\ r.idle = 0
      /\ r.transport = session[s].transport
      /\ W = IF CanWait(c) THEN Waiting(s) \cup {c} ELSE Waiting(s)
      /\ IsFiniteSet(W) /\ r.inFlight = Cardinality(W)
  <2>1. Arrives(c)
    BY DEF PostTaken
  <2> QED BY <2>1, ArrivesEffect
<1> DEFINE t == r.transport
           o == [r EXCEPT !.transport = Take(t, c)]
<1>2. /\ post' = p /\ session' = [session EXCEPT ![s] = o] /\ running' = running \cup {c}
      /\ Admits(t, c)
  BY <1>1 DEF PostTaken
<1> HIDE DEF p, r
<1>a. W = {w \in Call : p[w].stage = "waiting" /\ SessionOf[w] = s}
  OBVIOUS
<1> HIDE DEF W
<1>3. t \in Transport
  BY <1>1 DEF SessionRecord, Transport
<1>4. /\ o \in SessionRecord /\ o.state = "live" /\ o.idle = 0 /\ o.inFlight = Cardinality(W)
      /\ o.transport = Take(t, c)
  <2> PICK u \in Transport : u = Take(t, c)
    BY <1>3, Taken
  <2> HIDE DEF t
  <2> QED BY <1>1 DEF SessionRecord, Transport
<1>5. o.transport.inFlight = t.inFlight \cup {c} /\ o.transport.active = t.active + 1
  BY <1>3, <1>4, Taken
<1>6. c \notin Open(s) /\ \A d \in Open(s) : IdOf[d] # IdOf[c]
  BY <1>1, <1>2 DEF Admits, Ids, BooksOf
<1> HIDE DEF o
<1>7. /\ session' \in [Session -> SessionRecord] /\ session'[s] = o
      /\ \A q \in Session \ {s} : session'[q] = session[q]
  BY <1>1, <1>2, <1>4, Changed DEF Inv
<1>8. Waiting(s)' = W /\ Open(s)' = Open(s) \cup {c}
  BY <1>2, <1>a DEF Waiting, Open
<1>9. /\ IsFiniteSet(Open(s) \cup {c})
      /\ Cardinality(Open(s) \cup {c}) = Cardinality(Open(s)) + 1
  BY <1>1, <1>6, FS_AddElement DEF BooksOf
<1>10. /\ t.inFlight = Open(s) /\ t.active = Cardinality(Open(s))
       /\ \A d, e \in Open(s) : IdOf[d] = IdOf[e] => d = e
  BY <1>1 DEF BooksOf
<1>11. BooksOf(s)'
  <2>1. /\ o.transport.inFlight = Open(s) \cup {c}
        /\ o.transport.active = Cardinality(Open(s) \cup {c})
    BY <1>5, <1>9, <1>10
  <2>2. \A d, e \in Open(s) \cup {c} : IdOf[d] = IdOf[e] => d = e
    BY <1>6, <1>10
  <2> HIDE DEF t
  <2> QED BY <1>1, <1>4, <1>7, <1>8, <1>9, <2>1, <2>2 DEF BooksOf
<1>12. running' \subseteq Call
  BY <1>2 DEF Inv, TypeOK
<1>13. /\ \A q \in Session \ {s} : session'[q].state = "live" => BooksOf(q)'
       /\ \A w \in Call : SessionOf[w] # s /\ post'[w].stage = "waiting" => WaiterOf(w)'
       /\ \A w \in running' : SessionOf[w] # s =>
            session'[SessionOf[w]].state \in {"live", "gone"}
  BY <1>1, <1>2, <1>7, <1>12, OthersKept
<1>14. ASSUME NEW w \in Call, SessionOf[w] = s, post'[w].stage = "waiting" PROVE WaiterOf(w)'
  <2>1. w \in running'
    BY <1>1, <1>2, <1>14, WaitersApart DEF Open, Waiting
  <2>2. post'[w].waited \in Nat
    BY <1>1, <1>2, HttpAssumption DEF Post
  <2> QED BY <1>4, <1>7, <1>14, <2>1, <2>2 DEF WaiterOf
<1>15. Waiters' /\ Started' /\ Books'
  BY <1>4, <1>7, <1>11, <1>12, <1>13, <1>14 DEF Waiters, Started, Books
<1> QED BY <1>1, <1>2, <1>7, <1>12, <1>15 DEF Core

\* A call is refused and answered at once.
LEMMA PostRefusedCore ==
  ASSUME Inv, NEW c \in Call, PostRefused(c) PROVE Core'
<1> DEFINE s == SessionOf[c]
           p == Posts(c)
           r == Counted(c)
           W == {w \in Call : p[w].stage = "waiting" /\ SessionOf[w] = s}
<1>1. /\ s \in Session /\ session[s].state = "live" /\ BooksOf(s) /\ c \notin Waiting(s)
      /\ p \in [Call -> Post]
      /\ \A w \in Call \ {c} : p[w] = post[w]
      /\ r \in SessionRecord /\ r.state = "live" /\ r.idle = 0
      /\ r.transport = session[s].transport
      /\ W = IF CanWait(c) THEN Waiting(s) \cup {c} ELSE Waiting(s)
      /\ IsFiniteSet(W) /\ r.inFlight = Cardinality(W)
  <2>1. Arrives(c)
    BY DEF PostRefused
  <2> QED BY <2>1, ArrivesEffect
<1>2. Sent(s, c, p, r) /\ UNCHANGED running
  BY DEF PostRefused
<1> HIDE DEF p, r
<1>a. W = {w \in Call : p[w].stage = "waiting" /\ SessionOf[w] = s}
  OBVIOUS
<1> HIDE DEF W
<1>3. /\ session' \in [Session -> SessionRecord] /\ post' \in [Call -> Post]
      /\ \A q \in Session \ {s} : session'[q] = session[q]
      /\ session'[s].state = r.state /\ session'[s].transport = r.transport
      /\ session'[s].idle \in {0, r.idle}
      /\ Waiting(s)' = {w \in W : IdOf[w] # IdOf[c]}
      /\ IsFiniteSet(Waiting(s)')
      /\ session'[s].inFlight = Cardinality(Waiting(s)')
      /\ \A w \in Call : IF w \in W /\ IdOf[w] = IdOf[c]
                         THEN post'[w].stage = "answered" /\ post'[w].got = c
                         ELSE post'[w] = p[w]
  BY <1>1, <1>2, <1>a, SentEffect DEF Inv
<1>4. Open(s)' = Open(s) /\ running' \subseteq Call
  BY <1>2 DEF Open, Inv, TypeOK
<1>5. BooksOf(s)'
  BY <1>1, <1>3, <1>4 DEF BooksOf
<1>6. \A w \in Call : SessionOf[w] # s => post'[w] = post[w]
  BY <1>1, <1>3, <1>a
<1>7. /\ \A q \in Session \ {s} : session'[q].state = "live" => BooksOf(q)'
      /\ \A w \in Call : SessionOf[w] # s /\ post'[w].stage = "waiting" => WaiterOf(w)'
      /\ \A w \in running' : SessionOf[w] # s =>
           session'[SessionOf[w]].state \in {"live", "gone"}
  BY <1>2, <1>3, <1>4, <1>6, OthersKept
<1>8. ASSUME NEW w \in Call, SessionOf[w] = s, post'[w].stage = "waiting" PROVE WaiterOf(w)'
  <2>1. w \in running'
    BY <1>1, <1>2, <1>3, <1>8, WaitersApart DEF Open, Waiting
  <2>2. post'[w].waited \in Nat
    BY <1>3, HttpAssumption DEF Post
  <2> QED BY <1>1, <1>3, <1>8, <2>1, <2>2 DEF WaiterOf
<1>9. Waiters' /\ Started' /\ Books'
  BY <1>1, <1>3, <1>4, <1>5, <1>7, <1>8 DEF Waiters, Started, Books
<1> QED BY <1>3, <1>4, <1>9 DEF Core

\* A call that was let in ends.
LEMMA SettleCore ==
  ASSUME Inv, NEW c \in Call, Settle(c) PROVE Core'
<1> DEFINE s == SessionOf[c]
           t == session[s].transport
<1>1. c \in Open(s) /\ s \in Session /\ running' = running \ {c}
  BY HttpAssumption DEF Settle, Open
<1>2. CASE session[s].state # "live"
  <2>1. UNCHANGED <<session, post>>
    BY <1>2 DEF Settle
  <2>2. \A q \in Session : session[q].state = "live" =>
          Waiting(q)' = Waiting(q) /\ Open(q)' = Open(q)
    BY <1>1, <1>2, <2>1 DEF Waiting, Open
  <2>3. Books'
    BY <2>1, <2>2, BooksKept DEF Inv, Books
  <2>4. Waiters' /\ Started'
    BY <1>1, <1>2, <2>1 DEF Inv, Waiters, WaiterOf, Started
  <2> QED BY <1>1, <2>1, <2>3, <2>4 DEF Core, Inv, TypeOK, Post
<1>3. CASE session[s].state = "live"
  <2> DEFINE r == [session[s] EXCEPT !.transport = Release(t, c, t.gen)]
  <2>1. Sent(s, c, post, r)
    BY <1>3 DEF Settle
  <2>2. BooksOf(s) /\ t \in Transport
    BY <1>1, <1>3, Record DEF Inv, Books
  <2>3. /\ r \in SessionRecord /\ r.state = "live" /\ r.inFlight = session[s].inFlight
        /\ r.idle = session[s].idle /\ r.transport = Release(t, c, t.gen)
    <3> PICK u \in Transport : u = Release(t, c, t.gen)
      BY <2>2, Released
    <3>1. session[s] \in SessionRecord
      BY <1>1, Record DEF Inv
    <3> QED BY <1>3, <3>1 DEF SessionRecord, Transport
  <2>4. /\ t.inFlight = Open(s) /\ IsFiniteSet(Open(s)) /\ t.active = Cardinality(Open(s))
        /\ \A d, e \in Open(s) : IdOf[d] = IdOf[e] => d = e
    BY <2>2 DEF BooksOf
  <2>5. t.active > 0 /\ Cardinality(Open(s)) \in Nat
    BY <1>1, <2>4, FS_CardinalityType, FS_EmptySet
  <2>6. /\ r.transport.inFlight = {d \in t.inFlight : IdOf[d] # IdOf[c]}
        /\ r.transport.active = t.active - 1
    BY <2>2, <2>3, <2>5, Released
  <2>7. r.transport.inFlight = Open(s) \ {c}
    BY <1>1, <2>4, <2>6
  <2>8. /\ IsFiniteSet(Open(s) \ {c})
        /\ Cardinality(Open(s) \ {c}) = Cardinality(Open(s)) - 1
    BY <1>1, <2>4, FS_RemoveElement
  <2> DEFINE W == Waiting(s)
  <2>9. /\ W = {w \in Call : post[w].stage = "waiting" /\ SessionOf[w] = s}
        /\ IsFiniteSet(W) /\ r.inFlight = Cardinality(W) /\ post \in [Call -> Post]
    BY <2>2, <2>3 DEF Waiting, BooksOf, Inv, TypeOK, Post
  <2> HIDE DEF r, W
  <2>10. /\ session' \in [Session -> SessionRecord] /\ post' \in [Call -> Post]
         /\ \A q \in Session \ {s} : session'[q] = session[q]
         /\ session'[s].state = r.state /\ session'[s].transport = r.transport
         /\ session'[s].idle \in {0, r.idle}
         /\ Waiting(s)' = {w \in W : IdOf[w] # IdOf[c]}
         /\ IsFiniteSet(Waiting(s)')
         /\ session'[s].inFlight = Cardinality(Waiting(s)')
         /\ \A w \in Call : IF w \in W /\ IdOf[w] = IdOf[c]
                            THEN post'[w].stage = "answered" /\ post'[w].got = c
                            ELSE post'[w] = post[w]
    BY <1>1, <2>1, <2>3, <2>9, SentEffect DEF Inv
  <2>11. Open(s)' = Open(s) \ {c} /\ running' \subseteq Call
    BY <1>1 DEF Open, Inv, TypeOK
  <2>12. BooksOf(s)'
    <3>1. /\ session'[s].transport.inFlight = Open(s) \ {c}
          /\ session'[s].transport.active = Cardinality(Open(s) \ {c})
      BY <2>4, <2>6, <2>7, <2>8, <2>10
    <3>2. \A d, e \in Open(s) \ {c} : IdOf[d] = IdOf[e] => d = e
      BY <2>4
    <3> QED BY <2>8, <2>10, <2>11, <3>1, <3>2 DEF BooksOf
  <2>13. \A w \in Call : SessionOf[w] # s => post'[w] = post[w]
    BY <2>9, <2>10
  <2>14. /\ \A q \in Session \ {s} : session'[q].state = "live" => BooksOf(q)'
         /\ \A w \in Call : SessionOf[w] # s /\ post'[w].stage = "waiting" => WaiterOf(w)'
         /\ \A w \in running' : SessionOf[w] # s =>
              session'[SessionOf[w]].state \in {"live", "gone"}
    BY <1>1, <2>10, <2>11, <2>13, OthersKept
  <2>15. ASSUME NEW w \in Call, SessionOf[w] = s, post'[w].stage = "waiting"
         PROVE  WaiterOf(w)'
    <3>1. w \in W /\ IdOf[w] # IdOf[c] /\ post'[w] = post[w]
      BY <2>9, <2>10, <2>15
    <3>2. w \in running' /\ session[s].idle <= post[w].waited
      BY <1>1, <2>9, <2>15, <3>1 DEF Inv, Waiters, WaiterOf
    <3>3. post'[w].waited \in Nat
      BY <2>10, HttpAssumption DEF Post
    <3> QED BY <2>3, <2>10, <2>15, <3>1, <3>2, <3>3 DEF WaiterOf
  <2>16. Waiters' /\ Started' /\ Books'
    BY <2>3, <2>10, <2>11, <2>12, <2>14, <2>15 DEF Waiters, Started, Books
  <2> QED BY <2>10, <2>11, <2>16 DEF Core
<1> QED BY <1>2, <1>3

\* The wait of a post is over, and its call goes on.
LEMMA WaitEndsCore ==
  ASSUME Inv, NEW c \in Call, WaitEnds(c) PROVE Core'
<1> DEFINE s == SessionOf[c]
           n == session[s].inFlight - 1
           o == [session[s] EXCEPT !.inFlight = n]
<1>1. /\ c \in Waiting(s) /\ s \in Session /\ session[s].state = "live" /\ BooksOf(s)
      /\ session[s] \in SessionRecord
  BY HttpAssumption, Record DEF WaitEnds, Waiting, Inv, Waiters, WaiterOf, Books
<1>2. /\ session' = [session EXCEPT ![s] = o] /\ running' = running
      /\ post' = [post EXCEPT ![c] = [post[c] EXCEPT !.stage = "failed", !.waited = 0]]
  BY DEF WaitEnds
<1>3. /\ IsFiniteSet(Waiting(s) \ {c})
      /\ Cardinality(Waiting(s) \ {c}) = n /\ n \in Nat
  <2>1. IsFiniteSet(Waiting(s)) /\ session[s].inFlight = Cardinality(Waiting(s))
    BY <1>1 DEF BooksOf
  <2>2. /\ IsFiniteSet(Waiting(s) \ {c})
        /\ Cardinality(Waiting(s) \ {c}) = Cardinality(Waiting(s)) - 1
    BY <1>1, <2>1, FS_RemoveElement
  <2> QED BY <2>1, <2>2, FS_CardinalityType
<1> HIDE DEF n
<1>4. /\ o \in SessionRecord /\ o.state = "live" /\ o.inFlight = n
      /\ o.idle = session[s].idle /\ o.transport = session[s].transport
  BY <1>1, <1>3 DEF SessionRecord
<1> HIDE DEF o
<1>5. /\ session' \in [Session -> SessionRecord] /\ session'[s] = o
      /\ \A q \in Session \ {s} : session'[q] = session[q]
  BY <1>1, <1>2, <1>4, Changed DEF Inv
<1>6. /\ post' \in [Call -> Post] /\ post'[c].stage = "failed"
      /\ \A w \in Call \ {c} : post'[w] = post[w]
  <2>1. post \in [Call -> Post] /\ 0 \in 0..MaxWait
    BY HttpAssumption DEF Inv, TypeOK, Post
  <2>2. LET q == [post[c] EXCEPT !.stage = "failed", !.waited = 0] IN
        q \in Post /\ q.stage = "failed"
    BY <2>1 DEF Post
  <2> QED BY <1>2, <2>1, <2>2
<1>7. Waiting(s)' = Waiting(s) \ {c} /\ Open(s)' = Open(s) /\ running' \subseteq Call
  BY <1>2, <1>6 DEF Waiting, Open, Inv, TypeOK
<1>8. BooksOf(s)'
  BY <1>1, <1>3, <1>4, <1>5, <1>7 DEF BooksOf
<1>9. /\ \A q \in Session \ {s} : session'[q].state = "live" => BooksOf(q)'
      /\ \A w \in Call : SessionOf[w] # s /\ post'[w].stage = "waiting" => WaiterOf(w)'
      /\ \A w \in running' : SessionOf[w] # s =>
           session'[SessionOf[w]].state \in {"live", "gone"}
  BY <1>2, <1>5, <1>6, <1>7, OthersKept
<1>10. ASSUME NEW w \in Call, SessionOf[w] = s, post'[w].stage = "waiting" PROVE WaiterOf(w)'
  BY <1>2, <1>4, <1>5, <1>6, <1>10 DEF Inv, Waiters, WaiterOf
<1>11. Waiters' /\ Started' /\ Books'
  BY <1>4, <1>5, <1>7, <1>8, <1>9, <1>10 DEF Waiters, Started, Books
<1> QED BY <1>5, <1>6, <1>7, <1>11 DEF Core

\* The pool grows where there is room, or by one in the place of the one that is evicted.
LEMMA PoolPreserved ==
  ASSUME Inv, [Next]_vars PROVE Pool'
<1>1. Pool /\ IsFiniteSet(InPool) /\ Cardinality(InPool) \in Nat
  BY FS_CardinalityType DEF Inv, Pool
<1>2. ASSUME \A s \in Session : session'[s].state \in {"live", "creating"} =>
               session[s].state \in {"live", "creating"}
      PROVE  Pool'
  <2> PICK P : P = InPool'
    OBVIOUS
  <2>1. P \subseteq InPool
    BY <1>2 DEF InPool, In
  <2>2. IsFiniteSet(P) /\ Cardinality(P) <= Cardinality(InPool) /\ Cardinality(P) \in Nat
    BY <1>1, <2>1, FS_Subset, FS_CardinalityType
  <2> QED BY <1>1, <2>2, HttpAssumption DEF Pool
<1>3. ASSUME NEW gone, Removes(gone, {}) PROVE Pool'
  BY <1>2, <1>3 DEF Removes
<1>4. CASE Quiet
  BY <1>2, <1>4 DEF Quiet
<1>5. ASSUME NEW s \in Session, InitializeBegin(s) PROVE Pool'
  <2>1. Removes({}, {s}) /\ session'[s].state = "creating" /\ s \notin InPool
    BY <1>5, PoolSteps DEF InitializeBegin, In, InPool, Inv, TypeOK, SessionRecord
  <2>2. InPool' = InPool \cup {s}
    BY <2>1 DEF Removes, InPool, In
  <2>3. Cardinality(InPool) < MaxHttpSessions
    BY <1>5 DEF InitializeBegin, HasRoom, InPool
  <2>4. IsFiniteSet(InPool \cup {s}) /\ Cardinality(InPool \cup {s}) = Cardinality(InPool) + 1
    BY <1>1, <2>1, FS_AddElement
  <2> QED BY <1>1, <2>2, <2>3, <2>4, HttpAssumption DEF Pool
<1>6. ASSUME NEW s \in Session, NEW old \in Session, InitializeEvicting(s, old) PROVE Pool'
  <2>1. Removes({old}, {s}) /\ s \notin InPool /\ old \in InPool
    BY <1>6, PoolSteps DEF InitializeEvicting, Evictable, In, InPool, Inv
  <2>2. session'[s].state = "creating"
    <3>1. Destroyed({old}) \in [Session -> SessionRecord]
      BY <1>6, DestroyedEffect DEF InitializeEvicting, Evictable, Inv
    <3>2. session' = [Destroyed({old}) EXCEPT
                        ![s] = [Destroyed({old})[s] EXCEPT !.state = "creating"]]
      BY <1>6 DEF InitializeEvicting
    <3> PICK D \in [Session -> SessionRecord] : D = Destroyed({old})
      BY <3>1
    <3>3. [D[s] EXCEPT !.state = "creating"].state = "creating"
      BY DEF SessionRecord
    <3> QED BY <3>2, <3>3
  <2>3. InPool' = (InPool \ {old}) \cup {s}
    BY <2>1, <2>2 DEF Removes, InPool, In
  <2>4. IsFiniteSet(InPool \ {old}) /\ Cardinality(InPool \ {old}) = Cardinality(InPool) - 1
    BY <1>1, <2>1, FS_RemoveElement
  <2>5. s \notin InPool \ {old}
    BY <2>1
  <2>6. /\ IsFiniteSet((InPool \ {old}) \cup {s})
        /\ Cardinality((InPool \ {old}) \cup {s}) = Cardinality(InPool \ {old}) + 1
    BY <2>4, <2>5, FS_AddElement
  <2> QED BY <1>1, <2>3, <2>4, <2>6, HttpAssumption DEF Pool
<1>7. ASSUME NEW s \in Session, InitializeFails(s) PROVE Pool'
  <2>1. Removes({}, {s}) /\ session[s].state = "creating"
    BY <1>7, PoolSteps DEF InitializeFails, In, Inv
  <2> QED BY <1>2, <2>1 DEF Removes
<1>8. ASSUME NEW s \in Session, InitializeEnd(s) PROVE Pool'
  <2>1. session[s].state = "creating" /\ \A q \in Session \ {s} : session'[q] = session[q]
    BY <1>8 DEF InitializeEnd, In, Inv, TypeOK
  <2> QED BY <1>2, <2>1
<1>9. ASSUME NEW c \in Call, PostTaken(c) \/ PostRefused(c) \/ Settle(c) \/ WaitEnds(c)
      PROVE  Pool'
  <2>1. \A q \in Session \ {SessionOf[c]} : session'[q] = session[q]
    BY <1>9 DEF PostTaken, PostRefused, Settle, WaitEnds, Sent, Inv, TypeOK
  <2>2. session[SessionOf[c]].state = "live" \/ session' = session
    BY <1>9 DEF PostTaken, PostRefused, Arrives, In, Settle, WaitEnds, Inv, Waiters, WaiterOf
  <2> QED BY <1>2, <2>1, <2>2
<1> QED BY <1>3, <1>4, <1>5, <1>6, <1>7, <1>8, <1>9, PoolSteps, QuietSteps DEF Next, Inv

(***************************************************************************)
(* The invariant and what follows from it.                                 *)
(***************************************************************************)

\* Every step keeps the invariant.
LEMMA InvPreserved == ASSUME Inv, [Next]_vars PROVE Inv'
<1>1. closed' \in BOOLEAN
  BY DEF Inv, TypeOK, Next, vars, InitializeBegin, InitializeEnd, InitializeFails,
         InitializeEvicting, Delete, Initialized, Get, StreamCloses, PostTaken, PostRefused,
         Settle, Progress, WaitEnds, PruneIdle, Close, BroadcastListChanged, Tick
<1>2. Core'
  BY QuietSteps, PoolSteps, QuietCore, RemovesCore, InitializeEndCore, PostTakenCore,
     PostRefusedCore, SettleCore, WaitEndsCore DEF Next, Inv
<1> QED BY <1>1, <1>2, PoolPreserved DEF Inv, Core, TypeOK, Post

\* The pool, the counters and the calls agree in every reachable state.
THEOREM HttpSessionInvariant == Spec => []Inv
<1>1. Init => Inv
  <2> SUFFICES ASSUME Init PROVE Inv
    OBVIOUS
  <2>1. TypeOK
    <3>1. session \in [Session -> SessionRecord]
      BY Record DEF Init
    <3>2. 0 \in 0..MaxWait
      BY HttpAssumption
    <3> QED BY <3>1, <3>2 DEF Init, TypeOK
  <2>2. \A s \in Session : session[s].state = "unused"
    BY DEF Init, NewSession
  <2>3. InPool = {}
    BY <2>2 DEF InPool, In
  <2>4. Pool
    BY <2>3, FS_EmptySet, HttpAssumption DEF Pool
  <2>5. Waiters /\ Started /\ Books
    BY <2>2 DEF Init, Waiters, Started, Books
  <2> QED BY <2>1, <2>4, <2>5 DEF Inv
<1> QED BY <1>1, InvPreserved, PTL DEF Spec

\* Every variable keeps its type.
THEOREM HttpSessionTyped == Spec => []TypeOK
<1>1. Inv => TypeOK
  BY DEF Inv
<1> QED BY <1>1, HttpSessionInvariant, PTL

\* Overlapping initializes do not overfill the pool, and a live session counts exactly the
\* posts that wait and the calls that run, whichever way each of them ends.
THEOREM AccountsBalance == Spec => []Accounts
<1>1. Inv => Accounts
  <2> SUFFICES ASSUME Inv PROVE Accounts
    OBVIOUS
  <2>1. Cardinality(In("live") \cup In("creating")) <= MaxHttpSessions
    BY DEF Inv, Pool, InPool
  <2>2. ASSUME NEW s \in In("live") PROVE BooksOf(s)
    BY DEF In, Inv, Books
  <2> QED BY <2>1, <2>2 DEF Accounts, BooksOf, Open
<1> QED BY <1>1, HttpSessionInvariant, PTL

\* A client that never reuses an id it waits for gets its own answers: an id that comes
\* back while the call it stood for still runs is answered for the call that is posted.
THEOREM AnswersAreOwn == ASSUME Conforming PROVE Spec => []AnswerIsOwn
<1>1. Init => AnswerIsOwn
  BY DEF Init, AnswerIsOwn
<1>2. ASSUME Inv, AnswerIsOwn, [Next]_vars PROVE AnswerIsOwn'
  <2>1. CASE Quiet
    BY <1>2, <2>1 DEF Quiet, AnswerIsOwn
  <2>2. ASSUME NEW gone, NEW odd, Removes(gone, odd) PROVE AnswerIsOwn'
    BY <1>2, <2>2 DEF Removes, AnswerIsOwn
  <2>3. ASSUME NEW s \in Session, InitializeEnd(s) PROVE AnswerIsOwn'
    BY <1>2, <2>3 DEF InitializeEnd, AnswerIsOwn
  <2>4. ASSUME NEW c \in Call, PostTaken(c) PROVE AnswerIsOwn'
    <3>1. post' = Posts(c) /\ Arrives(c)
      BY <2>4 DEF PostTaken
    <3> QED BY <1>2, <3>1 DEF Posts, AnswerIsOwn, Inv, TypeOK
  <2>5. ASSUME NEW c \in Call, PostRefused(c) PROVE AnswerIsOwn'
    <3> DEFINE s == SessionOf[c]
               p == Posts(c)
               r == Counted(c)
    <3>1. /\ Arrives(c) /\ Sent(s, c, p, r) /\ \A w \in Call \ {c} : p[w] = post[w]
          /\ p[c].stage # "answered"
      BY <1>2, <2>5 DEF PostRefused, Posts, Inv, TypeOK
    <3>2. ASSUME NEW w \in Call, p[w].stage = "waiting", SessionOf[w] = s,
                 IdOf[w] = IdOf[c]
          PROVE  w = c
      BY <3>1, <3>2 DEF Arrives, Waiter, Waiting
    <3> HIDE DEF p, r
    <3>3. \A w \in Call : \/ post'[w] = p[w]
                          \/ w = c /\ post'[w].got = c
      BY <3>1, <3>2 DEF Sent
    <3> QED BY <1>2, <3>1, <3>3 DEF AnswerIsOwn
  <2>6. ASSUME NEW c \in Call, Settle(c) PROVE AnswerIsOwn'
    <3> DEFINE s == SessionOf[c]
    <3>1. CASE session[s].state # "live"
      BY <1>2, <2>6, <3>1 DEF Settle, AnswerIsOwn
    <3>2. CASE session[s].state = "live"
      <4>1. c \in Open(s) /\ s \in Session
        BY <2>6, HttpAssumption DEF Settle, Open
      <4>2. \A w \in Waiting(s) : IdOf[w] = IdOf[c] => w = c
        BY <1>2, <3>2, <4>1, WaitersApart
      <4>3. \A w \in Call : \/ post'[w] = post[w]
                            \/ w \in Waiting(s) /\ IdOf[w] = IdOf[c] /\ post'[w].got = c
        BY <2>6, <3>2 DEF Settle, Sent, Waiting
      <4> QED BY <1>2, <4>2, <4>3 DEF AnswerIsOwn
    <3> QED BY <3>1, <3>2
  <2>7. ASSUME NEW c \in Call, WaitEnds(c) PROVE AnswerIsOwn'
    <3>1. \A w \in Call \ {c} : post'[w] = post[w]
      BY <1>2, <2>7 DEF WaitEnds, Inv, TypeOK
    <3>2. post'[c].stage = "failed"
      BY <1>2, <2>7 DEF WaitEnds, Inv, TypeOK
    <3> QED BY <1>2, <3>1, <3>2 DEF AnswerIsOwn
  <2> QED BY <1>2, <2>1, <2>2, <2>3, <2>4, <2>5, <2>6, <2>7, PoolSteps, QuietSteps
         DEF Next, Inv
<1> QED BY <1>1, <1>2, HttpSessionInvariant, PTL DEF Spec

\* An answer moves no session to another state.
LEMMA SentState ==
  ASSUME TypeOK, NEW s \in Session, NEW c, NEW p, NEW r \in SessionRecord, Sent(s, c, p, r)
  PROVE  session'[s].state = r.state
<1> DEFINE to == {w \in Call : p[w].stage = "waiting" /\ SessionOf[w] = s /\ IdOf[w] = IdOf[c]}
           n == r.inFlight - Cardinality(to)
           i == IF to = {} /\ r.sse THEN 0 ELSE r.idle
           o == [r EXCEPT !.inFlight = n, !.idle = i]
<1>1. session' = [session EXCEPT ![s] = o]
  BY DEF Sent
<1> HIDE DEF n, i
<1>2. o.state = r.state
  BY DEF SessionRecord
<1> HIDE DEF o
<1> QED BY <1>1, <1>2 DEF TypeOK

\* A session with a post that waits is not idle, to the eviction, the DELETE and the
\* prune timer alike.
LEMMA BusyKept ==
  ASSUME Inv, [Next]_vars, NEW s \in Session,
         session[s].state = "live", Waiting(s) # {}, ~closed'
  PROVE  session'[s].state = "live"
<1>1. session[s].inFlight # 0
  BY FS_EmptySet DEF Inv, Books, BooksOf
<1>2. session[s].idle <= SessionTtl
  <2> PICK c \in Call : post[c].stage = "waiting" /\ SessionOf[c] = s
    BY DEF Waiting
  <2>1. session[s].idle <= post[c].waited
    BY DEF Inv, Waiters, WaiterOf
  <2>2. post[c].waited \in 0..MaxWait /\ session[s].idle \in Nat
    BY Record, ZeroAge DEF Inv, Post
  <2> QED BY <2>1, <2>2, HttpAssumption
<1>3. s \notin Expired
  <2>1. session[s].idle \in Nat
    BY Record, ZeroAge DEF Inv
  <2> QED BY <1>2, <2>1, HttpAssumption DEF Expired
<1>4. ASSUME NEW gone, NEW odd, Removes(gone, odd), s \notin gone
      PROVE  session'[s].state = "live"
  BY <1>4 DEF Removes
<1>5. \A q, old \in Session : InitializeEvicting(q, old) => old # s
  BY <1>1 DEF InitializeEvicting, Evictable
<1>6. \A q \in Session : Delete(q) => q # s
  BY <1>1 DEF Delete
<1>7. ~Close
  BY DEF Close
<1>8. CASE Quiet
  BY <1>8 DEF Quiet
<1>9. ASSUME NEW q \in Session, InitializeEnd(q) PROVE session'[s].state = "live"
  BY <1>9 DEF InitializeEnd, In, Inv, TypeOK
<1>10. ASSUME NEW c \in Call, PostTaken(c) \/ PostRefused(c) \/ Settle(c) \/ WaitEnds(c)
       PROVE  session'[s].state = "live"
  <2>1. s # SessionOf[c] => session'[s] = session[s]
    BY <1>10 DEF PostTaken, PostRefused, Settle, WaitEnds, Sent, Inv, TypeOK
  <2>2. ASSUME NEW r \in SessionRecord, NEW o, r.state = "live",
               \E t : o = [r EXCEPT !.transport = t]
        PROVE  o.state = "live"
    BY <2>2 DEF SessionRecord
  <2>3. session[s] \in SessionRecord /\ session \in [Session -> SessionRecord]
    BY Record DEF Inv, TypeOK
  <2>4. ASSUME s = SessionOf[c] PROVE session'[s].state = "live"
    <3>1. CASE PostTaken(c)
      <4>1. Counted(c) \in SessionRecord /\ Counted(c).state = "live"
        BY <3>1, ArrivesEffect DEF PostTaken
      <4> HIDE DEF Counted
      <4> QED BY <2>2, <2>3, <2>4, <3>1, <4>1 DEF PostTaken
    <3>2. CASE PostRefused(c)
      <4>1. Counted(c) \in SessionRecord /\ Counted(c).state = "live"
        BY <3>2, ArrivesEffect DEF PostRefused
      <4> QED BY <2>4, <3>2, <4>1, SentState DEF PostRefused, Inv
    <3>3. CASE Settle(c)
      <4> DEFINE r == [session[s] EXCEPT !.transport = Release(session[s].transport, c,
                                                               session[s].transport.gen)]
      <4>1. session[s].transport \in Transport
        BY Record DEF Inv
      <4>2. r \in SessionRecord /\ r.state = "live"
        <5> PICK t \in Transport :
                   t = Release(session[s].transport, c, session[s].transport.gen)
          BY <4>1, Released
        <5> QED BY <2>3 DEF SessionRecord, Transport
      <4>3. Sent(s, c, post, r)
        BY <2>4, <3>3 DEF Settle
      <4> HIDE DEF r
      <4> QED BY <4>2, <4>3, SentState DEF Inv
    <3>4. CASE WaitEnds(c)
      BY <2>3, <2>4, <3>4 DEF WaitEnds, SessionRecord
    <3> QED BY <1>10, <3>1, <3>2, <3>3, <3>4
  <2> QED BY <2>1, <2>4
<1> QED BY <1>3, <1>4, <1>5, <1>6, <1>7, <1>8, <1>9, <1>10, PoolSteps, QuietSteps
       DEF Next, Inv

\* Nothing but the shutdown takes a session from a post that waits.
THEOREM BusySessionsStay == Spec => BusySessionKept
<1>1. Inv /\ [Next]_vars =>
        [\A s \in Session :
           session[s].state = "live" /\ Waiting(s) # {} /\ ~closed' =>
             session'[s].state = "live"]_vars
  BY BusyKept
<1> QED BY <1>1, HttpSessionInvariant, PTL DEF Spec, BusySessionKept
=============================================================================
