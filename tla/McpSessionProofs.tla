-------------------------- MODULE McpSessionProofs --------------------------
(***************************************************************************)
(* What McpSession promises for any number of clients, connections and     *)
(* calls.                                                                  *)
(*                                                                         *)
(* SlotsExact is nearly inductive.  A call settles on the session object   *)
(* it was taken by, perhaps after its connection and its client's session  *)
(* are gone: OpenCalls says what such a call still knows of its session,   *)
(* and Objects whose the objects and their sockets are.                    *)
(***************************************************************************)
EXTENDS McpSession, FiniteSetTheorems, TLAPS

\* A connection has a client from the moment it is made.
Connections == \A c \in Conn : link[c] # "new" => owner[c] \in Client

Exists(s) == obj[s] # NoSession

\* The socket of a session, and of its transport until that is detached, is of the client
\* the session was made for; in its grace period that socket is closed.
ObjectOf(s) ==
    /\ link[s] # "new" /\ link[obj[s].ws] # "new"
    /\ owner[obj[s].ws] = owner[s]
    /\ obj[s].transport.ws \in {NoWs, obj[s].ws}
    /\ obj[s].grace => link[obj[s].ws] = "closed"

Objects == \A s \in Conn : Exists(s) => ObjectOf(s)

\* The sessions map has the session of its client, and its transport is attached.
EntryOf(k) ==
    LET s == sessions[k] IN
    Exists(s) /\ owner[s] = k /\ obj[s].transport.ws = obj[s].ws

Registered == \A k \in Client : sessions[k] # NoSession => EntryOf(k)

\* An open call came in on a socket of its client, by a session of its client; unless that
\* has been resumed since, by the socket the session has.
OpenCall(c) ==
    LET s == call[c].obj IN
    /\ s \in Conn /\ Exists(s) /\ owner[s] = ClientOf[c]
    /\ call[c].ws \in Conn /\ link[call[c].ws] # "new" /\ owner[call[c].ws] = ClientOf[c]
    /\ call[c].gen <= obj[s].transport.gen
    /\ call[c].gen = obj[s].transport.gen /\ obj[s].transport.ws # NoWs =>
         call[c].ws = obj[s].transport.ws

OpenCalls == \A c \in Call : call[c].stage = "open" => OpenCall(c)

\* The slots of one session, and that they are finitely many.
SlotsOf(s) ==
    LET t == obj[s].transport IN
    /\ IsFiniteSet(Unsettled(s))
    /\ t.inFlight = Unsettled(s)
    /\ t.active = Cardinality(Unsettled(s))
    /\ \A c, d \in Unsettled(s) : IdOf[c] = IdOf[d] => c = d
    /\ t.soft = {IdOf[c] : c \in {d \in Unsettled(s) : call[d].gen # t.gen}}
    /\ t.elicits \subseteq {t.ws}

Slots == \A s \in Conn : Exists(s) /\ obj[s].transport.ws # NoWs => SlotsOf(s)

Inv == TypeOK /\ Connections /\ Objects /\ Registered /\ OpenCalls /\ Slots

(***************************************************************************)
(* The operators of McpTransport, field by field.                          *)
(***************************************************************************)
Transport == TransportRecord(Conn)

\* An id is the id of a call.
LEMMA IdsTyped == ASSUME NEW t \in Transport PROVE Ids(t) \subseteq {IdOf[c] : c \in Call}
BY DEF Transport, TransportRecord, Ids

\* attach.
LEMMA Attached ==
  ASSUME NEW t \in Transport, NEW w \in Conn, NEW keep \in BOOLEAN
  PROVE  LET r == Attach(t, w, keep) IN
         /\ r \in Transport
         /\ r.ws = w /\ r.gen = t.gen + 1
         /\ r.inFlight = t.inFlight /\ r.active = t.active
         /\ r.soft = t.soft /\ r.elicits = t.elicits
<1> DEFINE g == t.gen + 1
           i == t.initialized /\ keep
<1>1. g \in Nat /\ i \in BOOLEAN
  BY DEF Transport, TransportRecord
<1>2. Attach(t, w, keep) = [t EXCEPT !.ws = w, !.gen = g, !.initialized = i]
  BY DEF Attach
<1> HIDE DEF g, i
<1>3. LET r == Attach(t, w, keep) IN
         /\ r \in Transport
         /\ r.ws = w /\ r.gen = g
         /\ r.inFlight = t.inFlight /\ r.active = t.active
         /\ r.soft = t.soft /\ r.elicits = t.elicits
  BY <1>1, <1>2 DEF Transport, TransportRecord
<1> QED BY <1>3 DEF g

\* The transport of a new session.
LEMMA AttachNew ==
  ASSUME NEW w \in Conn
  PROVE  LET t == Attach(Constructed, w, FALSE) IN
         /\ t \in Transport
         /\ t.ws = w /\ t.inFlight = {} /\ t.active = 0 /\ t.soft = {} /\ t.elicits = {}
<1>1. /\ Constructed \in Transport /\ Constructed.inFlight = {} /\ Constructed.active = 0
      /\ Constructed.soft = {} /\ Constructed.elicits = {}
  BY DEF Constructed, Transport, TransportRecord
<1> DEFINE new == Constructed
<1> HIDE DEF new
<1>2. LET t == Attach(new, w, FALSE) IN
      /\ t \in Transport
      /\ t.ws = w /\ t.inFlight = new.inFlight /\ t.active = new.active
      /\ t.soft = new.soft /\ t.elicits = new.elicits
  <2>1. new \in Transport /\ FALSE \in BOOLEAN
    BY <1>1 DEF new
  <2> QED BY <2>1, Attached
<1> QED BY <1>1, <1>2 DEF new

\* The transport of a session that is resumed: calls in flight go on as soft-preserved.
LEMMA Resumed ==
  ASSUME NEW t \in Transport, NEW w \in Conn
  PROVE  LET r == Attach(DetachSoft(t), w, TRUE) IN
         /\ r \in Transport
         /\ r.ws = w /\ r.gen = t.gen + 1
         /\ r.inFlight = t.inFlight /\ r.active = t.active
         /\ r.soft = t.soft \cup Ids(t) /\ r.elicits = {}
<1> DEFINE d == DetachSoft(t)
<1>1. t.soft \cup Ids(t) \in SUBSET {IdOf[c] : c \in Call}
  BY IdsTyped DEF Transport, TransportRecord
<1>2. /\ d \in Transport /\ d.gen = t.gen /\ d.inFlight = t.inFlight /\ d.active = t.active
      /\ d.soft = t.soft \cup Ids(t) /\ d.elicits = {}
  BY <1>1 DEF DetachSoft, Transport, TransportRecord
<1> HIDE DEF d
<1>3. LET r == Attach(d, w, TRUE) IN
         /\ r \in Transport /\ r.ws = w /\ r.gen = d.gen + 1 /\ r.inFlight = d.inFlight
         /\ r.active = d.active /\ r.soft = d.soft /\ r.elicits = d.elicits
  BY <1>2, Attached
<1> QED BY <1>2, <1>3 DEF d

\* detach.
LEMMA Detached ==
  ASSUME NEW t \in Transport
  PROVE  Detach(t) \in Transport /\ Detach(t).ws = NoWs /\ Detach(t).gen = t.gen
BY DEF Detach, Transport, TransportRecord

\* A call takes its slots.
LEMMA Taken ==
  ASSUME NEW t \in Transport, NEW c \in Call
  PROVE  LET r == Take(t, c) IN
         /\ r \in Transport
         /\ r.ws = t.ws /\ r.gen = t.gen /\ r.soft = t.soft /\ r.elicits = t.elicits
         /\ r.inFlight = t.inFlight \cup {c} /\ r.active = t.active + 1
<1> DEFINE fl == t.inFlight \cup {c}
           n == t.active + 1
<1>1. fl \in SUBSET Call /\ n \in Nat
  BY DEF Transport, TransportRecord
<1>2. Take(t, c) = [t EXCEPT !.inFlight = fl, !.active = n]
  BY DEF Take
<1> HIDE DEF fl, n
<1>3. LET r == Take(t, c) IN
         /\ r \in Transport
         /\ r.ws = t.ws /\ r.gen = t.gen /\ r.soft = t.soft /\ r.elicits = t.elicits
         /\ r.inFlight = fl /\ r.active = n
  BY <1>1, <1>2 DEF Transport, TransportRecord
<1> QED BY <1>3 DEF fl, n

\* A call releases its slots, or what it still has of them.
LEMMA Released ==
  ASSUME NEW t \in Transport, NEW c \in Call, NEW gen
  PROVE  LET r == Release(t, c, gen) IN
         /\ r \in Transport
         /\ r.ws = t.ws /\ r.gen = t.gen /\ r.elicits = t.elicits
         /\ r.soft = t.soft \ {IdOf[c]}
         /\ gen = t.gen \/ Preserved(t, c) =>
              /\ r.inFlight = {d \in t.inFlight : IdOf[d] # IdOf[c]}
              /\ t.active > 0 => r.active = t.active - 1
<1> DEFINE rest == [t EXCEPT !.soft = @ \ {IdOf[c]}]
<1>1. /\ rest \in Transport /\ rest.ws = t.ws /\ rest.gen = t.gen /\ rest.elicits = t.elicits
      /\ rest.soft = t.soft \ {IdOf[c]} /\ rest.inFlight = t.inFlight
      /\ rest.active = t.active
  BY DEF Transport, TransportRecord
<1>2. CASE gen = t.gen \/ Preserved(t, c)
  <2> DEFINE fl == {d \in rest.inFlight : IdOf[d] # IdOf[c]}
             n == IF rest.active > 0 THEN rest.active - 1 ELSE 0
  <2>1. Release(t, c, gen) = [rest EXCEPT !.inFlight = fl, !.active = n]
    BY <1>2 DEF Release
  <2>2. fl \in SUBSET Call /\ n \in Nat /\ (rest.active > 0 => n = rest.active - 1)
    BY <1>1 DEF Transport, TransportRecord
  <2>3. fl = {d \in t.inFlight : IdOf[d] # IdOf[c]}
    BY <1>1
  <2> HIDE DEF rest, fl, n
  <2>4. /\ [rest EXCEPT !.inFlight = fl, !.active = n] \in Transport
        /\ [rest EXCEPT !.inFlight = fl, !.active = n].ws = rest.ws
        /\ [rest EXCEPT !.inFlight = fl, !.active = n].gen = rest.gen
        /\ [rest EXCEPT !.inFlight = fl, !.active = n].elicits = rest.elicits
        /\ [rest EXCEPT !.inFlight = fl, !.active = n].soft = rest.soft
        /\ [rest EXCEPT !.inFlight = fl, !.active = n].inFlight = fl
        /\ [rest EXCEPT !.inFlight = fl, !.active = n].active = n
    BY <1>1, <2>2 DEF Transport, TransportRecord
  <2> QED BY <1>1, <2>1, <2>2, <2>3, <2>4
<1>3. CASE ~(gen = t.gen \/ Preserved(t, c))
  BY <1>1, <1>3 DEF Release
<1> QED BY <1>2, <1>3

(***************************************************************************)
(* Sessions.                                                               *)
(***************************************************************************)

\* A session object is a record with all its fields.
LEMMA Record ==
  ASSUME TypeOK, NEW s \in Conn, Exists(s)
  PROVE  obj[s] \in SessionRecord /\ obj[s].transport \in Transport
BY DEF TypeOK, Exists, SessionRecord, Transport

\* A step that gives session s the transport t and leaves it otherwise.
LEMMA Updated ==
  ASSUME TypeOK, NEW s \in Conn, Exists(s), NEW t \in Transport,
         obj' = [obj EXCEPT ![s].transport = t]
  PROVE  /\ obj' \in [Conn -> SessionRecord \cup {NoSession}]
         /\ \A r \in Conn : Exists(r)' <=> Exists(r)
         /\ obj'[s].transport = t
         /\ \A r \in Conn \ {s} : obj'[r] = obj[r]
         /\ \A r \in Conn : Exists(r) => /\ obj'[r].ws = obj[r].ws
                                         /\ obj'[r].grace = obj[r].grace
<1>1. obj[s] \in SessionRecord /\ obj' = [obj EXCEPT ![s] = [obj[s] EXCEPT !.transport = t]]
  BY Record
<1>2. /\ [obj[s] EXCEPT !.transport = t] \in SessionRecord
      /\ [obj[s] EXCEPT !.transport = t].transport = t
      /\ [obj[s] EXCEPT !.transport = t].ws = obj[s].ws
      /\ [obj[s] EXCEPT !.transport = t].grace = obj[s].grace
  BY <1>1 DEF SessionRecord, Transport
<1> QED BY <1>1, <1>2, SessionAssumption DEF TypeOK, Exists

(***************************************************************************)
(* What each step does to the connections and the session objects.         *)
(***************************************************************************)

\* Only sockets and the flags of sessions change: no session is made, resumed or dropped.
Quiet ==
    /\ UNCHANGED <<sessions, call>>
    /\ \A s \in Conn :
         /\ Exists(s)' <=> Exists(s)
         /\ Exists(s) => /\ obj'[s] \in SessionRecord
                         /\ obj'[s].ws = obj[s].ws /\ obj'[s].transport = obj[s].transport
                         /\ obj'[s].grace => obj[s].grace \/ link'[obj[s].ws] = "closed"

\* The close of a socket.
LEMMA CloseIsQuiet ==
  ASSUME TypeOK, Registered, Connections, NEW c \in Conn, IsOpen(c), OnClose(c),
         UNCHANGED <<sessions, call, owner>>
  PROVE  Quiet /\ obj' \in [Conn -> SessionRecord \cup {NoSession}]
<1> DEFINE s == sessions[owner[c]]
<1>1. owner[c] \in Client /\ link'[c] = "closed"
  BY DEF Connections, IsOpen, OnClose, TypeOK
<1>2. CASE s # NoSession /\ obj[s].ws = c
  <2>1. s \in Conn /\ Exists(s) /\ obj[s] \in SessionRecord
    BY <1>1, <1>2, Record DEF TypeOK, Registered, EntryOf
  <2>2. obj' = [obj EXCEPT ![s] = [obj[s] EXCEPT !.grace = TRUE]]
    BY <1>2 DEF OnClose
  <2>3. LET o == [obj[s] EXCEPT !.grace = TRUE] IN
        o \in SessionRecord /\ o.ws = obj[s].ws /\ o.transport = obj[s].transport
    BY <2>1 DEF SessionRecord
  <2> HIDE DEF s
  <2>4. /\ obj' \in [Conn -> SessionRecord \cup {NoSession}]
        /\ obj'[s] = [obj[s] EXCEPT !.grace = TRUE]
        /\ \A r \in Conn \ {s} : obj'[r] = obj[r]
    BY <2>1, <2>2, <2>3 DEF TypeOK
  <2> QED BY <1>1, <1>2, <2>1, <2>3, <2>4, Record, SessionAssumption DEF Quiet, Exists
<1>3. CASE ~(s # NoSession /\ obj[s].ws = c)
  BY <1>3, Record DEF OnClose, Quiet, Exists, TypeOK
<1> QED BY <1>2, <1>3

\* The steps that touch no session beyond its flags.
LEMMA QuietSteps ==
  ASSUME TypeOK, Registered, Connections,
         \/ UNCHANGED vars
         \/ \E k \in Client, c \in Conn : Refuse(k, c)
         \/ \E c \in Conn : Lose(c) \/ Close(c) \/ Heartbeat(c) \/ Pong(c)
  PROVE  Quiet /\ obj' \in [Conn -> SessionRecord \cup {NoSession}]
<1>1. CASE UNCHANGED <<obj, sessions, call>>
  BY <1>1, Record DEF Quiet, Exists, TypeOK
<1>2. ASSUME NEW c \in Conn, Close(c)
      PROVE  Quiet /\ obj' \in [Conn -> SessionRecord \cup {NoSession}]
  BY <1>2, CloseIsQuiet DEF Close
<1>3. ASSUME NEW s \in Conn, Heartbeat(s) \/ Pong(s)
      PROVE  Quiet /\ obj' \in [Conn -> SessionRecord \cup {NoSession}]
  <2>1. Exists(s) /\ obj[s] \in SessionRecord /\ obj[s].ws \in Conn
    BY <1>3, Record DEF Heartbeat, Pong, Live, Registered, EntryOf, SessionRecord
  <2>2. CASE OnClose(obj[s].ws) /\ IsOpen(obj[s].ws) /\ UNCHANGED <<sessions, call, owner>>
    BY <2>1, <2>2, CloseIsQuiet
  <2>3. CASE /\ \E b \in BOOLEAN : obj' = [obj EXCEPT ![s].wsAlive = b]
             /\ UNCHANGED <<sessions, call>>
    <3> PICK b \in BOOLEAN : obj' = [obj EXCEPT ![s].wsAlive = b]
      BY <2>3
    <3>1. LET o == [obj[s] EXCEPT !.wsAlive = b] IN
          /\ o \in SessionRecord /\ o.ws = obj[s].ws /\ o.transport = obj[s].transport
          /\ o.grace = obj[s].grace
      BY <2>1 DEF SessionRecord
    <3>2. /\ obj' \in [Conn -> SessionRecord \cup {NoSession}]
          /\ obj'[s] = [obj[s] EXCEPT !.wsAlive = b]
          /\ \A r \in Conn \ {s} : obj'[r] = obj[r]
      BY <2>1, <3>1 DEF TypeOK
    <3> QED BY <2>1, <2>3, <3>1, <3>2, Record, SessionAssumption DEF Quiet, Exists
  <2> QED BY <1>3, <2>2, <2>3 DEF Heartbeat, Pong
<1> QED BY <1>1, <1>2, <1>3 DEF vars, Refuse, Lose

\* A step that gives one session another transport leaves the rest.
Transports(s, t) ==
    /\ Exists(s)
    /\ t.ws = obj[s].transport.ws /\ t.gen = obj[s].transport.gen
    /\ t \in Transport
    /\ Update(s, t)
    /\ UNCHANGED <<link, owner, sessions>>

\* The slots of a call are taken or released.
LEMMA CallSteps ==
  ASSUME TypeOK, NEW s \in Conn, NEW c \in Call
  PROVE  /\ Accept(s, c) => Transports(s, Take(obj[s].transport, c))
         /\ Settle(c) /\ Exists(call[c].obj) /\ call[c].obj \in Conn =>
              Transports(call[c].obj,
                         Release(obj[call[c].obj].transport, c, call[c].gen))
<1>1. ASSUME Accept(s, c) PROVE Transports(s, Take(obj[s].transport, c))
  <2>1. Exists(s)
    BY <1>1 DEF Accept, Receives, Exists
  <2> QED BY <1>1, <2>1, Record, Taken DEF Accept, Transports
<1>2. ASSUME Settle(c), Exists(call[c].obj), call[c].obj \in Conn
      PROVE  Transports(call[c].obj,
                        Release(obj[call[c].obj].transport, c, call[c].gen))
  BY <1>2, Record, Released DEF Settle, Transports
<1> QED BY <1>1, <1>2

\* A handshake and the elicitations change no slot.
LEMMA PlainSteps ==
  ASSUME TypeOK, Registered, NEW s \in Conn,
         \/ \E k \in Client : Handshake(s, k)
         \/ Elicit(s)
         \/ \E asked \in Conn : ElicitEnds(s, asked)
  PROVE  \E t \in Transport :
           /\ Transports(s, t) /\ UNCHANGED call
           /\ t.inFlight = obj[s].transport.inFlight /\ t.active = obj[s].transport.active
           /\ t.soft = obj[s].transport.soft
           /\ t.elicits \subseteq obj[s].transport.elicits \cup
                (IF s \in Live THEN {t.ws} ELSE {})
<1>1. CASE \E k \in Client : Handshake(s, k)
  <2> DEFINE t == [obj[s].transport EXCEPT !.initialized = TRUE]
  <2>1. Exists(s) /\ Update(s, t) /\ UNCHANGED <<link, owner, sessions, call>>
    BY <1>1 DEF Handshake, Receives, Exists
  <2>2. obj[s].transport \in Transport
    BY <2>1, Record
  <2>3. /\ t \in Transport /\ t.ws = obj[s].transport.ws /\ t.gen = obj[s].transport.gen
        /\ t.inFlight = obj[s].transport.inFlight /\ t.active = obj[s].transport.active
        /\ t.soft = obj[s].transport.soft /\ t.elicits = obj[s].transport.elicits
    BY <2>2 DEF Transport, TransportRecord
  <2> QED BY <2>1, <2>3 DEF Transports
<1>2. CASE Elicit(s)
  <2> DEFINE e == obj[s].transport.elicits \cup {obj[s].transport.ws}
             t == [obj[s].transport EXCEPT !.elicits = e]
  <2>1. s \in Live /\ Update(s, t) /\ UNCHANGED <<link, owner, sessions, call>>
    BY <1>2 DEF Elicit, Newest
  <2>2. Exists(s) /\ obj[s].transport \in Transport /\ obj[s].transport.ws = obj[s].ws
        /\ obj[s].ws \in Conn
    BY <2>1, Record DEF Live, Registered, EntryOf, SessionRecord
  <2>3. e \in SUBSET Conn
    BY <2>2 DEF Transport, TransportRecord
  <2> HIDE DEF e
  <2>4. /\ t \in Transport /\ t.ws = obj[s].transport.ws /\ t.gen = obj[s].transport.gen
        /\ t.inFlight = obj[s].transport.inFlight /\ t.active = obj[s].transport.active
        /\ t.soft = obj[s].transport.soft /\ t.elicits = e
    BY <2>2, <2>3 DEF Transport, TransportRecord
  <2>5. t.elicits \subseteq obj[s].transport.elicits \cup {t.ws}
    BY <2>4 DEF e
  <2> HIDE DEF t
  <2> QED BY <2>1, <2>2, <2>4, <2>5 DEF Transports
<1>3. CASE \E asked \in Conn : ElicitEnds(s, asked)
  <2> PICK asked \in Conn : ElicitEnds(s, asked)
    BY <1>3
  <2> DEFINE e == obj[s].transport.elicits \ {asked}
             t == [obj[s].transport EXCEPT !.elicits = e]
  <2>1. Exists(s) /\ Update(s, t) /\ UNCHANGED <<link, owner, sessions, call>>
    BY DEF ElicitEnds, Exists
  <2>2. obj[s].transport \in Transport
    BY <2>1, Record
  <2>3. e \in SUBSET Conn /\ e \subseteq obj[s].transport.elicits
    BY <2>2 DEF Transport, TransportRecord
  <2> HIDE DEF e
  <2>4. /\ t \in Transport /\ t.ws = obj[s].transport.ws /\ t.gen = obj[s].transport.gen
        /\ t.inFlight = obj[s].transport.inFlight /\ t.active = obj[s].transport.active
        /\ t.soft = obj[s].transport.soft /\ t.elicits = e
    BY <2>2, <2>3 DEF Transport, TransportRecord
  <2> HIDE DEF t
  <2> QED BY <2>1, <2>3, <2>4 DEF Transports
<1> QED BY <1>1, <1>2, <1>3

\* A session is resumed on a new connection.
LEMMA ResumeEffect ==
  ASSUME TypeOK, Registered, NEW k \in Client, NEW c \in Conn, Resume(k, c)
  PROVE  LET s == sessions[k]
             t == obj[s].transport
             r == obj'[s].transport
         IN  /\ s \in Conn /\ Exists(s) /\ t \in Transport
             /\ obj' \in [Conn -> SessionRecord \cup {NoSession}]
             /\ \A q \in Conn : Exists(q)' <=> Exists(q)
             /\ \A q \in Conn \ {s} : obj'[q] = obj[q]
             /\ obj'[s].ws = c /\ ~obj'[s].grace
             /\ r.ws = c /\ r.gen = t.gen + 1
             /\ r.inFlight = t.inFlight /\ r.active = t.active
             /\ r.soft = t.soft \cup Ids(t) /\ r.elicits = {}
<1> DEFINE s == sessions[k]
           t == obj[s].transport
           r == Attach(DetachSoft(t), c, TRUE)
           o == [ws |-> c, grace |-> FALSE, wsAlive |-> TRUE, transport |-> r]
<1>1. s \in Conn /\ Exists(s)
  BY DEF Resume, Registered, EntryOf, TypeOK
<1>2. t \in Transport
  BY <1>1, Record
<1>3. obj' = [obj EXCEPT ![s] = o]
  BY DEF Resume
<1>4. /\ r \in Transport /\ r.ws = c /\ r.gen = t.gen + 1
      /\ r.inFlight = t.inFlight /\ r.active = t.active
      /\ r.soft = t.soft \cup Ids(t) /\ r.elicits = {}
  BY <1>2, Resumed
<1> HIDE DEF r, t, s
<1>5. o \in SessionRecord /\ o.ws = c /\ ~o.grace /\ o.transport = r
  BY <1>4 DEF SessionRecord, Transport
<1> HIDE DEF o
<1>6. obj'[s] = o /\ \A q \in Conn \ {s} : obj'[q] = obj[q]
  BY <1>1, <1>3 DEF TypeOK
<1>7. obj' \in [Conn -> SessionRecord \cup {NoSession}]
  BY <1>1, <1>3, <1>5 DEF TypeOK
<1>8. \A q \in Conn : Exists(q)' <=> Exists(q)
  BY <1>1, <1>5, <1>6, SessionAssumption DEF Exists
<1> QED BY <1>1, <1>2, <1>4, <1>5, <1>6, <1>7, <1>8 DEF s, t

\* A session is made for a new connection.
LEMMA CreateEffect ==
  ASSUME TypeOK, Objects, NEW k \in Client, NEW c \in Conn, Create(k, c)
  PROVE  LET t == obj'[c].transport IN
         /\ ~Exists(c) /\ Exists(c)'
         /\ obj' \in [Conn -> SessionRecord \cup {NoSession}]
         /\ \A q \in Conn \ {c} : obj'[q] = obj[q]
         /\ obj'[c].ws = c /\ ~obj'[c].grace
         /\ t.ws = c /\ t.inFlight = {} /\ t.active = 0 /\ t.soft = {} /\ t.elicits = {}
<1> DEFINE t == Attach(Constructed, c, FALSE)
           o == [ws |-> c, grace |-> FALSE, wsAlive |-> TRUE, transport |-> t]
<1>1. ~Exists(c)
  BY DEF Create, Connects, Objects, ObjectOf
<1>2. obj' = [obj EXCEPT ![c] = o]
  BY DEF Create, AgentSession
<1>3. /\ t \in Transport /\ t.ws = c /\ t.inFlight = {} /\ t.active = 0
      /\ t.soft = {} /\ t.elicits = {}
  BY AttachNew
<1> HIDE DEF t
<1>4. o \in SessionRecord /\ o.ws = c /\ ~o.grace /\ o.transport = t
  BY <1>3 DEF SessionRecord, Transport
<1> HIDE DEF o
<1>5. /\ obj' \in [Conn -> SessionRecord \cup {NoSession}] /\ obj'[c] = o
      /\ \A q \in Conn \ {c} : obj'[q] = obj[q]
  BY <1>2, <1>4 DEF TypeOK
<1>6. Exists(c)'
  BY <1>4, <1>5, SessionAssumption DEF Exists
<1> QED BY <1>1, <1>3, <1>4, <1>5, <1>6

\* The grace period of a session ends.
LEMMA ExpireEffect ==
  ASSUME TypeOK, Registered, NEW k \in Client, GraceExpires(k)
  PROVE  LET s == sessions[k] IN
         /\ s \in Conn /\ Exists(s)
         /\ obj' \in [Conn -> SessionRecord \cup {NoSession}]
         /\ \A q \in Conn : Exists(q)' <=> Exists(q)
         /\ \A q \in Conn \ {s} : obj'[q] = obj[q]
         /\ obj'[s].ws = obj[s].ws /\ ~obj'[s].grace
         /\ obj'[s].transport.ws = NoWs
         /\ obj'[s].transport.gen = obj[s].transport.gen
         /\ sessions' = [sessions EXCEPT ![k] = NoSession]
<1> DEFINE s == sessions[k]
           t == Detach(obj[s].transport)
           o == [obj[s] EXCEPT !.grace = FALSE, !.transport = t]
<1>1. s \in Conn /\ Exists(s)
  BY DEF GraceExpires, Registered, EntryOf, TypeOK
<1>2. obj[s] \in SessionRecord /\ obj[s].transport \in Transport
  BY <1>1, Record
<1>3. t \in Transport /\ t.ws = NoWs /\ t.gen = obj[s].transport.gen
  BY <1>2, Detached
<1>4. obj' = [obj EXCEPT ![s] = o] /\ sessions' = [sessions EXCEPT ![k] = NoSession]
  BY DEF GraceExpires
<1> HIDE DEF t, s
<1>5. o \in SessionRecord /\ o.ws = obj[s].ws /\ ~o.grace /\ o.transport = t
  BY <1>2, <1>3 DEF SessionRecord, Transport
<1> HIDE DEF o
<1>6. /\ obj' \in [Conn -> SessionRecord \cup {NoSession}] /\ obj'[s] = o
      /\ \A q \in Conn \ {s} : obj'[q] = obj[q]
  BY <1>1, <1>4, <1>5 DEF TypeOK
<1>7. \A q \in Conn : Exists(q)' <=> Exists(q)
  BY <1>1, <1>5, <1>6, SessionAssumption DEF Exists
<1> QED BY <1>1, <1>3, <1>4, <1>5, <1>6, <1>7 DEF s

\* Connections are made once, keep their client and stay closed.
LEMMA LinksGrow ==
  ASSUME TypeOK, Connections, [Next]_vars
  PROVE  /\ link' \in [Conn -> {"new", "open", "lost", "closed"}]
         /\ owner' \in [Conn -> Client \cup {NoSession}]
         /\ Connections'
         /\ \A d \in Conn : link[d] # "new" =>
              /\ link'[d] # "new" /\ owner'[d] = owner[d]
              /\ link[d] = "closed" => link'[d] = "closed"
<1>1. CASE UNCHANGED <<link, owner>>
  BY <1>1 DEF TypeOK, Connections
<1>2. ASSUME NEW k \in Client, NEW c \in Conn, Resume(k, c) \/ Refuse(k, c) \/ Create(k, c)
      PROVE  /\ link[c] = "new" /\ owner' = [owner EXCEPT ![c] = k]
             /\ \E l \in {"open", "closed"} : link' = [link EXCEPT ![c] = l]
  BY <1>2 DEF Resume, Refuse, Create, Connects
<1>3. CASE \E k \in Client, c \in Conn : Resume(k, c) \/ Refuse(k, c) \/ Create(k, c)
  BY <1>2, <1>3 DEF TypeOK, Connections
<1>4. CASE \E c \in Conn, l \in {"lost", "closed"} :
             /\ IsOpen(c) /\ link' = [link EXCEPT ![c] = l]
             /\ l = "lost" => link[c] = "open"
             /\ owner' = owner
  BY <1>4 DEF TypeOK, Connections, IsOpen
<1>5. ASSUME NEW c \in Conn, Lose(c) \/ Close(c)
      PROVE  \E l \in {"lost", "closed"} :
             /\ IsOpen(c) /\ link' = [link EXCEPT ![c] = l]
             /\ l = "lost" => link[c] = "open"
             /\ owner' = owner
  BY <1>5 DEF Lose, Close, IsOpen, OnClose
<1>6. ASSUME NEW s \in Conn, Heartbeat(s)
      PROVE  \/ UNCHANGED <<link, owner>>
             \/ /\ IsOpen(obj[s].ws) /\ link' = [link EXCEPT ![obj[s].ws] = "closed"]
                /\ owner' = owner
  BY <1>6 DEF Heartbeat, OnClose
<1>7. ASSUME NEW s \in Conn, Heartbeat(s),
             IsOpen(obj[s].ws), link' = [link EXCEPT ![obj[s].ws] = "closed"], owner' = owner
      PROVE  /\ link' \in [Conn -> {"new", "open", "lost", "closed"}]
             /\ \A d \in Conn : /\ link'[d] = "new" <=> link[d] = "new"
                                /\ link[d] = "closed" => link'[d] = "closed"
  BY <1>7 DEF TypeOK, IsOpen
<1>8. CASE \E s \in Conn : Heartbeat(s)
  BY <1>1, <1>6, <1>7, <1>8 DEF TypeOK, Connections
<1> QED BY <1>1, <1>3, <1>4, <1>5, <1>8 DEF Next, vars, Pong, Elicit, GraceExpires, Handshake,
           Accept, Reject, Settle, ElicitEnds

\* The steps, by what they do to the sessions.
LEMMA StepKinds ==
  ASSUME TypeOK, Connections, Registered, OpenCalls, [Next]_vars
  PROVE  \/ Quiet /\ obj' \in [Conn -> SessionRecord \cup {NoSession}]
         \/ \E k \in Client, c \in Conn : Resume(k, c) \/ Create(k, c)
         \/ \E k \in Client : GraceExpires(k)
         \/ \E s \in Conn, t \in Transport :
              /\ Transports(s, t) /\ UNCHANGED call
              /\ t.inFlight = obj[s].transport.inFlight
              /\ t.active = obj[s].transport.active
              /\ t.soft = obj[s].transport.soft
              /\ t.elicits \subseteq obj[s].transport.elicits \cup
                   (IF s \in Live THEN {t.ws} ELSE {})
         \/ \E s \in Conn, c \in Call : Reject(s, c)
         \/ \E s \in Conn, c \in Call :
              Accept(s, c) /\ Transports(s, Take(obj[s].transport, c))
         \/ \E c \in Call :
              /\ Settle(c)
              /\ Transports(call[c].obj,
                            Release(obj[call[c].obj].transport, c, call[c].gen))
<1>1. ASSUME NEW c \in Call, Settle(c)
      PROVE  Transports(call[c].obj,
                        Release(obj[call[c].obj].transport, c, call[c].gen))
  <2>1. call[c].obj \in Conn /\ Exists(call[c].obj)
    BY <1>1 DEF Settle, OpenCalls, OpenCall
  <2> QED BY <1>1, <2>1, CallSteps
<1>2. ASSUME NEW s \in Conn, NEW c \in Call, Accept(s, c)
      PROVE  Transports(s, Take(obj[s].transport, c))
  BY <1>2, CallSteps
<1> QED BY <1>1, <1>2, QuietSteps, PlainSteps DEF Next

\* The types of all variables.
LEMMA TypePreserved ==
  ASSUME TypeOK, Connections, Objects, Registered, OpenCalls, [Next]_vars PROVE TypeOK'
<1>1. obj' \in [Conn -> SessionRecord \cup {NoSession}]
  <2>1. ASSUME NEW s \in Conn, NEW t, Transports(s, t)
        PROVE  obj' \in [Conn -> SessionRecord \cup {NoSession}]
    BY <2>1, Updated DEF Transports, Update
  <2>2. \A s \in Conn, c \in Call : Reject(s, c) => obj' = obj
    BY DEF Reject
  <2>3. \A c \in Call : Settle(c) => call[c].obj \in Conn
    BY DEF Settle, OpenCalls, OpenCall
  <2> QED BY <2>1, <2>2, <2>3, StepKinds, ResumeEffect, CreateEffect, ExpireEffect DEF TypeOK
<1>2. sessions' \in [Client -> Conn \cup {NoSession}] /\ greeted' \subseteq Client
  <2>1. CASE UNCHANGED <<sessions, greeted>>
    BY <2>1 DEF TypeOK
  <2>2. CASE \E k \in Client, s \in Conn : Handshake(s, k)
    BY <2>2 DEF Handshake, TypeOK
  <2>3. CASE \E k \in Client, c \in Conn : Create(k, c)
    BY <2>3 DEF Create, TypeOK
  <2>4. CASE \E k \in Client : GraceExpires(k)
    BY <2>4 DEF GraceExpires, TypeOK
  <2> QED BY <2>1, <2>2, <2>3, <2>4 DEF Next, vars, Resume, Refuse, Lose, Close, Heartbeat,
             Pong, Elicit, Accept, Reject, Settle, ElicitEnds
<1>3. call' \in [Call -> [stage : {"fresh", "open", "settled"},
                          obj : Conn \cup {NoSession}, gen : Nat,
                          ws : Conn \cup {NoWs}]]
  <2>1. CASE call' = call
    BY <2>1 DEF TypeOK
  <2>2. ASSUME NEW c \in Call, call' = [call EXCEPT ![c] = Settled]
        PROVE  call' \in [Call -> [stage : {"fresh", "open", "settled"},
                                   obj : Conn \cup {NoSession}, gen : Nat,
                                   ws : Conn \cup {NoWs}]]
    BY <2>2 DEF TypeOK, Settled, NotReceived
  <2>3. ASSUME NEW s \in Conn, NEW c \in Call, Accept(s, c)
        PROVE  call' \in [Call -> [stage : {"fresh", "open", "settled"},
                                   obj : Conn \cup {NoSession}, gen : Nat,
                                   ws : Conn \cup {NoWs}]]
    <3>1. obj[s].transport.gen \in Nat /\ obj[s].transport.ws \in Conn \cup {NoWs}
      BY <2>3, Record DEF Accept, Receives, Exists, Transport, TransportRecord
    <3> QED BY <2>3, <3>1 DEF Accept, TypeOK
  <2> QED BY <2>1, <2>2, <2>3 DEF Next, vars, Resume, Refuse, Create, Lose, Close, Heartbeat,
             Pong, Elicit, GraceExpires, Handshake, Reject, Settle, ElicitEnds
<1> QED BY <1>1, <1>2, <1>3, LinksGrow DEF TypeOK

\* The sockets of the sessions stay with their clients.
LEMMA ObjectsPreserved ==
  ASSUME TypeOK, Connections, Objects, Registered, OpenCalls, [Next]_vars PROVE Objects'
<1> DEFINE Grown == \A d \in Conn : link[d] # "new" =>
                      /\ link'[d] # "new" /\ owner'[d] = owner[d]
                      /\ link[d] = "closed" => link'[d] = "closed"
<1>1. Grown
  BY LinksGrow
<1>2. ASSUME NEW s \in Conn, Exists(s), Exists(s)', obj'[s].ws = obj[s].ws,
             obj'[s].transport.ws \in {NoWs, obj[s].transport.ws},
             obj'[s].grace => obj[s].grace \/ link'[obj[s].ws] = "closed"
      PROVE  ObjectOf(s)'
  <2>1. obj[s].ws \in Conn /\ ObjectOf(s)
    BY <1>2, Record DEF Objects, SessionRecord
  <2> QED BY <1>1, <1>2, <2>1 DEF ObjectOf
<1>3. CASE Quiet
  BY <1>2, <1>3 DEF Quiet, Objects
<1>4. ASSUME NEW k \in Client, NEW c \in Conn, Resume(k, c) PROVE Objects'
  <2> PICK s \in Conn : s = sessions[k] /\ Exists(s) /\ owner[s] = k
    BY <1>4 DEF Resume, Registered, EntryOf, TypeOK
  <2>1. /\ \A q \in Conn : Exists(q)' <=> Exists(q)
        /\ \A q \in Conn \ {s} : obj'[q] = obj[q]
        /\ obj'[s].ws = c /\ ~obj'[s].grace /\ obj'[s].transport.ws = c
    BY <1>4, ResumeEffect
  <2>2. owner'[c] = k /\ link'[c] = "open"
    BY <1>4 DEF Resume, Connects, TypeOK
  <2>3. link'[s] # "new" /\ owner'[s] = k
    BY <1>1 DEF Objects, ObjectOf
  <2>4. ObjectOf(s)'
    BY <2>1, <2>2, <2>3 DEF ObjectOf
  <2>5. ASSUME NEW q \in Conn \ {s}, Exists(q)' PROVE ObjectOf(q)'
    BY <1>2, <2>1, <2>5
  <2> QED BY <2>4, <2>5 DEF Objects
<1>5. ASSUME NEW k \in Client, NEW c \in Conn, Create(k, c) PROVE Objects'
  <2>1. /\ Exists(c)' /\ \A q \in Conn \ {c} : obj'[q] = obj[q]
        /\ obj'[c].ws = c /\ ~obj'[c].grace /\ obj'[c].transport.ws = c
        /\ link'[c] = "open"
    BY <1>5, CreateEffect DEF Create, TypeOK
  <2>2. ObjectOf(c)'
    BY <2>1 DEF ObjectOf
  <2>3. ASSUME NEW q \in Conn \ {c}, Exists(q)' PROVE ObjectOf(q)'
    BY <1>2, <2>1, <2>3 DEF Exists
  <2> QED BY <2>2, <2>3 DEF Objects
<1>6. ASSUME NEW k \in Client, GraceExpires(k) PROVE Objects'
  <2> DEFINE s == sessions[k]
  <2>1. /\ s \in Conn /\ Exists(s)
        /\ \A q \in Conn : Exists(q)' <=> Exists(q)
        /\ \A q \in Conn \ {s} : obj'[q] = obj[q]
        /\ obj'[s].ws = obj[s].ws /\ ~obj'[s].grace
        /\ obj'[s].transport.ws = NoWs
    BY <1>6, ExpireEffect
  <2> HIDE DEF s
  <2> QED BY <1>2, <2>1 DEF Objects
<1>7. ASSUME NEW s \in Conn, NEW t \in Transport, Transports(s, t) PROVE Objects'
  <2>1. /\ Exists(s) /\ \A r \in Conn : Exists(r)' <=> Exists(r)
        /\ obj'[s].transport.ws = obj[s].transport.ws
        /\ \A r \in Conn \ {s} : obj'[r] = obj[r]
        /\ \A r \in Conn : Exists(r) => obj'[r].ws = obj[r].ws /\ obj'[r].grace = obj[r].grace
    BY <1>7, Updated DEF Transports, Update
  <2> QED BY <1>2, <2>1 DEF Objects
<1>8. CASE \E s \in Conn, c \in Call : Reject(s, c)
  BY <1>8 DEF Reject, Objects, ObjectOf, Exists
<1>9. \A c \in Call : Settle(c) => call[c].obj \in Conn
  BY DEF Settle, OpenCalls, OpenCall
<1>10. \A s \in Conn : \A t : Transports(s, t) => t \in Transport
  BY DEF Transports
<1> QED BY <1>3, <1>4, <1>5, <1>6, <1>7, <1>8, <1>9, <1>10, StepKinds

\* What a session needs to stay registered.
LEMMA EntryKept ==
  ASSUME TypeOK, Objects, Registered, NEW k \in Client, sessions[k] # NoSession,
         sessions'[k] = sessions[k], NEW s \in Conn, s = sessions[k],
         Exists(s)', obj'[s].ws = obj[s].ws,
         obj'[s].transport.ws = obj[s].transport.ws,
         \A d \in Conn : link[d] # "new" => owner'[d] = owner[d]
  PROVE  EntryOf(k)'
BY DEF Registered, EntryOf, Objects, ObjectOf, Exists

\* The sessions map keeps to the sessions of its clients.
LEMMA RegisteredPreserved ==
  ASSUME TypeOK, Connections, Objects, Registered, OpenCalls, [Next]_vars PROVE Registered'
<1>1. \A d \in Conn : link[d] # "new" => owner'[d] = owner[d]
  BY LinksGrow
<1>2. ASSUME NEW k \in Client, sessions[k] # NoSession, sessions'[k] = sessions[k],
             Exists(sessions[k]) =>
               /\ obj'[sessions[k]] # NoSession
               /\ obj'[sessions[k]].ws = obj[sessions[k]].ws
               /\ obj'[sessions[k]].transport.ws = obj[sessions[k]].transport.ws
      PROVE  EntryOf(k)'
  <2>1. sessions[k] \in Conn /\ Exists(sessions[k])
    BY <1>2 DEF TypeOK, Registered, EntryOf
  <2> QED BY <1>1, <1>2, <2>1, EntryKept DEF Exists
<1>3. CASE Quiet
  <2>1. \A k \in Client : sessions[k] # NoSession => sessions[k] \in Conn
    BY DEF TypeOK
  <2> QED BY <1>2, <1>3, <2>1 DEF Quiet, Exists, Registered
<1>4. ASSUME NEW s \in Conn, NEW t, Transports(s, t) PROVE Registered'
  <2>1. /\ \A r \in Conn : Exists(r)' <=> Exists(r)
        /\ obj'[s].transport.ws = obj[s].transport.ws
        /\ \A r \in Conn \ {s} : obj'[r] = obj[r]
        /\ \A r \in Conn : Exists(r) => obj'[r].ws = obj[r].ws
        /\ UNCHANGED sessions
    BY <1>4, Updated DEF Transports, Update
  <2>2. \A k \in Client : sessions[k] # NoSession => sessions[k] \in Conn
    BY DEF TypeOK
  <2> QED BY <1>2, <2>1, <2>2 DEF Exists, Registered
<1>5. CASE \E s \in Conn, c \in Call : Reject(s, c)
  BY <1>5 DEF Reject, Registered, EntryOf, Exists
<1>6. ASSUME NEW k \in Client, NEW c \in Conn, Resume(k, c) PROVE Registered'
  <2> PICK s \in Conn : s = sessions[k] /\ Exists(s) /\ owner[s] = k
    BY <1>6 DEF Resume, Registered, EntryOf, TypeOK
  <2>1. /\ Exists(s)' /\ \A q \in Conn \ {s} : obj'[q] = obj[q]
        /\ obj'[s].ws = c /\ obj'[s].transport.ws = c /\ UNCHANGED sessions
    BY <1>6, ResumeEffect DEF Resume
  <2>2. owner'[s] = k
    BY <1>1 DEF Objects, ObjectOf
  <2>3. EntryOf(k)'
    BY <2>1, <2>2 DEF EntryOf, Exists
  <2>4. ASSUME NEW j \in Client \ {k}, sessions[j] # NoSession PROVE EntryOf(j)'
    <3>1. sessions[j] \in Conn \ {s}
      BY <2>4 DEF TypeOK, Registered, EntryOf
    <3> QED BY <1>2, <2>1, <2>4, <3>1 DEF Exists
  <2> QED BY <2>1, <2>3, <2>4 DEF Registered
<1>7. ASSUME NEW k \in Client, NEW c \in Conn, Create(k, c) PROVE Registered'
  <2>1. /\ ~Exists(c) /\ Exists(c)' /\ \A q \in Conn \ {c} : obj'[q] = obj[q]
        /\ obj'[c].ws = c /\ obj'[c].transport.ws = c
    BY <1>7, CreateEffect
  <2>2. /\ owner'[c] = k /\ sessions'[k] = c
        /\ \A j \in Client \ {k} : sessions'[j] = sessions[j]
    BY <1>7 DEF Create, Connects, TypeOK
  <2>3. EntryOf(k)'
    BY <2>1, <2>2 DEF EntryOf, Exists
  <2>4. ASSUME NEW j \in Client \ {k}, sessions[j] # NoSession PROVE EntryOf(j)'
    <3>1. sessions[j] \in Conn \ {c}
      BY <2>1, <2>4 DEF TypeOK, Registered, EntryOf
    <3> QED BY <1>2, <2>1, <2>2, <2>4, <3>1 DEF Exists
  <2> QED BY <2>2, <2>3, <2>4 DEF Registered
<1>8. ASSUME NEW k \in Client, GraceExpires(k) PROVE Registered'
  <2> PICK s \in Conn : s = sessions[k] /\ Exists(s) /\ owner[s] = k
    BY <1>8 DEF GraceExpires, Registered, EntryOf, TypeOK
  <2>1. /\ \A q \in Conn \ {s} : obj'[q] = obj[q]
        /\ sessions' = [sessions EXCEPT ![k] = NoSession]
    BY <1>8, ExpireEffect
  <2>2. sessions'[k] = NoSession /\ \A j \in Client \ {k} : sessions'[j] = sessions[j]
    BY <2>1 DEF TypeOK
  <2>3. ASSUME NEW j \in Client \ {k}, sessions[j] # NoSession PROVE EntryOf(j)'
    <3>1. sessions[j] \in Conn \ {s}
      BY <2>3 DEF TypeOK, Registered, EntryOf
    <3> QED BY <1>2, <2>1, <2>2, <2>3, <3>1 DEF Exists
  <2> QED BY <2>2, <2>3 DEF Registered
<1>9. \A c \in Call : Settle(c) => call[c].obj \in Conn
  BY DEF Settle, OpenCalls, OpenCall
<1> QED BY <1>3, <1>4, <1>5, <1>6, <1>7, <1>8, <1>9, StepKinds

\* What an open call needs to keep its session and its socket.
LEMMA OpenKept ==
  ASSUME TypeOK, Objects, OpenCalls, NEW c \in Call, call[c].stage = "open",
         call'[c] = call[c], NEW s \in Conn, s = call[c].obj, Exists(s)',
         obj'[s].transport.gen >= obj[s].transport.gen,
         obj'[s].transport.gen \in Nat, obj[s].transport.gen \in Nat,
         obj'[s].transport.gen = obj[s].transport.gen =>
           obj'[s].transport.ws \in {NoWs, obj[s].transport.ws},
         \A d \in Conn : link[d] # "new" => link'[d] # "new" /\ owner'[d] = owner[d]
  PROVE  OpenCall(c)'
<1>1. OpenCall(c) /\ ObjectOf(s)
  BY DEF OpenCalls, Objects, OpenCall
<1>2. call[c].gen \in Nat
  BY DEF TypeOK
<1> QED BY <1>1, <1>2 DEF OpenCall, ObjectOf, Exists

\* Every step leaves an open call its session.
LEMMA OpenCallsPreserved ==
  ASSUME TypeOK, Connections, Objects, Registered, OpenCalls, [Next]_vars PROVE OpenCalls'
<1>1. \A d \in Conn : link[d] # "new" => link'[d] # "new" /\ owner'[d] = owner[d]
  BY LinksGrow
<1>2. \A s \in Conn : Exists(s) => obj[s].transport.gen \in Nat
  BY Record DEF Transport, TransportRecord
<1>3. \A c \in Call : call[c].stage = "open" => call[c].obj \in Conn /\ Exists(call[c].obj)
  BY DEF OpenCalls, OpenCall
<1>4. TypeOK'
  BY TypePreserved
<1>5. \A s \in Conn : Exists(s)' => obj'[s].transport.gen \in Nat
  BY <1>4 DEF TypeOK, Exists, SessionRecord, TransportRecord
<1>6. ASSUME NEW c \in Call, call[c].stage = "open", call'[c] = call[c],
             LET s == call[c].obj IN
             /\ Exists(s) => Exists(s)'
             /\ obj'[s].transport.gen >= obj[s].transport.gen
             /\ obj'[s].transport.gen = obj[s].transport.gen =>
                  obj'[s].transport.ws \in {NoWs, obj[s].transport.ws}
      PROVE  OpenCall(c)'
  <2> PICK s \in Conn : s = call[c].obj /\ Exists(s)
    BY <1>3, <1>6
  <2>1. Exists(s)'
    BY <1>6 DEF Exists
  <2> QED BY <1>1, <1>2, <1>5, <1>6, <2>1, OpenKept
<1>7. CASE Quiet
  BY <1>2, <1>3, <1>6, <1>7 DEF Quiet, OpenCalls, Exists
<1>8. ASSUME NEW s \in Conn, NEW t, Transports(s, t)
      PROVE  \A c \in Call : call[c].stage = "open" /\ call'[c] = call[c] => OpenCall(c)'
  <2>1. /\ \A r \in Conn : Exists(r)' <=> Exists(r)
        /\ obj'[s].transport.ws = obj[s].transport.ws
        /\ obj'[s].transport.gen = obj[s].transport.gen
        /\ \A r \in Conn \ {s} : obj'[r] = obj[r]
    BY <1>8, Updated DEF Transports, Update
  <2> QED BY <1>2, <1>3, <1>6, <2>1 DEF Exists
<1>9. ASSUME NEW s \in Conn, NEW c \in Call, Accept(s, c),
             Transports(s, Take(obj[s].transport, c))
      PROVE  OpenCalls'
  <2> DEFINE t == obj[s].transport
  <2>1. /\ Exists(s) /\ t \in Transport /\ ObjectOf(s) /\ t.ws # NoWs
        /\ owner[t.ws] = ClientOf[c] /\ obj[s].ws \in Conn
    BY <1>9, Record DEF Accept, Receives, Exists, Objects, SessionRecord
  <2>2. /\ Exists(s)' /\ obj'[s].transport.ws = t.ws /\ obj'[s].transport.gen = t.gen
    BY <1>9, Updated DEF Transports, Update
  <2>3. /\ call'[c] = [stage |-> "open", obj |-> s, gen |-> t.gen, ws |-> t.ws]
        /\ \A d \in Call \ {c} : call'[d] = call[d]
    BY <1>9 DEF Accept, TypeOK
  <2>4. t.gen \in Nat /\ t.ws \in Conn
    BY <2>1 DEF Transport, TransportRecord
  <2>5. t.ws = obj[s].ws /\ owner[s] = ClientOf[c] /\ link[s] # "new" /\ link[t.ws] # "new"
    BY <2>1, <2>4 DEF ObjectOf
  <2>6. link'[s] # "new" /\ link'[t.ws] # "new"
        /\ owner'[s] = ClientOf[c] /\ owner'[t.ws] = ClientOf[c]
    BY <1>1, <2>1, <2>4, <2>5
  <2> HIDE DEF t
  <2>7. OpenCall(c)'
    BY <2>2, <2>3, <2>4, <2>6 DEF OpenCall
  <2> QED BY <1>8, <1>9, <2>3, <2>7 DEF OpenCalls
<1>10. ASSUME NEW c \in Call, Settle(c),
              Transports(call[c].obj,
                         Release(obj[call[c].obj].transport, c, call[c].gen))
       PROVE  OpenCalls'
  <2>1. call[c].obj \in Conn
    BY <1>3, <1>10 DEF Settle
  <2>2. call'[c].stage = "settled" /\ \A d \in Call \ {c} : call'[d] = call[d]
    BY <1>10 DEF Settle, TypeOK, Settled, NotReceived
  <2> QED BY <1>8, <1>10, <2>1, <2>2 DEF OpenCalls
<1>11. ASSUME NEW s \in Conn, NEW c \in Call, Reject(s, c) PROVE OpenCalls'
  <2>1. /\ UNCHANGED <<link, owner, obj>>
        /\ call'[c].stage = "settled" /\ \A d \in Call \ {c} : call'[d] = call[d]
    BY <1>11 DEF Reject, TypeOK, Settled, NotReceived
  <2> QED BY <2>1 DEF OpenCalls, OpenCall, Exists
<1>12. ASSUME NEW k \in Client, NEW c \in Conn, Resume(k, c) PROVE OpenCalls'
  <2> PICK s \in Conn : s = sessions[k] /\ Exists(s)
    BY <1>12, ResumeEffect
  <2>1. /\ \A q \in Conn : Exists(q)' <=> Exists(q)
        /\ \A q \in Conn \ {s} : obj'[q] = obj[q]
        /\ obj'[s].transport.gen = obj[s].transport.gen + 1
        /\ UNCHANGED call
    BY <1>12, ResumeEffect DEF Resume
  <2>2. obj[s].transport.gen \in Nat
    BY <1>2
  <2> QED BY <1>2, <1>3, <1>6, <2>1, <2>2 DEF OpenCalls, Exists
<1>13. ASSUME NEW k \in Client, NEW c \in Conn, Create(k, c) PROVE OpenCalls'
  <2>1. ~Exists(c) /\ Exists(c)' /\ \A q \in Conn \ {c} : obj'[q] = obj[q]
    BY <1>13, CreateEffect
  <2>2. UNCHANGED call
    BY <1>13 DEF Create
  <2> QED BY <1>2, <1>3, <1>6, <2>1, <2>2 DEF OpenCalls, Exists
<1>14. ASSUME NEW k \in Client, GraceExpires(k) PROVE OpenCalls'
  <2> PICK s \in Conn : s = sessions[k] /\ Exists(s)
    BY <1>14, ExpireEffect
  <2>1. /\ \A q \in Conn : Exists(q)' <=> Exists(q)
        /\ \A q \in Conn \ {s} : obj'[q] = obj[q]
        /\ obj'[s].transport.ws = NoWs
        /\ obj'[s].transport.gen = obj[s].transport.gen
        /\ UNCHANGED call
    BY <1>14, ExpireEffect DEF GraceExpires
  <2> QED BY <1>2, <1>3, <1>6, <2>1 DEF OpenCalls, Exists
<1>15. ASSUME NEW s \in Conn, NEW t \in Transport, Transports(s, t), UNCHANGED call
       PROVE  OpenCalls'
  BY <1>8, <1>15 DEF OpenCalls
<1> QED BY <1>7, <1>9, <1>10, <1>11, <1>12, <1>13, <1>14, <1>15, StepKinds

\* A session whose slots and calls are left alone keeps them exact.
LEMMA SlotsKept ==
  ASSUME NEW s, SlotsOf(s),
         obj'[s].transport.inFlight = obj[s].transport.inFlight,
         obj'[s].transport.active = obj[s].transport.active,
         obj'[s].transport.soft = obj[s].transport.soft,
         obj'[s].transport.gen = obj[s].transport.gen,
         obj'[s].transport.elicits \subseteq {obj'[s].transport.ws},
         Unsettled(s)' = Unsettled(s),
         \A c \in Unsettled(s) : call'[c].gen = call[c].gen
  PROVE  SlotsOf(s)'
BY DEF SlotsOf

\* The next lemmas are the three steps that change the slots of a session.  A call is taken.
LEMMA TakeKeepsSlots ==
  ASSUME TypeOK, NEW s \in Conn, SlotsOf(s), Exists(s), NEW c \in Call,
         Accept(s, c), Transports(s, Take(obj[s].transport, c))
  PROVE  SlotsOf(s)'
<1> DEFINE t == obj[s].transport
           U == Unsettled(s)
<1>1. /\ obj'[s].transport = Take(t, c) /\ t \in Transport
  BY Record, Updated DEF Transports, Update
<1>2. LET r == obj'[s].transport IN
      /\ r.ws = t.ws /\ r.gen = t.gen /\ r.soft = t.soft /\ r.elicits = t.elicits
      /\ r.inFlight = t.inFlight \cup {c} /\ r.active = t.active + 1
  BY <1>1, Taken
<1>3. /\ call[c].stage = "fresh" /\ Admits(t, c)
      /\ call'[c] = [stage |-> "open", obj |-> s, gen |-> t.gen, ws |-> t.ws]
      /\ \A d \in Call \ {c} : call'[d] = call[d]
  BY DEF Accept, TypeOK
<1>4. Unsettled(s)' = U \cup {c} /\ c \notin U
  BY <1>3 DEF Unsettled
<1>5. /\ IsFiniteSet(U \cup {c})
      /\ Cardinality(U \cup {c}) = Cardinality(U) + 1
  BY <1>4, FS_AddElement DEF SlotsOf
<1>6. \A d \in U : IdOf[d] # IdOf[c] /\ call'[d] = call[d]
  BY <1>3, <1>4 DEF SlotsOf, Admits, Ids, Unsettled
<1>7. {IdOf[d] : d \in {e \in U \cup {c} : call'[e].gen # t.gen}}
        = {IdOf[d] : d \in {e \in U : call[e].gen # t.gen}}
  BY <1>3, <1>4, <1>6
<1> QED BY <1>2, <1>4, <1>5, <1>6, <1>7 DEF SlotsOf

\* A call has settled, whichever generation it was taken under.
LEMMA ReleaseKeepsSlots ==
  ASSUME TypeOK, NEW c \in Call, NEW s \in Conn, s = call[c].obj, SlotsOf(s), Exists(s),
         Settle(c), Transports(s, Release(obj[s].transport, c, call[c].gen))
  PROVE  SlotsOf(s)'
<1> DEFINE t == obj[s].transport
           U == Unsettled(s)
<1>1. obj'[s].transport = Release(t, c, call[c].gen) /\ t \in Transport
  <2> DEFINE r == Release(t, c, call[c].gen)
  <2>1. r \in Transport /\ obj' = [obj EXCEPT ![s].transport = r]
    BY DEF Transports, Update
  <2> HIDE DEF r
  <2>2. obj'[s].transport = r
    BY <2>1, Updated
  <2> QED BY <2>2, Record DEF r
<1>2. c \in U /\ call[c].gen \in Nat
  BY DEF Unsettled, Settle, TypeOK
<1>3. call[c].gen = t.gen \/ Preserved(t, c)
  BY <1>2 DEF SlotsOf, Preserved
<1>4. IsFiniteSet(U) /\ Cardinality(U) \in Nat /\ Cardinality(U) # 0
  BY <1>2, FS_CardinalityType, FS_EmptySet DEF SlotsOf
<1>5. LET r == obj'[s].transport IN
      /\ r.ws = t.ws /\ r.gen = t.gen /\ r.elicits = t.elicits
      /\ r.soft = t.soft \ {IdOf[c]}
      /\ r.inFlight = {d \in U : IdOf[d] # IdOf[c]}
      /\ r.active = Cardinality(U) - 1
  <2>1. t.inFlight = U /\ t.active = Cardinality(U) /\ t.active > 0
    BY <1>4 DEF SlotsOf
  <2>2. LET r == Release(t, c, call[c].gen) IN
        /\ r.ws = t.ws /\ r.gen = t.gen /\ r.elicits = t.elicits
        /\ r.soft = t.soft \ {IdOf[c]}
        /\ r.inFlight = {d \in t.inFlight : IdOf[d] # IdOf[c]}
        /\ r.active = t.active - 1
    <3> HIDE DEF t
    <3> QED BY <1>1, <1>3, <2>1, Released
  <2> QED BY <1>1, <2>1, <2>2
<1>6. call'[c].stage = "settled" /\ \A d \in Call \ {c} : call'[d] = call[d]
  BY DEF Settle, TypeOK, Settled, NotReceived
<1>7. Unsettled(s)' = U \ {c}
  BY <1>6 DEF Unsettled
<1>8. IsFiniteSet(U \ {c}) /\ Cardinality(U \ {c}) = Cardinality(U) - 1
  BY <1>2, <1>4, FS_RemoveElement
<1>9. \A d \in U : IdOf[d] = IdOf[c] <=> d = c
  BY <1>2 DEF SlotsOf
<1>10. {d \in U : IdOf[d] # IdOf[c]} = U \ {c}
  BY <1>9
<1>11. t.soft \ {IdOf[c]} = {IdOf[d] : d \in {e \in U \ {c} : call'[e].gen # t.gen}}
  <2>1. t.soft = {IdOf[d] : d \in {e \in U : call[e].gen # t.gen}}
    BY DEF SlotsOf
  <2>2. \A d \in U \ {c} : call'[d] = call[d]
    BY <1>6 DEF Unsettled
  <2> QED BY <2>1, <2>2, <1>9
<1>12. \A d, e \in U \ {c} : IdOf[d] = IdOf[e] => d = e
  BY DEF SlotsOf
<1>13. t.elicits \subseteq {t.ws}
  BY DEF SlotsOf
<1> PICK V : V = U \ {c}
  OBVIOUS
<1> HIDE DEF U
<1>14. LET r == obj'[s].transport IN
       /\ r.gen = t.gen /\ r.elicits \subseteq {r.ws}
       /\ r.inFlight = V /\ r.active = Cardinality(V)
       /\ r.soft = {IdOf[d] : d \in {e \in V : call'[e].gen # t.gen}}
  BY <1>5, <1>8, <1>10, <1>11, <1>13
<1>15. /\ Unsettled(s)' = V /\ IsFiniteSet(V)
       /\ \A d, e \in V : IdOf[d] = IdOf[e] => d = e
  BY <1>7, <1>8, <1>12
<1>16. obj'[s].transport.soft =
         {IdOf[d] : d \in {e \in V : call'[e].gen # obj'[s].transport.gen}}
  BY <1>14
<1> HIDE DEF t
<1> QED BY <1>14, <1>15, <1>16 DEF SlotsOf

\* A session is resumed: its open calls are all of earlier generations now.
LEMMA ResumeKeepsSlots ==
  ASSUME TypeOK, Registered, OpenCalls, NEW k \in Client, NEW c \in Conn, Resume(k, c),
         NEW s \in Conn, s = sessions[k], SlotsOf(s)
  PROVE  SlotsOf(s)'
<1> DEFINE t == obj[s].transport
           U == Unsettled(s)
<1>1. LET r == obj'[s].transport IN
      /\ t \in Transport
      /\ r.ws = c /\ r.gen = t.gen + 1 /\ r.inFlight = t.inFlight /\ r.active = t.active
      /\ r.soft = t.soft \cup Ids(t) /\ r.elicits = {}
  BY ResumeEffect
<1>2. UNCHANGED call /\ Unsettled(s)' = U
  BY DEF Resume, Unsettled
<1>3. t.gen \in Nat /\ \A d \in U : call[d].gen \in Nat /\ call[d].gen <= t.gen
  BY <1>1 DEF Unsettled, OpenCalls, OpenCall, Transport, TransportRecord, TypeOK
<1>4. \A d \in U : call[d].gen # t.gen + 1
  BY <1>3
<1>5. t.soft \cup Ids(t) = {IdOf[d] : d \in U}
  BY DEF SlotsOf, Ids
<1>6. {IdOf[d] : d \in {e \in U : call'[e].gen # t.gen + 1}} = {IdOf[d] : d \in U}
  BY <1>2, <1>4
<1> HIDE DEF U
<1>7. /\ IsFiniteSet(U) /\ t.inFlight = U /\ t.active = Cardinality(U)
      /\ \A d, e \in U : IdOf[d] = IdOf[e] => d = e
  BY DEF SlotsOf, U
<1> QED BY <1>1, <1>2, <1>5, <1>6, <1>7 DEF SlotsOf

\* Every step leaves the slots of every attached session exact.
LEMMA SlotsPreserved ==
  ASSUME Inv, [Next]_vars PROVE Slots'
<1> USE DEF Inv
<1>1. ASSUME NEW s \in Conn, SlotsOf(s), obj'[s].transport = obj[s].transport,
             Unsettled(s)' = Unsettled(s),
             \A c \in Unsettled(s) : call'[c] = call[c]
      PROVE  SlotsOf(s)'
  BY <1>1, SlotsKept DEF SlotsOf
<1>2. \A c \in Call : call[c].stage = "open" => call[c].obj \in Conn /\ Exists(call[c].obj)
  BY DEF OpenCalls, OpenCall
<1>3. ASSUME Quiet PROVE Slots'
  <2>1. ASSUME NEW s \in Conn, Exists(s)', obj'[s].transport.ws # NoWs PROVE SlotsOf(s)'
    <3>1. SlotsOf(s) /\ obj'[s].transport = obj[s].transport /\ UNCHANGED call
      BY <1>3, <2>1 DEF Quiet, Slots
    <3> QED BY <1>1, <3>1 DEF Unsettled
  <2> QED BY <2>1 DEF Slots
<1>4. ASSUME NEW k \in Client, NEW c \in Conn, Resume(k, c) PROVE Slots'
  <2> PICK s \in Conn : s = sessions[k] /\ Exists(s)
    BY <1>4, ResumeEffect
  <2>1. obj[s].transport.ws # NoWs
    <3>1. obj[s].ws \in Conn /\ obj[s].transport.ws = obj[s].ws
      BY <1>4, Record DEF Resume, Registered, EntryOf, SessionRecord
    <3> QED BY <3>1, SessionAssumption
  <2>2. SlotsOf(s)'
    BY <1>4, <2>1, ResumeKeepsSlots DEF Slots
  <2>3. ASSUME NEW q \in Conn \ {s}, Exists(q)', obj'[q].transport.ws # NoWs PROVE SlotsOf(q)'
    <3>1. obj'[q] = obj[q] /\ Exists(q) /\ UNCHANGED call
      BY <1>4, <2>3, ResumeEffect DEF Resume
    <3>2. SlotsOf(q)
      BY <2>3, <3>1 DEF Slots
    <3> QED BY <1>1, <3>1, <3>2 DEF Unsettled
  <2> QED BY <2>2, <2>3 DEF Slots
<1>5. ASSUME NEW k \in Client, NEW c \in Conn, Create(k, c) PROVE Slots'
  <2>1. LET t == obj'[c].transport IN
        /\ ~Exists(c)
        /\ t.inFlight = {} /\ t.active = 0 /\ t.soft = {} /\ t.elicits = {}
        /\ \A q \in Conn \ {c} : obj'[q] = obj[q]
        /\ UNCHANGED call
    BY <1>5, CreateEffect DEF Create
  <2>2. Unsettled(c)' = {}
    BY <1>2, <2>1 DEF Unsettled
  <2>3. IsFiniteSet({}) /\ Cardinality({}) = 0
    BY FS_EmptySet
  <2>4. SlotsOf(c)'
    BY <2>1, <2>2, <2>3 DEF SlotsOf
  <2>5. ASSUME NEW q \in Conn \ {c}, Exists(q)', obj'[q].transport.ws # NoWs PROVE SlotsOf(q)'
    <3>1. SlotsOf(q) /\ obj'[q].transport = obj[q].transport
      BY <2>1, <2>5 DEF Slots, Exists
    <3> QED BY <1>1, <2>1, <3>1 DEF Unsettled
  <2> QED BY <2>4, <2>5 DEF Slots
<1>6. ASSUME NEW k \in Client, GraceExpires(k) PROVE Slots'
  <2> PICK s \in Conn : s = sessions[k] /\ Exists(s)
    BY <1>6, ExpireEffect
  <2>1. /\ obj'[s].transport.ws = NoWs
        /\ \A q \in Conn \ {s} : obj'[q] = obj[q]
        /\ UNCHANGED call
    BY <1>6, ExpireEffect DEF GraceExpires
  <2>2. ASSUME NEW q \in Conn, Exists(q)', obj'[q].transport.ws # NoWs PROVE SlotsOf(q)'
    <3>1. SlotsOf(q) /\ obj'[q].transport = obj[q].transport
      BY <2>1, <2>2 DEF Slots, Exists
    <3> QED BY <1>1, <2>1, <3>1 DEF Unsettled
  <2> QED BY <2>2 DEF Slots
<1>7. ASSUME NEW s \in Conn, NEW t \in Transport, Transports(s, t), UNCHANGED call,
             t.inFlight = obj[s].transport.inFlight, t.active = obj[s].transport.active,
             t.soft = obj[s].transport.soft,
             t.elicits \subseteq obj[s].transport.elicits \cup
               (IF s \in Live THEN {t.ws} ELSE {})
      PROVE  Slots'
  <2>1. /\ obj'[s].transport = t /\ \A q \in Conn \ {s} : obj'[q] = obj[q]
        /\ \A q \in Conn : Exists(q)' <=> Exists(q)
        /\ t.ws = obj[s].transport.ws /\ t.gen = obj[s].transport.gen
    BY <1>7, Updated DEF Transports, Update
  <2>2. ASSUME Exists(s)', obj'[s].transport.ws # NoWs PROVE SlotsOf(s)'
    <3>1. SlotsOf(s)
      BY <2>1, <2>2 DEF Slots
    <3>2. t.elicits \subseteq {t.ws}
      BY <1>7, <2>1, <3>1 DEF SlotsOf
    <3> QED BY <1>7, <2>1, <3>1, <3>2, SlotsKept DEF Unsettled
  <2>3. ASSUME NEW q \in Conn \ {s}, Exists(q)', obj'[q].transport.ws # NoWs PROVE SlotsOf(q)'
    <3>1. SlotsOf(q) /\ obj'[q].transport = obj[q].transport
      BY <2>1, <2>3 DEF Slots
    <3> QED BY <1>1, <1>7, <3>1 DEF Unsettled
  <2> QED BY <2>2, <2>3 DEF Slots
<1>8. ASSUME NEW s \in Conn, NEW c \in Call, Reject(s, c) PROVE Slots'
  <2>1. /\ UNCHANGED obj /\ call[c].stage = "fresh" /\ call'[c].stage = "settled"
        /\ \A d \in Call \ {c} : call'[d] = call[d]
    BY <1>8 DEF Reject, TypeOK, Settled, NotReceived
  <2>2. ASSUME NEW q \in Conn PROVE /\ Unsettled(q)' = Unsettled(q)
                                    /\ \A d \in Unsettled(q) : call'[d] = call[d]
    BY <2>1 DEF Unsettled
  <2> QED BY <1>1, <2>1, <2>2 DEF Slots, Exists
<1>9. ASSUME NEW s \in Conn, NEW c \in Call,
             Accept(s, c), Transports(s, Take(obj[s].transport, c))
      PROVE  Slots'
  <2>1. /\ \A q \in Conn \ {s} : obj'[q] = obj[q]
        /\ \A q \in Conn : Exists(q)' <=> Exists(q)
        /\ Exists(s) /\ obj[s].transport.ws # NoWs
    BY <1>9, Taken, Record, Updated DEF Transports, Update, Accept, Receives
  <2>2. SlotsOf(s)'
    BY <1>9, <2>1, TakeKeepsSlots DEF Slots
  <2>3. /\ call[c].stage = "fresh" /\ call'[c].obj = s
        /\ \A d \in Call \ {c} : call'[d] = call[d]
    BY <1>9 DEF Accept, TypeOK
  <2>4. ASSUME NEW q \in Conn \ {s}, Exists(q)', obj'[q].transport.ws # NoWs PROVE SlotsOf(q)'
    <3>1. SlotsOf(q) /\ obj'[q].transport = obj[q].transport
      BY <2>1, <2>4 DEF Slots
    <3>2. Unsettled(q)' = Unsettled(q) /\ \A d \in Unsettled(q) : call'[d] = call[d]
      BY <2>3 DEF Unsettled
    <3> QED BY <1>1, <3>1, <3>2
  <2> QED BY <2>2, <2>4 DEF Slots
<1>10. ASSUME NEW c \in Call, Settle(c),
              Transports(call[c].obj,
                         Release(obj[call[c].obj].transport, c, call[c].gen))
       PROVE  Slots'
  <2> PICK s \in Conn : s = call[c].obj /\ Exists(s)
    BY <1>2, <1>10 DEF Settle
  <2>1. /\ \A q \in Conn \ {s} : obj'[q] = obj[q]
        /\ \A q \in Conn : Exists(q)' <=> Exists(q)
        /\ obj'[s].transport.ws = obj[s].transport.ws
    BY <1>10, Updated DEF Transports, Update
  <2>2. call'[c].stage = "settled" /\ \A d \in Call \ {c} : call'[d] = call[d]
    BY <1>10 DEF Settle, TypeOK, Settled, NotReceived
  <2>3. ASSUME Exists(s)', obj'[s].transport.ws # NoWs PROVE SlotsOf(s)'
    BY <1>10, <2>1, <2>3, ReleaseKeepsSlots DEF Slots
  <2>4. ASSUME NEW q \in Conn \ {s}, Exists(q)', obj'[q].transport.ws # NoWs PROVE SlotsOf(q)'
    <3>1. SlotsOf(q) /\ obj'[q].transport = obj[q].transport
      BY <2>1, <2>4 DEF Slots
    <3>2. Unsettled(q)' = Unsettled(q) /\ \A d \in Unsettled(q) : call'[d] = call[d]
      BY <2>2 DEF Unsettled
    <3> QED BY <1>1, <3>1, <3>2
  <2> QED BY <2>3, <2>4 DEF Slots
<1> QED BY <1>3, <1>4, <1>5, <1>6, <1>7, <1>8, <1>9, <1>10, StepKinds

(***************************************************************************)
(* The invariant and what follows from it.                                 *)
(***************************************************************************)

\* The sessions map, the session objects and the calls agree in every reachable state.
THEOREM McpSessionInvariant == Spec => []Inv
<1>1. Init => Inv
  <2> SUFFICES ASSUME Init PROVE Inv
    OBVIOUS
  <2>1. TypeOK
    BY SessionAssumption DEF Init, TypeOK, NotReceived
  <2>2. /\ \A s \in Conn : ~Exists(s) /\ link[s] = "new"
        /\ \A c \in Call : call[c].stage # "open"
        /\ \A k \in Client : sessions[k] = NoSession
    BY DEF Init, Exists, NotReceived
  <2> QED BY <2>1, <2>2 DEF Inv, Connections, Objects, Registered, OpenCalls, Slots
<1>2. Inv /\ [Next]_vars => Inv'
  BY LinksGrow, TypePreserved, ObjectsPreserved, RegisteredPreserved, OpenCallsPreserved,
     SlotsPreserved DEF Inv
<1> QED BY <1>1, <1>2, PTL DEF Spec

\* Every variable keeps its type.
THEOREM McpSessionTyped == Spec => []TypeOK
<1>1. Inv => TypeOK
  BY DEF Inv
<1> QED BY <1>1, McpSessionInvariant, PTL

\* An attached session holds the slots of its unsettled calls and no others, after any
\* number of resumptions, and asks nothing of an earlier connection.
THEOREM SlotsAreExact == Spec => []SlotsExact
<1>1. Inv => SlotsExact
  BY DEF Inv, Slots, SlotsOf, SlotsExact, Exists
<1> QED BY <1>1, McpSessionInvariant, PTL

\* An answer goes to the client that asked, on the connection its session has by then.
THEOREM AnswersFollow == Spec => []AnswersFollowTheSession
<1>1. Inv => AnswersFollowTheSession
  <2> SUFFICES ASSUME Inv, NEW c \in Call, call[c].stage = "open",
                      NEW s, s = call[c].obj
               PROVE  /\ owner[AnswerSocket(c)] = ClientOf[c]
                      /\ obj[s].transport.ws # NoWs /\ IsOpen(obj[s].ws) =>
                           AnswerSocket(c) = obj[s].ws
    BY DEF AnswersFollowTheSession
  <2>1. OpenCall(c) /\ s \in Conn /\ Exists(s) /\ ObjectOf(s)
    BY DEF Inv, OpenCalls, OpenCall, Objects
  <2> DEFINE t == obj[s].transport
  <2>2. AnswerSocket(c) = IF Preserved(t, c) /\ t.ws # NoWs THEN t.ws ELSE call[c].ws
    BY DEF AnswerSocket, Target
  <2>3. t.ws # NoWs => t.ws = obj[s].ws /\ owner[t.ws] = ClientOf[c]
    BY <2>1 DEF ObjectOf, OpenCall
  <2>4. owner[call[c].ws] = ClientOf[c]
    BY <2>1 DEF OpenCall
  <2>5. t.ws # NoWs /\ call[c].gen = t.gen => call[c].ws = t.ws
    BY <2>1 DEF OpenCall
  <2>6. ASSUME t.ws # NoWs, call[c].gen # t.gen PROVE Preserved(t, c)
    <3>1. c \in Unsettled(s)
      BY DEF Unsettled
    <3>2. SlotsOf(s)
      BY <2>1, <2>6 DEF Inv, Slots
    <3>3. t.soft = {IdOf[d] : d \in {e \in Unsettled(s) : call[e].gen # t.gen}}
      BY <3>2 DEF SlotsOf
    <3> QED BY <2>6, <3>1, <3>3 DEF Preserved
  <2> HIDE DEF t
  <2>7. t.ws # NoWs => AnswerSocket(c) = t.ws
    BY <2>2, <2>5, <2>6
  <2> QED BY <2>2, <2>3, <2>4, <2>7 DEF t
<1> QED BY <1>1, McpSessionInvariant, PTL

\* A step keeps the session of a client that is connected before and after it.
LEMMA ConnectedKept ==
  ASSUME Inv, [Next]_vars, NEW k \in Client, NEW s \in Conn, s = sessions[k],
         link[obj[s].ws] = "open", link'[obj[s].ws] = "open"
  PROVE  sessions'[k] = s /\ ~obj'[s].grace
<1> USE DEF Inv
<1>1. s # NoSession /\ Exists(s) /\ obj[s].ws \in Conn /\ owner[obj[s].ws] = k /\ ~obj[s].grace
  <2>1. s # NoSession
    BY SessionAssumption
  <2>2. EntryOf(k)
    BY <2>1 DEF Registered
  <2> QED BY <2>1, <2>2, Record DEF EntryOf, Objects, ObjectOf, SessionRecord
<1>2. obj[s].grace \in BOOLEAN
  BY <1>1, Record DEF SessionRecord
<1>3. CASE Quiet
  BY <1>1, <1>3 DEF Quiet
<1>4. ASSUME NEW j \in Client, NEW c \in Conn, Resume(j, c)
      PROVE  sessions'[k] = s /\ ~obj'[s].grace
  <2>1. sessions[j] # s
    BY <1>1, <1>4 DEF Resume
  <2> QED BY <1>1, <1>4, <2>1, ResumeEffect DEF Resume
<1>5. ASSUME NEW j \in Client, NEW c \in Conn, Create(j, c)
      PROVE  sessions'[k] = s /\ ~obj'[s].grace
  <2>1. j # k
    BY <1>1, <1>5 DEF Create, Connects
  <2>2. c # s
    BY <1>1, <1>5, CreateEffect
  <2> QED BY <1>1, <1>5, <2>1, <2>2, CreateEffect DEF Create, TypeOK
<1>6. ASSUME NEW j \in Client, GraceExpires(j)
      PROVE  sessions'[k] = s /\ ~obj'[s].grace
  <2>1. sessions[j] # s /\ j # k
    BY <1>1, <1>6 DEF GraceExpires
  <2> QED BY <1>1, <1>6, <2>1, ExpireEffect DEF TypeOK
<1>7. ASSUME NEW r \in Conn, NEW t, Transports(r, t)
      PROVE  sessions'[k] = s /\ ~obj'[s].grace
  BY <1>1, <1>7, Updated DEF Transports, Update
<1>8. ASSUME NEW r \in Conn, NEW c \in Call, Reject(r, c)
      PROVE  sessions'[k] = s /\ ~obj'[s].grace
  BY <1>1, <1>8 DEF Reject
<1>9. \A c \in Call : Settle(c) => call[c].obj \in Conn
  BY DEF Settle, OpenCalls, OpenCall
<1> QED BY <1>3, <1>4, <1>5, <1>6, <1>7, <1>8, <1>9, StepKinds

\* No close of an older connection, no timer and no other client takes the session of a
\* client that is connected.
THEOREM ConnectedSessionsStay == Spec => ConnectedSessionKept
<1>1. Inv /\ [Next]_vars =>
        [\A k \in Client :
           LET s == sessions[k] IN
           s # NoSession /\ link[obj[s].ws] = "open" /\ link'[obj[s].ws] = "open" =>
             sessions'[k] = s /\ ~obj'[s].grace]_vars
  <2>1. Inv => \A k \in Client : sessions[k] # NoSession => sessions[k] \in Conn
    BY DEF Inv, TypeOK
  <2> QED BY <2>1, ConnectedKept
<1> QED BY <1>1, McpSessionInvariant, PTL DEF Spec, ConnectedSessionKept
=============================================================================
