-------------------------- MODULE ExtensionClient --------------------------
(***************************************************************************)
(* Requests from the bridge to the editor extension over a WebSocket that  *)
(* breaks and is replaced, and the circuit breaker in front of them        *)
(* (src/src/extensionClient.ts).                                           *)
(*                                                                         *)
(* A request is checked, awaits the drain of the send buffer, is checked   *)
(* again, and only then enters the map of pending requests and is sent, on *)
(* whichever socket is current by then.  Time is counted in ticks; the     *)
(* timeout of a request is its caller's choice, so any time may be it.     *)
(* The half-open flag is left out: nothing reads it but the test that sets *)
(* it, so it holds no request back.                                        *)
(***************************************************************************)
EXTENDS Naturals, FiniteSets

CONSTANTS
    Request,
    MaxPending,  \* MAX_PENDING_REQUESTS
    Threshold,   \* CIRCUIT_THRESHOLD
    Window,      \* CIRCUIT_WINDOW_MS, in ticks
    MaxBackoff,  \* the longest suspension, in ticks
    MaxClock,    \* bound: ticks
    MaxSocket    \* bound: connections

ASSUME ExtensionAssumption ==
    /\ MaxPending \in Nat /\ Threshold \in Nat \ {0} /\ Window \in Nat \ {0}
    /\ MaxBackoff \in Nat /\ MaxClock \in Nat /\ MaxSocket \in Nat

VARIABLES
    socket,    \* ws and connected: the number of the current socket, or 0
    made,      \* sockets made so far
    ready,     \* the current socket is OPEN: its end may come before "close" does
    running,   \* the bridge has not shut down
    phase,     \* where each call of request() is
    pending,   \* pendingRequests
    sentOn,    \* the socket each request was sent on
    endedAt,   \* when each request was settled
    failures,  \* extensionFailureTimes: the requests whose timeouts it lists, at endedAt
    until,     \* extensionSuspendedUntil
    clock

vars == <<socket, made, ready, running, phase, pending, sentOn, endedAt, failures, until, clock>>
connection == <<socket, made, ready, running>>
breaker == <<failures, until>>

Settled == {"answered", "failed", "timedOut"}
Phases == {"idle", "draining", "sent"} \cup Settled

TypeOK ==
    /\ socket \in 0..MaxSocket /\ made \in 0..MaxSocket
    /\ ready \in BOOLEAN /\ running \in BOOLEAN
    /\ phase \in [Request -> Phases] /\ pending \subseteq Request
    /\ sentOn \in [Request -> 0..MaxSocket] /\ endedAt \in [Request -> 0..MaxClock]
    /\ failures \subseteq Request
    /\ until \in 0..(MaxClock + MaxBackoff) /\ clock \in 0..MaxClock

Init ==
    /\ socket = 0 /\ made = 0 /\ ready = FALSE /\ running = TRUE
    /\ phase = [r \in Request |-> "idle"] /\ pending = {}
    /\ sentOn = [r \in Request |-> 0] /\ endedAt = [r \in Request |-> 0]
    /\ failures = {} /\ until = 0 /\ clock = 0

-----------------------------------------------------------------------------
Connected == socket # 0 /\ ready
Suspended == clock < until

\* The requests R settle as p; those not in R stay as they are.
Settle(R, p) ==
    /\ phase' = [r \in Request |-> IF r \in R THEN p ELSE phase[r]]
    /\ endedAt' = [r \in Request |-> IF r \in R THEN clock ELSE endedAt[r]]

RejectAllPending ==
    /\ Settle(pending, "failed")
    /\ pending' = {}

-----------------------------------------------------------------------------
(* request().                                                              *)

Admitted == Cardinality(pending) < MaxPending /\ ~Suspended /\ Connected

\* Up to the await of the drain.  The limit is tested here only.
Ask(r) ==
    /\ phase[r] = "idle"
    /\ Admitted
    /\ phase' = [phase EXCEPT ![r] = "draining"]
    /\ UNCHANGED <<connection, breaker, pending, sentOn, endedAt, clock>>

\* Too many pending, suspended, or not connected: none of these counts as a failure.
\* (A call whose signal is already aborted is one never made.)
Refuse(r) ==
    /\ phase[r] = "idle"
    /\ ~Admitted
    /\ Settle({r}, "failed")
    /\ UNCHANGED <<connection, breaker, pending, sentOn, clock>>

\* Slip of Sendable: the breaker is not looked at again.
SendableAtOnce == Connected

\* The checks after the drain.
Sendable == Connected /\ ~Suspended

Send(r) ==
    /\ phase[r] = "draining"
    /\ Sendable
    /\ phase' = [phase EXCEPT ![r] = "sent"]
    /\ pending' = pending \cup {r}
    /\ sentOn' = [sentOn EXCEPT ![r] = socket]
    /\ UNCHANGED <<connection, breaker, endedAt, clock>>

\* A check fails after the drain, the signal was aborted meanwhile, or ws.send throws.
SendFails(r) ==
    /\ phase[r] = "draining"
    /\ Settle({r}, "failed")
    /\ UNCHANGED <<connection, breaker, pending, sentOn, clock>>

\* The result closes the breaker again.
Answer(r) ==
    /\ r \in pending /\ sentOn[r] = socket
    /\ pending' = pending \ {r}
    /\ Settle({r}, "answered")
    /\ failures' = {} /\ until' = 0
    /\ UNCHANGED <<connection, sentOn, clock>>

\* An answer with an error, or the caller's AbortSignal: the breaker takes no notice.
EndWithoutResult(r) ==
    /\ r \in pending
    /\ pending' = pending \ {r}
    /\ Settle({r}, "failed")
    /\ UNCHANGED <<connection, breaker, sentOn, clock>>

\* The timeouts of the last Window ticks, and that of r.
RecentFailures(r) == {q \in failures : clock - endedAt[q] < Window} \cup {r}

\* The circuit opens: whatever else is pending fails at once.
OpenCircuit(r) ==
    /\ \E d \in 1..MaxBackoff : until' = clock + d
    /\ phase' = [q \in Request |-> IF q = r THEN "timedOut"
                                   ELSE IF q \in pending THEN "failed" ELSE phase[q]]
    /\ endedAt' = [q \in Request |-> IF q \in pending THEN clock ELSE endedAt[q]]
    /\ pending' = {}

\* The timer of a request, and the catch that runs before anything else can.
Timeout(r) ==
    /\ r \in pending
    /\ failures' = RecentFailures(r)
    /\ IF Cardinality(RecentFailures(r)) >= Threshold
       THEN OpenCircuit(r)
       ELSE Settle({r}, "timedOut") /\ pending' = pending \ {r} /\ UNCHANGED until
    /\ UNCHANGED <<connection, sentOn, clock>>

-----------------------------------------------------------------------------
(* The connection.                                                         *)

\* Slip of Connect: the new connection answers for the timeouts of the old one.
ConnectRemembering ==
    /\ running /\ made < MaxSocket
    /\ made' = made + 1 /\ socket' = made + 1 /\ ready' = TRUE
    /\ RejectAllPending
    /\ UNCHANGED <<running, breaker, sentOn, clock>>

\* handleExtensionConnection: a socket still there is replaced.
Connect ==
    /\ running /\ made < MaxSocket
    /\ made' = made + 1 /\ socket' = made + 1 /\ ready' = TRUE
    /\ RejectAllPending
    /\ failures' = {} /\ until' = 0
    /\ UNCHANGED <<running, sentOn, clock>>

\* The peer is gone; the event that says so is still to come.
Lose ==
    /\ Connected
    /\ ready' = FALSE
    /\ UNCHANGED <<socket, made, running, breaker, phase, pending, sentOn, endedAt, clock>>

\* "close" or "error" of the current socket.  A replaced one has no listeners left, and
\* the second of the two events finds the guard set.  The breaker stays as it is.
HandleDisconnect ==
    /\ socket # 0
    /\ socket' = 0 /\ ready' = FALSE
    /\ RejectAllPending
    /\ UNCHANGED <<made, running, breaker, sentOn, clock>>

\* disconnect(), in the shutdown of the bridge.
Disconnect ==
    /\ running
    /\ running' = FALSE /\ socket' = 0 /\ ready' = FALSE
    /\ RejectAllPending
    /\ UNCHANGED <<made, breaker, sentOn, clock>>

\* Time passes.
Tick ==
    /\ clock < MaxClock
    /\ clock' = clock + 1
    /\ UNCHANGED <<connection, breaker, phase, pending, sentOn, endedAt>>

Next ==
    \/ \E r \in Request : \/ Ask(r) \/ Refuse(r) \/ Send(r) \/ SendFails(r)
                          \/ Answer(r) \/ EndWithoutResult(r) \/ Timeout(r)
    \/ Connect \/ Lose \/ HandleDisconnect \/ Disconnect \/ Tick

Spec == Init /\ [][Next]_vars

-----------------------------------------------------------------------------
(* Whoever awaits an answer can still be given one: the calls that have been *)
(* sent and not settled are those of the map, each was sent on the socket    *)
(* that is current, and none waits behind an open circuit.  request() awaits *)
(* the drain between its checks and its entry in the map, so a disconnect, a *)
(* replacement or the opening of the circuit in that time passes it by.      *)
PendingAnswerable ==
    /\ pending = {r \in Request : phase[r] = "sent"}
    /\ \A r \in pending : sentOn[r] = socket /\ socket # 0 /\ ~Suspended

(* The circuit opens only for Threshold timeouts of the present connection   *)
(* within Window, with no answer since ("opens only if >= 3 timeouts occur   *)
(* within 30 seconds", the comment of the breaker): a connection does not    *)
(* pay for its predecessor, nor a recovered editor for what is long past.    *)
OpensForCause ==
    LET Counted == {r \in Request : /\ phase'[r] = "timedOut" /\ sentOn[r] = socket
                                    /\ clock - endedAt'[r] < Window
                                    /\ \A q \in Request : phase[q] = "answered" =>
                                          endedAt[q] <= endedAt'[r]}
    IN  until' > until => Cardinality(Counted) >= Threshold

CircuitOpensForCause == [][OpensForCause]_vars
=============================================================================
