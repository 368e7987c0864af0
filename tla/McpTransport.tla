---------------------------- MODULE McpTransport ----------------------------
(***************************************************************************)
(* McpTransport (src/src/transport.ts): the per-session side of MCP.  Its  *)
(* fields are a record; attach, detachSoft, detach and the steps of a      *)
(* tools/call are operators from one value of the record to the next.  The *)
(* modules McpSession (WebSocket) and HttpSession (streamable HTTP) use it,*)
(* each with its own sockets.                                              *)
(*                                                                         *)
(* A call is refused before it takes a slot (not initialized, duplicate    *)
(* id, rate limit, too many at once, arguments), or it takes its three     *)
(* slots (controller, tool name, activeToolCalls), waits for the approval  *)
(* gate, runs, and releases them on every way out.                         *)
(***************************************************************************)
EXTENDS Naturals, FiniteSets

CONSTANTS
    Call,               \* tools/call requests
    IdOf,               \* the JSON-RPC id each carries; ids can repeat
    MaxConcurrentTools, \* MAX_CONCURRENT_TOOLS
    NoWs                \* activeWs = null

ASSUME TransportAssumption ==
    /\ MaxConcurrentTools \in Nat
    /\ DOMAIN IdOf = Call

Constructed ==
    [gen |-> 0,             \* generation
     ws |-> NoWs,           \* activeWs, and its listener
     initialized |-> FALSE,
     inFlight |-> {},       \* inFlightControllers, by call
     active |-> 0,          \* activeToolCalls
     soft |-> {},           \* detachSoftInflight: ids
     elicits |-> {}]        \* pendingElicitations, by the socket each was sent on

\* The types of the fields, given the sockets there are.
TransportRecord(Sockets) ==
    [gen : Nat, ws : Sockets \cup {NoWs}, initialized : BOOLEAN, inFlight : SUBSET Call,
     active : Nat, soft : SUBSET {IdOf[c] : c \in Call}, elicits : SUBSET Sockets]

\* inFlightControllers.keys()
Ids(t) == {IdOf[c] : c \in t.inFlight}

\* attach: a new generation, on which the old listener is silent.
Attach(t, ws, preserveInitialized) ==
    [t EXCEPT !.ws = ws, !.gen = @ + 1,
              !.initialized = @ /\ preserveInitialized]

\* A mutant: the snapshot of what is in flight is not taken.
DetachSoftForgetting(t) == [t EXCEPT !.elicits = {}]

\* detachSoft: calls go on, elicitations are rejected.
DetachSoft(t) == [t EXCEPT !.elicits = {}, !.soft = @ \cup Ids(t)]

\* detach: all controllers are aborted, the counters are reset.
Detach(t) ==
    [t EXCEPT !.ws = NoWs, !.initialized = FALSE, !.inFlight = {},
              !.active = 0, !.soft = {}, !.elicits = {}]

\* A mutant: a second call may take an id that is in flight.
AdmitsReusingIds(t, c) == t.initialized /\ t.active < MaxConcurrentTools

\* tools/call gets as far as its slots: initialized, id free, room.
Admits(t, c) ==
    /\ t.initialized
    /\ IdOf[c] \notin Ids(t)
    /\ t.active < MaxConcurrentTools

Take(t, c) == [t EXCEPT !.inFlight = @ \cup {c}, !.active = @ + 1]

\* wasSoftPreserved, of a call that was taken under generation gen.
Preserved(t, c) == IdOf[c] \in t.soft

\* Every way out of a call: kill switch, gate, handler or timeout.  Slots of an older
\* generation are released only if detachSoft carried them over.
Release(t, c, gen) ==
    LET rest == [t EXCEPT !.soft = @ \ {IdOf[c]}] IN
    IF gen = t.gen \/ Preserved(t, c)
    THEN [rest EXCEPT !.inFlight = {d \in @ : IdOf[d] # IdOf[c]},
                      !.active = IF @ > 0 THEN @ - 1 ELSE 0]
    ELSE rest

\* A mutant: the answer goes where the request came from.
TargetAsAsked(t, c, ws) == ws

\* responseTarget of a call that came in on ws.
Target(t, c, ws) == IF Preserved(t, c) /\ t.ws # NoWs THEN t.ws ELSE ws
=============================================================================
