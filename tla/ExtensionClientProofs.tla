----------------------- MODULE ExtensionClientProofs -----------------------
(***************************************************************************)
(* What ExtensionClient promises for any number of requests and            *)
(* connections, any limits and any length of time.                         *)
(*                                                                         *)
(* PendingAnswerable is inductive beside the types: whatever could make a  *)
(* pending request unanswerable empties the map in the same step.          *)
(* CircuitOpensForCause needs to know what the breaker's list stands for   *)
(* (Earned), and that it can be counted (FinitelyMany).                    *)
(***************************************************************************)
EXTENDS ExtensionClient, FiniteSetTheorems, TLAPS

\* What the breaker counts are timeouts of the present connection, none of them older
\* than an answer.
Earned ==
    /\ \A q \in failures : phase[q] = "timedOut" /\ (socket # 0 => sentOn[q] = socket)
    /\ \A q \in failures, a \in Request : phase[a] = "answered" => endedAt[a] <= endedAt[q]
    /\ \A a \in Request : endedAt[a] <= clock

\* The requests made so far.
Made == {r \in Request : phase[r] # "idle"}

FinitelyMany == IsFiniteSet(Made)

\* The inductive invariant.
Inv == TypeOK /\ PendingAnswerable /\ Earned /\ FinitelyMany

USE DEF Phases, Settled

\* The first state: nothing was made, nothing counted.
LEMMA InitInv == Init => Inv
<1> SUFFICES ASSUME Init  PROVE Inv
  OBVIOUS
<1>1. TypeOK
  <2>1. 0 \in 0..MaxSocket /\ 0 \in 0..MaxClock /\ 0 \in 0..(MaxClock + MaxBackoff)
    BY ExtensionAssumption
  <2> QED  BY <2>1 DEF Init, TypeOK
<1>2. PendingAnswerable /\ Earned
  BY DEF Init, PendingAnswerable, Earned
<1>3. Made = {}
  BY DEF Init, Made
<1> QED  BY <1>1, <1>2, <1>3, FS_EmptySet DEF Inv, FinitelyMany

\* A step makes one request more at the most.
LEMMA MadeOneMore == ASSUME FinitelyMany, NEW r, Made' \subseteq Made \cup {r}
                     PROVE  FinitelyMany'
<1>1. IsFiniteSet(Made \cup {r})
  BY FS_AddElement DEF FinitelyMany
<1> QED  BY <1>1, FS_Subset DEF FinitelyMany

\* Every step keeps the types.
LEMMA TypesKept == ASSUME TypeOK, [Next]_vars
                   PROVE  TypeOK'
<1> USE ExtensionAssumption DEF TypeOK, Settle, connection, breaker
<1>1. ASSUME NEW r \in Request, Ask(r) \/ Refuse(r) \/ Send(r) \/ SendFails(r)
      PROVE  TypeOK'
  BY <1>1 DEF Ask, Refuse, Send, SendFails
<1>2. ASSUME NEW r \in Request, Answer(r) \/ EndWithoutResult(r)  PROVE TypeOK'
  BY <1>2 DEF Answer, EndWithoutResult
<1>3. ASSUME NEW r \in Request, Timeout(r)  PROVE TypeOK'
  <2>1. failures' \subseteq Request
    BY <1>3 DEF Timeout, RecentFailures
  <2>2. CASE OpenCircuit(r)
    <3>1. PICK d \in 1..MaxBackoff : until' = clock + d
      BY <2>2 DEF OpenCircuit
    <3>2. until' \in 0..(MaxClock + MaxBackoff)
      BY <3>1
    <3> QED  BY <1>3, <2>1, <2>2, <3>2 DEF Timeout, OpenCircuit
  <2>3. CASE ~OpenCircuit(r)
    BY <1>3, <2>1, <2>3 DEF Timeout
  <2> QED  BY <2>2, <2>3
<1>4. CASE Connect
  BY <1>4 DEF Connect, RejectAllPending
<1>5. CASE HandleDisconnect \/ Disconnect
  <2>1. 0 \in 0..MaxSocket
    OBVIOUS
  <2>2. phase' \in [Request -> Phases] /\ endedAt' \in [Request -> 0..MaxClock] /\ pending' = {}
    BY <1>5 DEF HandleDisconnect, Disconnect, RejectAllPending
  <2> QED  BY <1>5, <2>1, <2>2 DEF HandleDisconnect, Disconnect
<1>6. CASE Tick
  BY <1>6 DEF Tick
<1>7. CASE Lose \/ UNCHANGED vars
  BY <1>7 DEF Lose, vars
<1> QED  BY <1>1, <1>2, <1>3, <1>4, <1>5, <1>6, <1>7 DEF Next

\* A step that settles some requests and takes no other into the map.
LEMMA AskInv == ASSUME Inv, TypeOK', NEW r \in Request, Ask(r) \/ Refuse(r) \/ SendFails(r)
                PROVE  Inv'
<1> USE DEF Inv, TypeOK, Ask, Refuse, SendFails, Settle, connection, breaker
<1>1. PendingAnswerable'
  BY DEF PendingAnswerable, Suspended
<1>2. Earned'
  BY DEF Earned
<1>3. Made' \subseteq Made \cup {r}
  BY DEF Made
<1> QED  BY <1>1, <1>2, <1>3, MadeOneMore

\* The one step into the map, on the socket that is current, past a closed breaker.
LEMMA SendInv == ASSUME Inv, TypeOK', NEW r \in Request, Send(r)
                 PROVE  Inv'
<1> USE DEF Inv, TypeOK, Send, Sendable, Connected, connection, breaker
<1>1. PendingAnswerable'
  BY DEF PendingAnswerable, Suspended
<1>2. Earned'
  BY DEF Earned
<1>3. Made' \subseteq Made \cup {r}
  BY DEF Made
<1> QED  BY <1>1, <1>2, <1>3, MadeOneMore

\* A request leaves the map as it settles, and an answer clears the breaker.
LEMMA EndInv == ASSUME Inv, TypeOK', NEW r \in Request, Answer(r) \/ EndWithoutResult(r)
                PROVE  Inv'
<1> USE DEF Inv, TypeOK, Answer, EndWithoutResult, Settle, connection, breaker
<1>1. PendingAnswerable'
  BY DEF PendingAnswerable, Suspended
<1>2. Earned'
  BY DEF Earned, PendingAnswerable
<1>3. Made' \subseteq Made \cup {r}
  BY DEF Made
<1> QED  BY <1>1, <1>2, <1>3, MadeOneMore

\* A timeout counts itself and, as it opens the breaker, empties the map.
LEMMA TimeoutInv == ASSUME Inv, TypeOK', NEW r \in Request, Timeout(r)
                    PROVE  Inv'
<1> USE DEF Inv, TypeOK, connection
<1>1. PendingAnswerable'
  BY DEF PendingAnswerable, Timeout, OpenCircuit, Settle, Suspended
<1>2. /\ \A q \in Request : q # r => phase'[q] = phase[q] \/ phase'[q] = "failed"
      /\ \A q \in Request : q \notin pending => phase'[q] = phase[q] /\ endedAt'[q] = endedAt[q]
      /\ \A q \in Request : endedAt'[q] = endedAt[q] \/ endedAt'[q] = clock
      /\ phase'[r] = "timedOut" /\ endedAt'[r] = clock /\ r \in pending
      /\ UNCHANGED <<socket, sentOn, clock>>
  BY DEF Timeout, OpenCircuit, Settle
<1>3. \A q \in failures : q \notin pending
  BY DEF Earned, PendingAnswerable
<1>4. failures' \subseteq failures \cup {r}
  BY DEF Timeout, RecentFailures
<1>5. Earned'
  <2>1. sentOn[r] = socket
    BY <1>2 DEF PendingAnswerable
  <2>2. \A q \in failures' : phase'[q] = "timedOut" /\ (socket' # 0 => sentOn'[q] = socket')
    BY <1>2, <1>3, <1>4, <2>1 DEF Earned
  <2>3. \A a \in Request : phase'[a] = "answered" =>
            phase[a] = "answered" /\ endedAt'[a] = endedAt[a]
    BY <1>2 DEF PendingAnswerable
  <2>4. \A q \in failures', a \in Request : phase'[a] = "answered" => endedAt'[a] <= endedAt'[q]
    BY <1>2, <1>3, <1>4, <2>3 DEF Earned
  <2>5. \A a \in Request : endedAt'[a] <= clock'
    BY <1>2 DEF Earned
  <2> QED  BY <2>2, <2>4, <2>5 DEF Earned
<1>6. Made' \subseteq Made \cup {r}
  BY <1>2 DEF Made, PendingAnswerable
<1> QED  BY <1>1, <1>5, <1>6, MadeOneMore

\* Whatever changes the socket rejects all that is pending, and a new one clears the
\* breaker.
LEMMA ConnectionInv == ASSUME Inv, TypeOK', Connect \/ HandleDisconnect \/ Disconnect
                       PROVE  Inv'
<1> USE DEF Inv, TypeOK, Connect, HandleDisconnect, Disconnect, RejectAllPending, Settle, breaker
<1>1. PendingAnswerable'
  BY DEF PendingAnswerable
<1>2. Earned'
  BY DEF Earned, PendingAnswerable
<1>3. Made' \subseteq Made
  BY DEF Made, PendingAnswerable
<1> QED  BY <1>1, <1>2, <1>3, FS_Subset DEF FinitelyMany

\* Time can only end a suspension, and a lost peer changes neither socket nor map.
LEMMA PassingInv == ASSUME Inv, TypeOK', Lose \/ Tick \/ UNCHANGED vars
                    PROVE  Inv'
<1> USE DEF Inv, TypeOK, Lose, Tick, vars, connection, breaker
<1>1. PendingAnswerable'
  BY DEF PendingAnswerable, Suspended
<1>2. Earned'
  BY DEF Earned
<1>3. Made' = Made
  BY DEF Made
<1> QED  BY <1>1, <1>2, <1>3 DEF FinitelyMany

\* A timeout opens the circuit for what it counts, all of it timeouts of this
\* connection, in the window and after every answer.
LEMMA TimeoutOpens == ASSUME Inv, NEW r \in Request, Timeout(r), until' > until
                      PROVE  OpensForCause
<1> DEFINE F == RecentFailures(r)
           Counted == {q \in Request : /\ phase'[q] = "timedOut" /\ sentOn[q] = socket
                                       /\ clock - endedAt'[q] < Window
                                       /\ \A a \in Request : phase[a] = "answered" =>
                                             endedAt[a] <= endedAt'[q]}
<1> USE DEF Inv, TypeOK
<1>1. Cardinality(F) >= Threshold /\ OpenCircuit(r)
  BY DEF Timeout
<1>2. /\ phase'[r] = "timedOut" /\ endedAt'[r] = clock /\ sentOn[r] = socket /\ socket # 0
      /\ \A q \in Request : phase'[q] = "timedOut" => q = r \/ phase[q] = "timedOut"
      /\ \A q \in failures : phase'[q] = phase[q] /\ endedAt'[q] = endedAt[q]
  BY <1>1 DEF Timeout, OpenCircuit, PendingAnswerable, Earned
<1>3. \A q \in F : q = r \/ (q \in failures /\ clock - endedAt[q] < Window)
  BY DEF RecentFailures
<1>4. F \subseteq Counted
  <2>1. r \in Counted
    BY <1>2, ExtensionAssumption DEF Earned
  <2>2. ASSUME NEW q \in failures, clock - endedAt[q] < Window  PROVE q \in Counted
    BY <1>2, <2>2 DEF Earned
  <2> HIDE DEF Counted, F
  <2> QED  BY <1>3, <2>1, <2>2
<1>5. IsFiniteSet(Counted)
  <2>1. phase[r] # "idle"
    BY DEF Timeout, PendingAnswerable
  <2>2. Counted \subseteq Made
    BY <1>2, <2>1 DEF Made
  <2> QED  BY <2>2, FS_Subset DEF FinitelyMany
<1>6. Cardinality(F) <= Cardinality(Counted)
  <2> HIDE DEF Counted, F
  <2> QED  BY <1>4, <1>5, FS_Subset
<1>7. IsFiniteSet(F)
  <2> HIDE DEF Counted, F
  <2> QED  BY <1>4, <1>5, FS_Subset
<1>8. Cardinality(F) \in Nat /\ Cardinality(Counted) \in Nat
  <2> HIDE DEF Counted, F
  <2> QED  BY <1>5, <1>7, FS_CardinalityType
<1>9. Cardinality(Counted) >= Threshold
  <2> HIDE DEF Counted, F
  <2> QED  BY <1>1, <1>6, <1>8, ExtensionAssumption
<1> QED  BY <1>9 DEF OpensForCause

\* No other step opens it.
LEMMA OnlyTimeoutsOpen ==
    ASSUME Inv, Next, until' > until
    PROVE  \E r \in Request : Timeout(r)
<1> USE DEF Inv, TypeOK, connection, breaker
<1>1. ASSUME NEW r \in Request,
             Ask(r) \/ Refuse(r) \/ Send(r) \/ SendFails(r) \/ Answer(r) \/ EndWithoutResult(r)
      PROVE  FALSE
  BY <1>1 DEF Ask, Refuse, Send, SendFails, Answer, EndWithoutResult
<1>2. ~(Connect \/ Lose \/ HandleDisconnect \/ Disconnect \/ Tick)
  BY DEF Connect, Lose, HandleDisconnect, Disconnect, Tick
<1> QED  BY <1>1, <1>2 DEF Next

\* The inductive invariant of extensionClient.ts's request map and breaker.
THEOREM ExtensionInvariant == Spec => []Inv
<1>1. Init => Inv
  BY InitInv
<1>2. Inv /\ [Next]_vars => Inv'
  <2> SUFFICES ASSUME Inv, [Next]_vars  PROVE Inv'
    OBVIOUS
  <2>1. TypeOK'
    BY TypesKept DEF Inv
  <2> QED  BY <2>1, AskInv, SendInv, EndInv, TimeoutInv, ConnectionInv, PassingInv DEF Next
<1> QED  BY <1>1, <1>2, PTL DEF Spec

\* The state of extensionClient.ts keeps its types.
THEOREM ExtensionTyped == Spec => []TypeOK
<1>1. Inv => TypeOK
  BY DEF Inv
<1> QED  BY <1>1, ExtensionInvariant, PTL

\* Every call that awaits an answer is in the map, was sent on the current socket and
\* does not wait behind an open circuit: request() tests socket and breaker again after
\* the drain, and every change of either rejects what is pending.
THEOREM PendingCanBeAnswered == Spec => []PendingAnswerable
<1>1. Inv => PendingAnswerable
  BY DEF Inv
<1> QED  BY <1>1, ExtensionInvariant, PTL

\* The breaker opens only for CIRCUIT_THRESHOLD timeouts of the present connection
\* within CIRCUIT_WINDOW_MS and since its last answer, whatever was pruned, cleared or
\* lost before.
THEOREM CircuitHasCause == Spec => CircuitOpensForCause
<1>1. Inv /\ [Next]_vars => [OpensForCause]_vars
  <2> SUFFICES ASSUME Inv, Next  PROVE OpensForCause
    BY DEF vars
  <2>1. CASE until' > until
    BY <2>1, OnlyTimeoutsOpen, TimeoutOpens
  <2>2. CASE ~(until' > until)
    BY <2>2 DEF OpensForCause
  <2> QED  BY <2>1, <2>2
<1> QED  BY <1>1, ExtensionInvariant, PTL DEF Spec, CircuitOpensForCause
=============================================================================
