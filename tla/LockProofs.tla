----------------------------- MODULE LockProofs -----------------------------
(***************************************************************************)
(* What the two locks promise: FileLock (one path inside a bridge) for any *)
(* number of tool calls and sessions, and FileLockSync (one lock file      *)
(* among processes), for any number of processes.                          *)
(*                                                                         *)
(* OneOwner is not inductive: a call is granted the lock because ONE       *)
(* promise resolved, the one it chained behind.  That this means every     *)
(* earlier slot is free is Ordered, which rests on Linked (each waiting    *)
(* call chained behind the slot just before its own) and on TailIsLast.    *)
(*                                                                         *)
(* ExclusiveUntilStale rests on who created the lock file: until one has   *)
(* been stale, its owner is whoever is inside (Ownership).                 *)
(***************************************************************************)
EXTENDS FileLock, FileLockSync, TLAPS

\* Places are handed out once, and calls without a slot have no place.
Placed ==
    /\ \A e \in Edit : place[e] <= slots
    /\ \A e, f \in Edit : place[e] = place[f] /\ place[e] > 0 => e = f
    /\ \A e \in Edit :
        pc[e] \in {"idle", "read", "nested", "nestedChecked"} =>
            place[e] = 0 /\ ~resolved[e]
    /\ \A e \in Edit :
        pc[e] \in {"queued", "bridging"} => place[e] > 0 /\ ~resolved[e]
    /\ \A e \in Edit : pc[e] \in Holding => place[e] > 0

\* A slot is free, or its call has the lock, only after all the earlier ones.
Ordered ==
    \A e, f \in Edit :
        /\ 0 < place[e] /\ place[e] < place[f]
        /\ resolved[f] \/ pc[f] \in Holding
        => resolved[e]

\* A waiting call awaits the slot just before its own, or there was none taken.
Linked ==
    \A f \in Edit : pc[f] \in {"queued", "bridging"} =>
        /\ prev[f] = None =>
            \A e \in Edit : 0 < place[e] /\ place[e] < place[f] => resolved[e]
        /\ prev[f] # None => place[prev[f]] > 0 /\ place[prev[f]] + 1 = place[f]

\* The map's entry is the last slot taken, and that is not free yet.
TailIsLast ==
    /\ tail = None => \A e \in Edit : place[e] > 0 => resolved[e]
    /\ tail # None =>
        /\ place[tail] = slots /\ ~resolved[tail]
        /\ pc[tail] \in {"queued", "bridging"} \cup Holding

\* A call that has the lock and was not aborted has not released it.
HeldUnlessAborted ==
    \A e \in Edit : pc[e] \in Holding /\ ~aborted[e] => ~resolved[e]

\* Unless a session was let in beside itself or a call was aborted, the call
\* that compared the mtime still has the version it read.
Current ==
    \/ reentered
    \/ \E e \in Edit : aborted[e]
    \/ /\ ~lost
       /\ \A e \in Edit : pc[e] = "checked" => base[e] = version
       /\ \A e \in Edit : pc[e] \notin {"nested", "nestedChecked"}

Chain == Placed /\ Ordered /\ Linked /\ TailIsLast /\ HeldUnlessAborted

Inv == TypeOK /\ Chain /\ Current

\* Two slots that are both owned are one.
LEMMA OwnerUnique == ASSUME TypeOK, Placed, Ordered PROVE OneOwner
BY DEF TypeOK, Placed, Ordered, OneOwner, Owns, Holding

\* Every step keeps the types.
LEMMA TypePreserved == ASSUME TypeOK, [Next]_vars PROVE TypeOK'
<1> USE EditAssumption DEF TypeOK, Goto, lockVars, fileVars, Places, Holding
<1>1. CASE UNCHANGED vars
  BY <1>1 DEF vars
<1>2. ASSUME NEW e \in Edit, Read(e) PROVE TypeOK'
  BY <1>2 DEF Read
<1>3. ASSUME NEW e \in Edit, Abort(e) PROVE TypeOK'
  BY <1>3 DEF Abort, FreeSlot
<1>4. ASSUME NEW e \in Edit, Step(e) PROVE TypeOK'
  <2>1. CASE TryGranted(e)
    BY <2>1 DEF TryGranted, TakeSlot
  <2>2. CASE TryRefused(e)
    BY <2>2 DEF TryRefused
  <2>3. CASE TryReentered(e)
    BY <2>3 DEF TryReentered
  <2>4. CASE AcquireQueue(e)
    BY <2>4 DEF AcquireQueue, TakeSlot
  <2>5. CASE AcquireGranted(e)
    BY <2>5 DEF AcquireGranted
  <2>6. CASE AcquireAborted(e)
    BY <2>6 DEF AcquireAborted, FreeSlot
  <2>7. CASE AcquireTimesOut(e)
    BY <2>7 DEF AcquireTimesOut
  <2>8. CASE Bridge(e)
    BY <2>8 DEF Bridge, FreeSlot
  <2>9. CASE Check(e)
    <3>1. \E to \in Places : pc' = [pc EXCEPT ![e] = to]
      BY <2>9 DEF Check
    <3> QED BY <2>9, <3>1 DEF Check
  <2>10. CASE Write(e)
    <3>1. lost' \in BOOLEAN /\ version' \in Nat
      BY <2>10 DEF Write
    <3> QED BY <2>10, <3>1 DEF Write
  <2>11. CASE Release(e)
    BY <2>11 DEF Release, FreeSlot
  <2> QED BY <1>4, <2>1, <2>2, <2>3, <2>4, <2>5, <2>6, <2>7, <2>8, <2>9, <2>10,
             <2>11 DEF Step
<1> QED BY <1>1, <1>2, <1>3, <1>4 DEF Next

\* When the promise a waiting call awaits is resolved, so is every earlier slot.
LEMMA TurnComes ==
  ASSUME TypeOK, Chain, NEW f \in Edit, pc[f] \in {"queued", "bridging"},
         PrevResolved(f)
  PROVE  \A e \in Edit : 0 < place[e] /\ place[e] < place[f] => resolved[e]
<1>1. CASE prev[f] = None
  BY <1>1 DEF Chain, Linked
<1>2. CASE prev[f] # None
  <2> DEFINE p == prev[f]
  <2>1. p \in Edit /\ resolved[p] /\ place[p] > 0 /\ place[p] + 1 = place[f]
    BY <1>2 DEF TypeOK, Chain, Linked, PrevResolved
  <2>2. ASSUME NEW e \in Edit, 0 < place[e], place[e] < place[f]
        PROVE  resolved[e]
    <3>1. place[e] \in Nat /\ place[p] \in Nat /\ place[f] \in Nat
      BY <2>1 DEF TypeOK
    <3>2. place[e] < place[p] \/ place[e] = place[p]
      BY <2>1, <2>2, <3>1
    <3>3. CASE place[e] < place[p]
      BY <2>1, <2>2, <3>3 DEF Chain, Ordered
    <3>4. CASE place[e] = place[p]
      <4>1. e = p
        BY <2>1, <2>2, <3>4 DEF Chain, Placed
      <4> QED BY <2>1, <4>1
    <3> QED BY <3>2, <3>3, <3>4
  <2> QED BY <2>2
<1> QED BY <1>1, <1>2

\* A call that takes the next slot leaves the chain in order.
LEMMA TakingKeepsChain ==
  ASSUME TypeOK, Chain, NEW e \in Edit, pc[e] = "read", TakeSlot(e),
         UNCHANGED <<resolved, aborted>>,
         \/ /\ tail = None /\ pc' = [pc EXCEPT ![e] = "granted"]
            /\ UNCHANGED prev
         \/ /\ pc' = [pc EXCEPT ![e] = "queued"]
            /\ prev' = [prev EXCEPT ![e] = tail]
  PROVE  Chain'
<1> USE EditAssumption DEF TypeOK, Chain, TakeSlot, Holding
<1>1. place[e] = 0 /\ ~resolved[e] /\ slots \in Nat
  BY DEF Placed
<1>2. place'[e] = slots + 1 /\ slots' = slots + 1 /\ tail' = e
      /\ \A f \in Edit \ {e} : place'[f] = place[f] /\ place[f] < slots + 1
                               /\ pc'[f] = pc[f] /\ prev'[f] = prev[f]
  BY DEF Placed
<1>3. pc'[e] \in {"granted", "queued"} /\ pc'[e] = pc'[e]
  OBVIOUS
<1>4. Placed'
  BY <1>1, <1>2, <1>3 DEF Placed
<1>5. pc'[e] = "granted" => \A f \in Edit : place[f] > 0 => resolved[f]
  BY DEF TailIsLast
<1>6. Ordered'
  BY <1>1, <1>2, <1>3, <1>5 DEF Ordered, Placed
<1>7. Linked'
  <2> SUFFICES ASSUME NEW f \in Edit, pc'[f] \in {"queued", "bridging"}
               PROVE  /\ prev'[f] = None =>
                          \A g \in Edit : 0 < place'[g] /\ place'[g] < place'[f]
                                          => resolved'[g]
                      /\ prev'[f] # None =>
                          place'[prev'[f]] > 0 /\ place'[prev'[f]] + 1 = place'[f]
    BY DEF Linked
  <2>1. CASE f = e
    <3>1. prev'[e] = tail
      BY <2>1, <1>3
    <3>2. CASE tail = None
      BY <2>1, <3>1, <3>2, <1>1, <1>2 DEF TailIsLast
    <3>3. CASE tail # None
      <4>1. tail \in Edit /\ place[tail] = slots /\ tail # e
        BY <3>3 DEF TailIsLast
      <4>2. slots > 0
        BY <3>3, <4>1 DEF TailIsLast, Placed
      <4> QED BY <2>1, <3>1, <3>3, <4>1, <4>2, <1>2
    <3> QED BY <3>2, <3>3
  <2>2. CASE f # e
    <3>1. pc[f] \in {"queued", "bridging"} /\ prev'[f] = prev[f]
          /\ place'[f] = place[f] /\ place[f] <= slots
      BY <2>2, <1>2 DEF Placed
    <3>2. CASE prev[f] = None
      BY <3>1, <3>2, <1>2 DEF Linked
    <3>3. CASE prev[f] # None
      <4>1. prev[f] \in Edit /\ place[prev[f]] > 0 /\ place[prev[f]] + 1 = place[f]
        BY <3>1, <3>3 DEF Linked
      <4>2. prev[f] # e
        BY <4>1, <1>1
      <4> QED BY <3>1, <3>3, <4>1, <4>2, <1>2
    <3> QED BY <3>2, <3>3
  <2> QED BY <2>1, <2>2
<1>8. TailIsLast'
  BY <1>1, <1>2, <1>3 DEF TailIsLast
<1>9. HeldUnlessAborted'
  BY <1>1, <1>2 DEF HeldUnlessAborted
<1> QED BY <1>4, <1>6, <1>7, <1>8, <1>9

\* A call that gives up the slot it is due leaves the chain in order.
LEMMA FreeingKeepsChain ==
  ASSUME TypeOK, Chain, NEW e \in Edit, FreeSlot(e), place[e] > 0,
         \A f \in Edit : 0 < place[f] /\ place[f] < place[e] => resolved[f],
         UNCHANGED <<prev, place, slots>>,
         NEW to, pc' = [pc EXCEPT ![e] = to],
         to \in {"done", "failed"} \/ (to = pc[e] /\ to \in Holding),
         aborted' = aborted \/ (aborted' = [aborted EXCEPT ![e] = TRUE]
                                /\ to \in Holding),
         to \in Holding => aborted'[e]
  PROVE  Chain'
<1> USE EditAssumption DEF TypeOK, Chain, FreeSlot, Holding
<1>1. resolved'[e] /\ \A f \in Edit \ {e} :
         resolved'[f] = resolved[f] /\ pc'[f] = pc[f] /\ aborted'[f] = aborted[f]
  OBVIOUS
<1>2. pc'[e] \in {"done", "failed"} \/ (pc'[e] = pc[e] /\ pc[e] \in Holding)
  OBVIOUS
<1>3. Placed'
  BY <1>1, <1>2 DEF Placed
<1>4. Ordered'
  BY <1>1, <1>2 DEF Ordered
<1>5. Linked'
  <2> SUFFICES ASSUME NEW f \in Edit, pc'[f] \in {"queued", "bridging"}
               PROVE  /\ prev'[f] = None =>
                          \A g \in Edit : 0 < place'[g] /\ place'[g] < place'[f]
                                          => resolved'[g]
                      /\ prev'[f] # None =>
                          place'[prev'[f]] > 0 /\ place'[prev'[f]] + 1 = place'[f]
    BY DEF Linked
  <2>1. f # e /\ pc[f] \in {"queued", "bridging"}
    BY <1>1, <1>2
  <2> QED BY <2>1, <1>1 DEF Linked
<1>6. TailIsLast'
  <2>1. CASE tail = e
    <3>1. tail' = None /\ place[e] = slots
      BY <2>1 DEF TailIsLast
    <3>2. ASSUME NEW f \in Edit, place[f] > 0 PROVE resolved'[f]
      <4>1. place[f] <= slots /\ place[f] \in Nat /\ slots \in Nat
        BY DEF Placed
      <4>2. CASE place[f] = slots
        BY <3>1, <3>2, <4>2, <1>1 DEF Placed
      <4>3. CASE place[f] < slots
        BY <3>1, <3>2, <4>3, <1>1
      <4> QED BY <4>1, <4>2, <4>3
    <3> QED BY <3>1, <3>2 DEF TailIsLast
  <2>2. CASE tail # e
    BY <2>2, <1>1 DEF TailIsLast
  <2> QED BY <2>1, <2>2
<1>7. HeldUnlessAborted'
  BY <1>1, <1>2 DEF HeldUnlessAborted
<1> QED BY <1>3, <1>4, <1>5, <1>6, <1>7

\* A step that moves one call without touching the slots keeps the chain.
LEMMA MovingKeepsChain ==
  ASSUME TypeOK, Chain, NEW e \in Edit, NEW to, pc' = [pc EXCEPT ![e] = to],
         UNCHANGED <<tail, prev, resolved, aborted, place, slots>>,
         \/ pc[e] \in {"idle", "read", "nested", "nestedChecked"}
            /\ to \in {"read", "nested", "nestedChecked", "done", "failed"}
         \/ pc[e] \in Holding /\ to \in Holding
         \/ pc[e] = "queued" /\ to = "bridging"
         \/ /\ pc[e] = "queued" /\ to = "granted"
            /\ \A f \in Edit : 0 < place[f] /\ place[f] < place[e] => resolved[f]
  PROVE  Chain'
<1> USE EditAssumption DEF TypeOK, Chain, Holding
<1>1. pc'[e] = to /\ \A f \in Edit \ {e} : pc'[f] = pc[f]
  OBVIOUS
<1>2. Placed'
  BY <1>1 DEF Placed
<1>3. Ordered'
  BY <1>1 DEF Ordered, Placed
<1>4. Linked'
  <2>1. \A f \in Edit : pc'[f] \in {"queued", "bridging"}
                        => pc[f] \in {"queued", "bridging"}
    BY <1>1
  <2> QED BY <2>1 DEF Linked
<1>5. TailIsLast'
  BY <1>1 DEF TailIsLast, Placed
<1>6. HeldUnlessAborted'
  BY <1>1 DEF HeldUnlessAborted, Placed
<1> QED BY <1>2, <1>3, <1>4, <1>5, <1>6

\* Every step keeps the chain.
LEMMA ChainPreserved == ASSUME TypeOK, Chain, [Next]_vars PROVE Chain'
<1> USE DEF Goto, lockVars, fileVars
<1>1. CASE UNCHANGED vars
  BY <1>1 DEF vars, Chain, Placed, Ordered, Linked, TailIsLast, HeldUnlessAborted
<1>2. ASSUME NEW e \in Edit, Read(e) PROVE Chain'
  BY <1>2, MovingKeepsChain DEF Read
<1>3. ASSUME NEW e \in Edit, Abort(e) PROVE Chain'
  <2>1. CASE pc[e] = "queued"
    <3>1. UNCHANGED <<tail, pc, prev, resolved, place, slots>>
          /\ aborted' = [aborted EXCEPT ![e] = TRUE]
      BY <1>3, <2>1 DEF Abort
    <3>2. HeldUnlessAborted'
      BY <3>1 DEF HeldUnlessAborted, Chain, TypeOK
    <3> QED BY <3>1, <3>2 DEF Chain, Placed, Ordered, Linked, TailIsLast
  <2>2. CASE pc[e] \in Holding
    <3>1. FreeSlot(e) /\ UNCHANGED <<pc, prev, place, slots>>
          /\ aborted' = [aborted EXCEPT ![e] = TRUE]
      BY <1>3, <2>2 DEF Abort, Holding
    <3>2. place[e] > 0 /\ aborted'[e]
          /\ \A f \in Edit : 0 < place[f] /\ place[f] < place[e] => resolved[f]
      BY <2>2, <3>1 DEF Chain, Placed, Ordered, TypeOK
    <3>3. pc' = [pc EXCEPT ![e] = pc[e]]
      BY <3>1 DEF TypeOK
    <3> QED BY <2>2, <3>1, <3>2, <3>3, FreeingKeepsChain
  <2> QED BY <1>3, <2>1, <2>2 DEF Abort
<1>4. ASSUME NEW e \in Edit, Step(e) PROVE Chain'
  <2>1. CASE TryGranted(e)
    BY <2>1, TakingKeepsChain DEF TryGranted
  <2>2. CASE TryRefused(e)
    BY <2>2, MovingKeepsChain DEF TryRefused
  <2>3. CASE TryReentered(e)
    BY <2>3, MovingKeepsChain DEF TryReentered
  <2>4. CASE AcquireQueue(e)
    BY <2>4, TakingKeepsChain DEF AcquireQueue
  <2>5. CASE AcquireGranted(e)
    <3>1. \A f \in Edit : 0 < place[f] /\ place[f] < place[e] => resolved[f]
      BY <2>5, TurnComes DEF AcquireGranted
    <3> QED BY <2>5, <3>1, MovingKeepsChain DEF AcquireGranted
  <2>6. CASE AcquireAborted(e)
    <3>1. \A f \in Edit : 0 < place[f] /\ place[f] < place[e] => resolved[f]
      BY <2>6, TurnComes DEF AcquireAborted
    <3>2. place[e] > 0
      BY <2>6 DEF AcquireAborted, Chain, Placed
    <3>3. "failed" \notin Holding
      BY DEF Holding
    <3> QED BY <2>6, <3>1, <3>2, <3>3, FreeingKeepsChain DEF AcquireAborted
  <2>7. CASE AcquireTimesOut(e)
    BY <2>7, MovingKeepsChain DEF AcquireTimesOut
  <2>8. CASE Bridge(e)
    <3>1. \A f \in Edit : 0 < place[f] /\ place[f] < place[e] => resolved[f]
      BY <2>8, TurnComes DEF Bridge
    <3>2. place[e] > 0
      BY <2>8 DEF Bridge, Chain, Placed
    <3>3. "failed" \notin Holding
      BY DEF Holding
    <3> QED BY <2>8, <3>1, <3>2, <3>3, FreeingKeepsChain DEF Bridge
  <2>9. CASE Check(e)
    <3>1. CASE pc[e] = "granted"
      <4>1. \E to \in Holding : pc' = [pc EXCEPT ![e] = to]
        BY <2>9, <3>1 DEF Check, Holding
      <4> QED BY <2>9, <3>1, <4>1, MovingKeepsChain DEF Check, Holding
    <3>2. CASE pc[e] = "nested"
      <4>1. \E to \in {"nestedChecked", "failed"} : pc' = [pc EXCEPT ![e] = to]
        BY <2>9, <3>2 DEF Check
      <4> QED BY <2>9, <3>2, <4>1, MovingKeepsChain DEF Check
    <3> QED BY <2>9, <3>1, <3>2 DEF Check
  <2>10. CASE Write(e)
    <3>1. CASE pc[e] = "checked"
      BY <2>10, <3>1, MovingKeepsChain DEF Write, Holding
    <3>2. CASE pc[e] = "nestedChecked"
      BY <2>10, <3>2, MovingKeepsChain DEF Write
    <3> QED BY <2>10, <3>1, <3>2 DEF Write
  <2>11. CASE Release(e)
    <3>1. place[e] > 0
          /\ \A f \in Edit : 0 < place[f] /\ place[f] < place[e] => resolved[f]
      BY <2>11 DEF Release, Holding, Chain, Placed, Ordered
    <3>2. "done" \notin Holding
      BY DEF Holding
    <3> QED BY <2>11, <3>1, <3>2, FreeingKeepsChain DEF Release
  <2> QED BY <1>4, <2>1, <2>2, <2>3, <2>4, <2>5, <2>6, <2>7, <2>8, <2>9, <2>10,
             <2>11 DEF Step
<1> QED BY <1>1, <1>2, <1>3, <1>4 DEF Next

\* A checked call is not overtaken by another writer.
LEMMA CurrentPreserved ==
  ASSUME TypeOK, Chain, Current, [Next]_vars PROVE Current'
<1> USE EditAssumption DEF TypeOK, Goto, lockVars, fileVars
<1>1. CASE UNCHANGED vars
  BY <1>1 DEF vars, Current
<1>2. ASSUME NEW e \in Edit, Read(e) PROVE Current'
  BY <1>2 DEF Read, Current
<1>3. ASSUME NEW e \in Edit, Abort(e) PROVE Current'
  <2>1. aborted'[e]
    BY <1>3 DEF Abort
  <2> QED BY <2>1 DEF Current
<1>4. ASSUME NEW e \in Edit, Step(e) PROVE Current'
  <2>1. CASE TryReentered(e)
    BY <2>1 DEF TryReentered, Current
  <2>2. CASE Check(e)
    BY <2>2 DEF Check, Current
  <2>3. CASE Write(e)
    <3>1. CASE reentered \/ \E f \in Edit : aborted[f]
      BY <2>3, <3>1 DEF Write, Current
    <3>2. CASE ~(reentered \/ \E f \in Edit : aborted[f])
      <4>1. pc[e] = "checked" /\ base[e] = version /\ ~lost
        BY <2>3, <3>2 DEF Write, Current
      <4>2. ASSUME NEW f \in Edit, pc[f] = "checked" PROVE f = e
        <5>1. Owns(e) /\ Owns(f)
          BY <3>2, <4>1, <4>2 DEF Owns, Holding, Chain, HeldUnlessAborted
        <5> QED BY <5>1, OwnerUnique DEF OneOwner, Chain
      <4>3. ~lost' /\ pc' = [pc EXCEPT ![e] = "leaving"]
        BY <2>3, <4>1 DEF Write
      <4>4. \A f \in Edit : pc'[f] # "checked"
        BY <4>2, <4>3
      <4>5. \A f \in Edit : pc'[f] \notin {"nested", "nestedChecked"}
        BY <3>2, <4>3 DEF Current
      <4> QED BY <4>3, <4>4, <4>5 DEF Current
    <3> QED BY <3>1, <3>2
  <2>4. CASE TryGranted(e)
    BY <2>4 DEF TryGranted, Current
  <2>5. CASE TryRefused(e) \/ AcquireGranted(e) \/ AcquireTimesOut(e)
    BY <2>5 DEF TryRefused, AcquireGranted, AcquireTimesOut, Current
  <2>6. CASE AcquireQueue(e)
    BY <2>6 DEF AcquireQueue, Current
  <2>7. CASE AcquireAborted(e) \/ Bridge(e)
    BY <2>7 DEF AcquireAborted, Bridge, Current
  <2>8. CASE Release(e)
    BY <2>8 DEF Release, Current
  <2> QED BY <1>4, <2>1, <2>2, <2>3, <2>4, <2>5, <2>6, <2>7, <2>8 DEF Step
<1> QED BY <1>1, <1>2, <1>3, <1>4 DEF Next

\* The inductive invariant holds in every state of every behaviour.
THEOREM FileLockInvariant == Spec => []Inv
<1>1. Init => Inv
  <2> SUFFICES ASSUME Init PROVE Inv
    OBVIOUS
  <2> USE EditAssumption DEF Init
  <2>1. TypeOK
    BY DEF TypeOK, Places
  <2>2. Placed /\ Ordered /\ Linked
    BY DEF Placed, Ordered, Linked, Holding
  <2>3. TailIsLast /\ HeldUnlessAborted /\ Current
    BY DEF TailIsLast, HeldUnlessAborted, Current, Holding
  <2> QED BY <2>1, <2>2, <2>3 DEF Inv, Chain
<1>2. Inv /\ [Next]_vars => Inv'
  BY TypePreserved, ChainPreserved, CurrentPreserved DEF Inv
<1> QED BY <1>1, <1>2, PTL DEF Spec

\* The types of the lock's maps and of the calls, for any number of calls.
THEOREM FileLockTyped == Spec => []TypeOK
<1>1. Inv => TypeOK
  BY DEF Inv
<1> QED BY <1>1, FileLockInvariant, PTL

\* fileLock.ts grants a file to one call at a time, however many queue, time
\* out, are aborted or refused.
THEOREM FileLockExcludes == Spec => []OneOwner
<1>1. Inv => OneOwner
  BY OwnerUnique DEF Inv, Chain
<1> QED BY <1>1, FileLockInvariant, PTL

\* The lock is granted in the order in which acquire and tryAcquire were called.
THEOREM FileLockInOrder == Spec => []InOrder
<1>1. Inv => InOrder
  BY DEF Inv, Chain, Ordered, InOrder
<1> QED BY <1>1, FileLockInvariant, PTL

\* A path's map entry always belongs to a call that will clear it.
THEOREM FileLockNoLeak == Spec => []EntryHasOwner
<1>1. Inv => EntryHasOwner
  BY DEF Inv, Chain, TailIsLast, EntryHasOwner, Owns
<1> QED BY <1>1, FileLockInvariant, PTL

\* An edit under the lock never overwrites a version it has not read, if no
\* session was let in beside itself and no call was aborted.
THEOREM EditsAreCurrent == Spec => []WritesAreCurrent
<1>1. Inv => WritesAreCurrent
  BY DEF Inv, Current, WritesAreCurrent
<1> QED BY <1>1, FileLockInvariant, PTL

(***************************************************************************)
(* The lock file among processes.                                          *)
(***************************************************************************)

USE DEF LockFile, LockPlaces, Waiting

\* While no lock file has been stale the process inside owns the lock file,
\* and no process is between the stat of a stale lock and its unlink.
Ownership ==
    ~everAged =>
        /\ lock # NoLock => ~lock.aged
        /\ \A p \in Process : at[p] = "inside" => lock # NoLock /\ lock.owner = p
        /\ \A p \in Process : at[p] # "unlink"

SyncInv == LockTypeOK /\ Ownership

\* The state has the types the module declares after every step.
LEMMA SyncTypePreserved == ASSUME LockTypeOK, [LockNext]_syncVars PROVE LockTypeOK'
<1> USE LockAssumption DEF LockTypeOK, MoveTo
<1>1. CASE UNCHANGED syncVars
  BY <1>1 DEF syncVars
<1>2. ASSUME NEW p \in Process, Call(p) PROVE LockTypeOK'
  BY <1>2 DEF Call
<1>3. ASSUME NEW p \in Process, LockStep(p) PROVE LockTypeOK'
  <2>1. CASE OpenExclusive(p)
    BY <2>1 DEF OpenExclusive
  <2>2. CASE OpenContended(p)
    BY <2>2 DEF OpenContended
  <2>3. CASE TestDeadline(p)
    BY <2>3 DEF TestDeadline
  <2>4. CASE Stat(p)
    BY <2>4 DEF Stat
  <2>5. CASE Unlink(p)
    BY <2>5 DEF Unlink
  <2>6. CASE Leave(p)
    BY <2>6 DEF Leave
  <2> QED BY <1>3, <2>1, <2>2, <2>3, <2>4, <2>5, <2>6 DEF LockStep
<1>4. ASSUME NEW p \in Process, DeadlinePasses(p) PROVE LockTypeOK'
  BY <1>4 DEF DeadlinePasses
<1>5. ASSUME NEW p \in Process, Crash(p) PROVE LockTypeOK'
  <2>1. lock' \in LockFile \cup {NoLock}
    BY <1>5 DEF Crash
  <2>2. late' \in [Process -> BOOLEAN]
    BY <1>5 DEF Crash
  <2>3. at' \in [Process -> LockPlaces] /\ crashes' \in Nat /\ everAged' \in BOOLEAN
    BY <1>5 DEF Crash
  <2> QED BY <2>1, <2>2, <2>3
<1>6. CASE LockAges
  BY <1>6 DEF LockAges
<1> QED BY <1>1, <1>2, <1>3, <1>4, <1>5, <1>6 DEF LockNext

\* A step keeps the lock file with the process that is inside.
LEMMA OwnershipPreserved == ASSUME SyncInv, [LockNext]_syncVars PROVE Ownership'
<1> USE LockAssumption DEF SyncInv, LockTypeOK, Ownership, MoveTo
<1>1. CASE UNCHANGED syncVars
  BY <1>1 DEF syncVars
<1>2. ASSUME NEW p \in Process, Call(p) PROVE Ownership'
  BY <1>2 DEF Call
<1>3. ASSUME NEW p \in Process, LockStep(p) PROVE Ownership'
  <2>1. CASE OpenExclusive(p)
    <3> DEFINE made == [owner |-> p, live |-> TRUE, aged |-> FALSE]
    <3>0. lock' = made /\ made \in LockFile
      BY <2>1 DEF OpenExclusive
    <3>1. lock' # NoLock /\ lock'.owner = p /\ lock'.aged = FALSE
      BY <3>0
    <3>2. at' = [at EXCEPT ![p] = "inside"] /\ lock = NoLock /\ everAged' = everAged
      BY <2>1 DEF OpenExclusive
    <3> QED BY <3>1, <3>2
  <2>2. CASE OpenContended(p)
    BY <2>2 DEF OpenContended
  <2>3. CASE TestDeadline(p)
    BY <2>3 DEF TestDeadline
  <2>4. CASE Stat(p)
    BY <2>4 DEF Stat
  <2>5. CASE Unlink(p)
    BY <2>5 DEF Unlink
  <2>6. CASE Leave(p)
    BY <2>6 DEF Leave
  <2> QED BY <1>3, <2>1, <2>2, <2>3, <2>4, <2>5, <2>6 DEF LockStep
<1>4. ASSUME NEW p \in Process, DeadlinePasses(p) PROVE Ownership'
  BY <1>4 DEF DeadlinePasses
<1>5. ASSUME NEW p \in Process, Crash(p) PROVE Ownership'
  BY <1>5 DEF Crash
<1>6. CASE LockAges
  BY <1>6 DEF LockAges
<1> QED BY <1>1, <1>2, <1>3, <1>4, <1>5, <1>6 DEF LockNext

\* The inductive invariant holds in every state of every behaviour.
THEOREM LockInvariant == LockSpec => []SyncInv
<1>1. LockInit => SyncInv
  <2> SUFFICES ASSUME LockInit PROVE SyncInv
    OBVIOUS
  <2>1. LockTypeOK
    BY LockAssumption DEF LockInit, LockTypeOK
  <2>2. Ownership
    BY LockAssumption DEF LockInit, Ownership
  <2> QED BY <2>1, <2>2 DEF SyncInv
<1>2. SyncInv /\ [LockNext]_syncVars => SyncInv'
  BY SyncTypePreserved, OwnershipPreserved DEF SyncInv
<1> QED BY <1>1, <1>2, PTL DEF LockSpec

\* The types of fileLockSync.ts's state, for any set of processes.
THEOREM LockTyped == LockSpec => []LockTypeOK
<1>1. SyncInv => LockTypeOK
  BY DEF SyncInv
<1> QED BY <1>1, LockInvariant, PTL

\* Until a lock outlives staleLockMs no two processes of any number of them are
\* in a critical section together, whatever crashes, timeouts and EPERMs occur.
THEOREM LockExcludes == LockSpec => []ExclusiveUntilStale
<1>1. SyncInv => ExclusiveUntilStale
  BY DEF SyncInv, Ownership, ExclusiveUntilStale, MutualExclusion
<1> QED BY <1>1, LockInvariant, PTL
=============================================================================
