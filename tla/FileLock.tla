------------------------------ MODULE FileLock ------------------------------
(***************************************************************************)
(* FileLock (src/src/fileLock.ts), the promise-chain mutex of a bridge, and*)
(* the edit it guards: the direct-to-disk path of editText and replaceBlock*)
(* (src/src/tools).  One file; locks of different paths are independent.   *)
(*                                                                         *)
(* An edit is one tool call.  A tool call of an agent session takes the    *)
(* lock with tryAcquire, one without a session with acquire, as both tools *)
(* do.  An action is what runs between two awaits of one call.             *)
(***************************************************************************)
EXTENDS Naturals

CONSTANTS
    Edit,           \* the tool calls
    Session,        \* the agent sessions
    NoSession,      \* a call without one
    SessionOf,      \* the session of each call
    Cancellable,    \* the calls of acquire that pass an AbortSignal (no tool does)
    None            \* no promise in the map, no holder

ASSUME EditAssumption ==
    /\ SessionOf \in [Edit -> Session \cup {NoSession}]
    /\ NoSession \notin Session
    /\ Cancellable \subseteq {e \in Edit : SessionOf[e] = NoSession}
    /\ None \notin Edit /\ None \notin Session

VARIABLES
    tail,       \* locks.get(path): the call whose `next` promise it is
    holder,     \* holders.get(path)
    pc,         \* where each call is
    prev,       \* the promise a call of acquire awaits, None once it was free
    resolved,   \* whether a call's `next` promise is resolved
    aborted,    \* whether a call's AbortSignal has fired
    place,      \* history: the order in which calls took a slot, 0 for none
    slots,      \* history: how many have
    version,    \* the file: its mtime, one tick per write
    base,       \* the version a call read
    reentered,  \* history: a session was granted the lock while it held it
    lost        \* history: a write replaced a version its call had not read

lockVars == <<tail, holder, prev, resolved, aborted, place, slots, reentered>>
fileVars == <<version, base, lost>>
vars == <<tail, holder, pc, prev, resolved, aborted, place, slots, reentered,
          version, base, lost>>

\* "read": content and mtime are known, the lock not yet asked for; "queued":
\* awaiting the previous holder; "bridging": timed out, the slot still to be
\* handed over; "granted": has the lock, the mtime not checked again yet;
\* "checked": about to write; "nested" and "nestedChecked": the same for a
\* call let in beside its own session; "leaving": has written, or found the file
\* changed, and is about to release.
Places == {"idle", "read", "queued", "bridging", "granted", "checked",
           "nested", "nestedChecked", "leaving", "done", "failed"}

Holding == {"granted", "checked", "leaving"}

Init ==
    /\ tail = None
    /\ holder = None
    /\ pc = [e \in Edit |-> "idle"]
    /\ prev = [e \in Edit |-> None]
    /\ resolved = [e \in Edit |-> FALSE]
    /\ aborted = [e \in Edit |-> FALSE]
    /\ place = [e \in Edit |-> 0]
    /\ slots = 0
    /\ version = 1
    /\ base = [e \in Edit |-> 0]
    /\ reentered = FALSE
    /\ lost = FALSE

Goto(e, to) == pc' = [pc EXCEPT ![e] = to]

\* A call registers its promise as the new tail.
TakeSlot(e) ==
    /\ tail' = e
    /\ slots' = slots + 1
    /\ place' = [place EXCEPT ![e] = slots + 1]

\* release(), and the map entry is dropped if it is still this call's.
FreeSlot(e) ==
    /\ resolved' = [resolved EXCEPT ![e] = TRUE]
    /\ tail' = IF tail = e THEN None ELSE tail

(***************************************************************************)
(* tryAcquire                                                              *)
(***************************************************************************)

\* The map has no entry: granted at once.
TryGranted(e) ==
    /\ pc[e] = "read"
    /\ SessionOf[e] # NoSession
    /\ tail = None
    /\ TakeSlot(e)
    /\ holder' = SessionOf[e]
    /\ Goto(e, "granted")
    /\ UNCHANGED <<prev, resolved, aborted, reentered, fileVars>>

\* Held by another session, or by a call of acquire ("unknown-session").
TryRefused(e) ==
    /\ pc[e] = "read"
    /\ SessionOf[e] # NoSession
    /\ tail # None
    /\ holder # SessionOf[e]
    /\ Goto(e, "failed")
    /\ UNCHANGED <<lockVars, fileVars>>

\* Held by the same session: let in, with a release that does nothing.
TryReentered(e) ==
    /\ pc[e] = "read"
    /\ SessionOf[e] # NoSession
    /\ tail # None
    /\ holder = SessionOf[e]
    /\ reentered' = TRUE
    /\ Goto(e, "nested")
    /\ UNCHANGED <<tail, holder, prev, resolved, aborted, place, slots, fileVars>>

(***************************************************************************)
(* acquire                                                                 *)
(***************************************************************************)

\* A mutant: the call does not see a slot whose call has timed out.
AcquireQueueSkipping(e) ==
    /\ pc[e] = "read"
    /\ SessionOf[e] = NoSession
    /\ prev' = [prev EXCEPT ![e] =
                  IF tail # None /\ pc[tail] = "bridging" THEN None ELSE tail]
    /\ TakeSlot(e)
    /\ Goto(e, "queued")
    /\ UNCHANGED <<holder, resolved, aborted, reentered, fileVars>>

\* The call chains behind the tail, whoever that is, and awaits it.
AcquireQueue(e) ==
    /\ pc[e] = "read"
    /\ SessionOf[e] = NoSession
    /\ prev' = [prev EXCEPT ![e] = tail]
    /\ TakeSlot(e)
    /\ Goto(e, "queued")
    /\ UNCHANGED <<holder, resolved, aborted, reentered, fileVars>>

PrevResolved(e) == prev[e] # None => resolved[prev[e]]

\* The previous holder's promise resolved first: granted.
AcquireGranted(e) ==
    /\ pc[e] = "queued"
    /\ PrevResolved(e)
    /\ ~aborted[e]
    /\ Goto(e, "granted")
    /\ UNCHANGED <<lockVars, fileVars>>

\* The signal fired while the call was waiting: it passes the lock on.
AcquireAborted(e) ==
    /\ pc[e] = "queued"
    /\ PrevResolved(e)
    /\ aborted[e]
    /\ FreeSlot(e)
    /\ Goto(e, "failed")
    /\ UNCHANGED <<holder, prev, aborted, place, slots, reentered, fileVars>>

\* The timer fires first: the call throws, its slot stays in the chain.
AcquireTimesOut(e) ==
    /\ pc[e] = "queued"
    /\ ~PrevResolved(e)
    /\ Goto(e, "bridging")
    /\ UNCHANGED <<lockVars, fileVars>>

\* A mutant: a call that timed out hands its slot over at once.
BridgeAtOnce(e) ==
    /\ pc[e] = "bridging"
    /\ FreeSlot(e)
    /\ Goto(e, "failed")
    /\ UNCHANGED <<holder, prev, aborted, place, slots, reentered, fileVars>>

\* A mutant: a call that timed out just leaves.
BridgeForgotten(e) ==
    /\ pc[e] = "bridging"
    /\ PrevResolved(e)
    /\ Goto(e, "failed")
    /\ UNCHANGED <<lockVars, fileVars>>

\* prev.then: the slot of a call that timed out is handed over.
Bridge(e) ==
    /\ pc[e] = "bridging"
    /\ PrevResolved(e)
    /\ FreeSlot(e)
    /\ Goto(e, "failed")
    /\ UNCHANGED <<holder, prev, aborted, place, slots, reentered, fileVars>>

\* The signal of a call of acquire fires; if the call holds the lock it is
\* released there and then (onAbort), although the call still runs.
Abort(e) ==
    /\ e \in Cancellable
    /\ pc[e] \in {"queued"} \cup Holding
    /\ ~aborted[e]
    /\ aborted' = [aborted EXCEPT ![e] = TRUE]
    /\ IF pc[e] = "queued" THEN UNCHANGED <<resolved, tail>> ELSE FreeSlot(e)
    /\ UNCHANGED <<holder, pc, prev, place, slots, reentered, fileVars>>

(***************************************************************************)
(* The edit.                                                               *)
(***************************************************************************)

\* stat and readFile, before the lock is asked for.
Read(e) ==
    /\ pc[e] = "idle"
    /\ base' = [base EXCEPT ![e] = version]
    /\ Goto(e, "read")
    /\ UNCHANGED <<lockVars, version, lost>>

\* A mutant: the mtime is not compared.
CheckNothing(e) ==
    /\ pc[e] \in {"granted", "nested"}
    /\ Goto(e, IF pc[e] = "granted" THEN "checked" ELSE "nestedChecked")
    /\ UNCHANGED <<lockVars, fileVars>>

\* The mtime is compared again, under the lock.
Check(e) ==
    /\ pc[e] \in {"granted", "nested"}
    /\ Goto(e, CASE base[e] = version /\ pc[e] = "granted" -> "checked"
                 [] base[e] = version /\ pc[e] = "nested" -> "nestedChecked"
                 [] base[e] # version /\ pc[e] = "granted" -> "leaving"
                 [] base[e] # version /\ pc[e] = "nested" -> "failed")
    /\ UNCHANGED <<lockVars, fileVars>>

\* writeFileAtomic renames the new content over the file.
Write(e) ==
    /\ pc[e] \in {"checked", "nestedChecked"}
    /\ version' = version + 1
    /\ lost' = (lost \/ base[e] # version)
    /\ Goto(e, IF pc[e] = "checked" THEN "leaving" ELSE "done")
    /\ UNCHANGED <<lockVars, base>>

\* The finally releases; a call of tryAcquire also leaves the holders map.
Release(e) ==
    /\ pc[e] = "leaving"
    /\ FreeSlot(e)
    /\ holder' = IF SessionOf[e] # NoSession /\ holder = SessionOf[e]
                 THEN None ELSE holder
    /\ Goto(e, "done")
    /\ UNCHANGED <<prev, aborted, place, slots, reentered, fileVars>>

Step(e) ==
    \/ TryGranted(e) \/ TryRefused(e) \/ TryReentered(e)
    \/ AcquireQueue(e) \/ AcquireGranted(e) \/ AcquireAborted(e)
    \/ AcquireTimesOut(e) \/ Bridge(e)
    \/ Check(e) \/ Write(e) \/ Release(e)

Next == \E e \in Edit : Read(e) \/ Step(e) \/ Abort(e)

Spec == Init /\ [][Next]_vars

\* The event loop runs what is ready and file operations end, so every call that
\* holds the lock comes to its finally; nobody has to start a call or abort one.
FairSpec == Spec /\ \A e \in Edit : WF_vars(Step(e))

(***************************************************************************)
(* Properties                                                              *)
(***************************************************************************)

TypeOK ==
    /\ tail \in Edit \cup {None}
    /\ holder \in Session \cup {None}
    /\ pc \in [Edit -> Places]
    /\ prev \in [Edit -> Edit \cup {None}]
    /\ resolved \in [Edit -> BOOLEAN]
    /\ aborted \in [Edit -> BOOLEAN]
    /\ place \in [Edit -> Nat]
    /\ slots \in Nat
    /\ version \in Nat
    /\ base \in [Edit -> Nat]
    /\ reentered \in BOOLEAN
    /\ lost \in BOOLEAN

\* The call has the lock and has not given it up, by its finally or by onAbort.
Owns(e) == pc[e] \in Holding /\ ~resolved[e]

\* Two calls never own the lock together: timed-out calls that keep their place
\* in the chain, aborts and refused calls in between included.
OneOwner == \A e, f \in Edit : Owns(e) /\ Owns(f) => e = f

\* First come, first served: a call has the lock only when every call that took
\* its slot earlier has given it up or passed it on.
InOrder ==
    \A e, f \in Edit :
        0 < place[e] /\ place[e] < place[f] /\ pc[f] \in Holding => resolved[e]

\* A map entry belongs to a call that will still clear it: no path stays locked
\* after the last call has left ("map entry ... doesn't grow forever").
EntryHasOwner ==
    tail # None => Owns(tail) \/ pc[tail] \in {"queued", "bridging"}

\* A write replaces the version its call read, unless a session was let in
\* beside itself or a holder was aborted while it went on.
WritesAreCurrent == lost => reentered \/ \E e \in Edit : aborted[e]

\* replaceBlock.ts:143 says of the second stat: "detect concurrent modification":
\* of two tool calls that overlap, one is told to retry.
ConcurrentEditDetected == ~lost

\* No call waits for ever, and the slot of a call that gave up is passed on: once
\* the calls before it are through, a later one gets its turn.
QueueDrains ==
    \A e \in Edit : pc[e] \in {"queued", "bridging"} ~>
                        (pc[e] \in {"done", "failed"} /\ resolved[e])
=============================================================================
