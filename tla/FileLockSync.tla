---------------------------- MODULE FileLockSync ----------------------------
(***************************************************************************)
(* withFileLockSync (src/src/fileLockSync.ts): the mutex bridge processes  *)
(* take around every append to a log they share.  The lock is a file,      *)
(* `${file}.lock`, made with O_EXCL and removed in a finally.              *)
(*                                                                         *)
(* A process's action is one system call: between any two of them another  *)
(* process may run, be suspended or be killed.  Time is abstracted to the  *)
(* two comparisons the code makes: whether the caller's deadline is past   *)
(* and whether the lock file is older than staleLockMs.                    *)
(*                                                                         *)
(* No name here is one of FileLock's, so that LockProofs can extend both.  *)
(***************************************************************************)
EXTENDS Naturals

CONSTANTS
    Process,        \* the processes that share the log
    Suspendable,    \* those that can be stopped for staleLockMs while inside
    Windows,        \* process.platform === "win32"
    MaxCrashes,     \* bound: processes killed in one behaviour
    NoLock          \* the lock file does not exist

ASSUME LockAssumption ==
    /\ Suspendable \subseteq Process
    /\ Windows \in BOOLEAN
    /\ MaxCrashes \in Nat
    /\ NoLock \notin [owner : Process, live : BOOLEAN, aged : BOOLEAN]

VARIABLES
    lock,       \* the lock file: who created it, is that call alive, is it stale
    at,         \* where each process is in withFileLockSync
    late,       \* Date.now() > deadline, for the current call
    crashes,    \* history: processes killed so far
    everAged    \* history: some lock file has outlived staleLockMs

syncVars == <<lock, at, late, crashes, everAged>>

LockFile == [owner : Process, live : BOOLEAN, aged : BOOLEAN]

\* "open": about to call openSync for the first time; "retry": about to call it
\* again; "contended": it failed with EEXIST (or EPERM); "stat": the deadline
\* was not past; "unlink": statSync saw a stale lock; "inside": running fn;
\* "failed": withFileLockSync threw, the caller has not called again yet.
LockPlaces == {"idle", "open", "retry", "contended", "stat", "unlink",
               "inside", "failed"}
Waiting == {"open", "retry", "contended", "stat", "unlink"}

LockInit ==
    /\ lock = NoLock
    /\ at = [p \in Process |-> "idle"]
    /\ late = [p \in Process |-> FALSE]
    /\ crashes = 0
    /\ everAged = FALSE

MoveTo(p, place) == at' = [at EXCEPT ![p] = place]

(***************************************************************************)
(* The loop.                                                               *)
(***************************************************************************)

\* A caller enters withFileLockSync and computes its deadline.
Call(p) ==
    /\ at[p] \in {"idle", "failed"}
    /\ MoveTo(p, "open")
    /\ late' = [late EXCEPT ![p] = FALSE]
    /\ UNCHANGED <<lock, crashes, everAged>>

\* openSync(lockFile, "wx") creates the file: the process is inside.
OpenExclusive(p) ==
    /\ at[p] \in {"open", "retry"}
    /\ lock = NoLock
    /\ lock' = [owner |-> p, live |-> TRUE, aged |-> FALSE]
    /\ MoveTo(p, "inside")
    /\ UNCHANGED <<late, crashes, everAged>>

\* openSync fails: the file exists, or on Windows an unlinked one is still
\* visible (EPERM, EBUSY, EACCES with no lock on disk).
OpenContended(p) ==
    /\ at[p] \in {"open", "retry"}
    /\ lock # NoLock \/ Windows
    /\ MoveTo(p, "contended")
    /\ UNCHANGED <<lock, late, crashes, everAged>>

\* A mutant: the deadline is tested after the stat, so ENOENT skips it.
TestDeadlineAfterStat(p) ==
    /\ at[p] = "contended"
    /\ MoveTo(p, IF late[p] /\ lock # NoLock /\ ~lock.aged THEN "failed" ELSE "stat")
    /\ UNCHANGED <<lock, late, crashes, everAged>>

\* A mutant: the finally covers the loop, so a timeout unlinks the lock too.
TestDeadlineUnlinking(p) ==
    /\ at[p] = "contended"
    /\ MoveTo(p, IF late[p] THEN "failed" ELSE "stat")
    /\ lock' = IF late[p] THEN NoLock ELSE lock
    /\ UNCHANGED <<late, crashes, everAged>>

\* The deadline is tested before anything else: past it, the call throws.
TestDeadline(p) ==
    /\ at[p] = "contended"
    /\ MoveTo(p, IF late[p] THEN "failed" ELSE "stat")
    /\ UNCHANGED <<lock, late, crashes, everAged>>

\* A mutant: a stale lock is waited for like any other.
StatIgnoringAge(p) ==
    /\ at[p] = "stat"
    /\ MoveTo(p, "retry")
    /\ UNCHANGED <<lock, late, crashes, everAged>>

\* statSync: the lock is gone (ENOENT) or is too young, retry; or it is stale.
Stat(p) ==
    /\ at[p] = "stat"
    /\ MoveTo(p, IF lock # NoLock /\ lock.aged THEN "unlink" ELSE "retry")
    /\ UNCHANGED <<lock, late, crashes, everAged>>

\* unlinkSync of what the stat found stale: it removes the file of that NAME,
\* whichever call created it; ENOENT is swallowed.
Unlink(p) ==
    /\ at[p] = "unlink"
    /\ lock' = NoLock
    /\ MoveTo(p, "retry")
    /\ UNCHANGED <<late, crashes, everAged>>

\* fn returned or threw: the finally unlinks the lock, again by name.
Leave(p) ==
    /\ at[p] = "inside"
    /\ lock' = NoLock
    /\ MoveTo(p, "idle")
    /\ UNCHANGED <<late, crashes, everAged>>

(***************************************************************************)
(* The environment: the clock and the operating system.                    *)
(***************************************************************************)

\* timeoutMs elapses.  It is far longer than one turn of the loop, so the
\* deadline passes while the caller is between two attempts (the spin).
DeadlinePasses(p) ==
    /\ at[p] = "retry"
    /\ ~late[p]
    /\ late' = [late EXCEPT ![p] = TRUE]
    /\ UNCHANGED <<lock, at, crashes, everAged>>

\* staleLockMs elapses since the lock was made.  Appends take a millisecond, so
\* that happens when its owner was killed, or was suspended inside.
LockAges ==
    /\ lock # NoLock
    /\ ~lock.aged
    /\ lock.live => lock.owner \in Suspendable
    /\ lock' = [lock EXCEPT !.aged = TRUE]
    /\ everAged' = TRUE
    /\ UNCHANGED <<at, late, crashes>>

\* The process is killed: no finally runs, its lock file stays.
Crash(p) ==
    /\ crashes < MaxCrashes
    /\ at[p] \notin {"idle", "failed"}
    /\ crashes' = crashes + 1
    /\ MoveTo(p, "idle")
    /\ late' = [late EXCEPT ![p] = FALSE]
    /\ lock' = IF lock # NoLock /\ lock.owner = p
               THEN [lock EXCEPT !.live = FALSE] ELSE lock
    /\ UNCHANGED everAged

LockStep(p) ==
    \/ OpenExclusive(p)
    \/ OpenContended(p)
    \/ TestDeadline(p)
    \/ Stat(p)
    \/ Unlink(p)
    \/ Leave(p)

LockNext ==
    \/ \E p \in Process :
        Call(p) \/ LockStep(p) \/ DeadlinePasses(p) \/ Crash(p)
    \/ LockAges

LockSpec == LockInit /\ [][LockNext]_syncVars

\* A process that is not killed keeps running (the loop spins, it never sleeps
\* on anything) and logs again some day.  Time passes whatever the process
\* does: the deadline of a caller that is often between two attempts passes.
FairLockSpec ==
    /\ LockSpec
    /\ \A p \in Process :
        /\ WF_syncVars(LockStep(p))
        /\ SF_syncVars(DeadlinePasses(p))
        /\ WF_syncVars(Call(p))
    /\ WF_syncVars(LockAges)

(***************************************************************************)
(* Properties                                                              *)
(***************************************************************************)

LockTypeOK ==
    /\ lock \in LockFile \cup {NoLock}
    /\ at \in [Process -> LockPlaces]
    /\ late \in [Process -> BOOLEAN]
    /\ crashes \in Nat
    /\ everAged \in BOOLEAN

MutualExclusion ==
    \A p, q \in Process : at[p] = "inside" /\ at[q] = "inside" => p = q

\* Until some lock file outlives staleLockMs, two processes are never inside
\* together, whoever is killed, times out or is refused with EPERM meanwhile:
\* O_EXCL, the owner's unlink and nothing else move the lock.
ExclusiveUntilStale == ~everAged => MutualExclusion

\* fileLockSync.ts:47-50 says of two contenders that both find a stale lock:
\* "one wins, the other goes back to polling. No data corruption".  Then no two
\* processes are inside together when only killed owners leave stale locks.
StaleRaceIsBenign == MutualExclusion

\* Every call ends, inside or with the timeout: the retries after ENOENT and
\* after EPERM pass the deadline test too, so no wait is unbounded.
CallsEnd ==
    \A p \in Process : at[p] \in Waiting ~> at[p] \notin Waiting

\* A process killed inside does not lock the others out for ever: the lock it
\* left is removed by a later caller ("Deadlock-on-crash").
AbandonedLockCleared ==
    (lock # NoLock /\ ~lock.live) ~> (lock = NoLock \/ lock.live)
=============================================================================
