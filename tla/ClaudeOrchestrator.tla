------------------------- MODULE ClaudeOrchestrator -------------------------
(***************************************************************************)
(* ClaudeOrchestrator (src/src/claudeOrchestrator.ts): the queue of agent  *)
(* tasks of a bridge, its concurrency slots and token budget, and the tasks*)
(* file through which the queue survives a restart.                        *)
(*                                                                         *)
(* The orchestrator is one object of an event-driven process: its fields   *)
(* are the record `orch`, its methods are operators from one value of that *)
(* record to the next, and an action is what runs between two awaits.  The *)
(* asynchronous writes of the tasks file are renamed into place in any     *)
(* order.  The driver that runs a task is external: it ends with any       *)
(* outcome, at the latest once the task's signal is aborted.               *)
(***************************************************************************)
EXTENDS Integers, Sequences, FiniteSets, SequencesExt

CONSTANTS
    Task,           \* the tasks anyone may submit, or may have submitted before
    Tokens,         \* tokenEstimate of each; equal estimates stand for equal prompts
    Oversized,      \* the tasks whose prompt exceeds MAX_PROMPT_BYTES
    Legacy,         \* tasks an earlier version left in the tasks file, pending
    Awaited,        \* the tasks submitted with runAndWait
    MaxConcurrent, MaxQueue, MaxHistory, MaxTokenBudget,
    MaxRestarts     \* bound: processes after the first

ASSUME OrchestratorAssumption ==
    /\ Tokens \in [Task -> Nat \ {0}]
    /\ Oversized \subseteq Task
    /\ Legacy \subseteq Task /\ IsFiniteSet(Legacy) /\ Awaited \subseteq Task \ Legacy
    /\ {MaxConcurrent, MaxQueue, MaxHistory, MaxTokenBudget} \subseteq Nat \ {0}
    /\ MaxRestarts \in Nat

VARIABLES
    orch,       \* the fields of the ClaudeOrchestrator of the running process
    phase,      \* of the process: "down", "starting", "up" or "stopping"
    disk,       \* the tasks file
    fresh,      \* the tasks nobody has submitted yet
    restarts,   \* history: how many processes have followed the first
    lagging     \* history: the file may have missed something: a kill, a failed flush, an
                \* older write over a newer one, a submission after the flush, or a write
                \* over what was still to be read

vars == <<orch, phase, disk, fresh, restarts, lagging>>

\* "ended": done, error, cancelled or interrupted, which nothing here tells apart.
Status == {"pending", "running", "ended"}

\* A map from some of the tasks to status and doneAt, 0 if it has none.
IsRows(rows) ==
    /\ DOMAIN rows \subseteq Task
    /\ \A t \in DOMAIN rows : rows[t] \in [status : Status, doneAt : Nat]
Empty == [t \in {} |-> [status |-> "pending", doneAt |-> 0]]

Put(rows, t, status, at) ==
    [u \in DOMAIN rows \cup {t} |->
        IF u = t THEN [status |-> status, doneAt |-> at] ELSE rows[u]]

\* A later time than any in the rows.
Now(rows) == 1 + Max({0} \cup {rows[t].doneAt : t \in DOMAIN rows})

Pending(rows) == {t \in DOMAIN rows : rows[t].status = "pending"}

\* The tokens of S, each of them counted.
SumTokens(S) == Cardinality(UNION {{t} \X (1..Tokens[t]) : t \in S})

\* What the step F makes of the value o, which is computed once.
Then(o, F(_)) == CHOOSE r \in {F(x) : x \in {o}} : TRUE

\* What a loop of n rounds makes of start.
Looped(start, n, Round(_, _)) ==
    LET after[i \in 0..n] ==
            IF i = 0 THEN start ELSE Then(after[i - 1], LAMBDA s : Round(s, i))
    IN  after[n]

Constructed(starts) ==
    [tasks |-> Empty, queue |-> <<>>, running |-> {}, activeTokens |-> 0,
     callbacks |-> {}, aborted |-> {}, writes |-> <<>>,
     starts |-> starts]  \* history: how often each task was started

Init ==
    /\ orch = Constructed([t \in Task |-> 0])
    /\ phase = "starting"
    /\ disk = [t \in Legacy |-> [status |-> "pending", doneAt |-> 0]]
    /\ fresh = Task \ Legacy
    /\ restarts = 0
    /\ lagging = FALSE

(***************************************************************************)
(* The methods.                                                            *)
(***************************************************************************)

\* A mutant: what is running is saved as if it were still to be run.
SnapshotAsPending(o) ==
    [t \in DOMAIN o.tasks |->
        IF o.tasks[t].status = "running"
        THEN [status |-> "pending", doneAt |-> 0] ELSE o.tasks[t]]

\* _buildTasksPayload: a running task is saved as interrupted.
Snapshot(o) ==
    [t \in DOMAIN o.tasks |->
        IF o.tasks[t].status = "running"
        THEN [status |-> "ended", doneAt |-> 0] ELSE o.tasks[t]]

\* checkpoint.save: persistTasks builds the payload and starts to write it.
Save(o) == [o EXCEPT !.writes = Append(@, [file |-> Snapshot(o), old |-> FALSE])]

\* The task reaches a terminal status.
Ended(o, t) ==
    [o EXCEPT !.tasks = Put(@, t, "ended", Now(@))]

\* A mutant: the promise of a task that never ran stays.
FireCompletionIfStarted(o, t) ==
    IF t \in o.callbacks /\ o.starts[t] > 0
    THEN [o EXCEPT !.callbacks = @ \ {t}]
    ELSE o

\* _fireCompletion: the promise of runAndWait resolves with the task.
FireCompletion(o, t) ==
    IF t \in o.callbacks
    THEN [o EXCEPT !.callbacks = @ \ {t}]
    ELSE o

\* n tasks of S, the longest ended.
Oldest(rows, S, n) ==
    CHOOSE old \in SUBSET S :
        /\ Cardinality(old) = n
        /\ \A t \in old, u \in S \ old : rows[t].doneAt <= rows[u].doneAt

\* _pruneHistory: the oldest terminal tasks go, down to MAX_HISTORY.
PruneHistory(o) ==
    LET terminal == {t \in DOMAIN o.tasks : o.tasks[t].status = "ended"}
        excess == Cardinality(DOMAIN o.tasks) - MaxHistory
        n == IF excess > Cardinality(terminal) THEN Cardinality(terminal) ELSE excess
    IN  IF excess <= 0 THEN o
        ELSE [o EXCEPT !.tasks = [t \in DOMAIN @ \ Oldest(@, terminal, n) |-> @[t]]]

\* _refuseTask: the kill switch is engaged when the task's turn comes.
RefuseTask(o, t) ==
    Then(Ended(o, t),
         LAMBDA ended : Then(Save(FireCompletion(ended, t)), PruneHistory))

\* _runTask, up to the await of the driver.
RunTask(o, t) ==
    [o EXCEPT !.tasks = Put(@, t, "running", 0),
              !.running = @ \cup {t},
              !.activeTokens = @ + Tokens[t],
              !.starts[t] = @ + 1]

\* One round of the loop of _drain over s = [o, engaged, skipped, stop]; engaged: the
\* kill switch, which the operator may move at any time.
DrainRound(s) ==
    LET o == s.o
        t == Head(o.queue)
        shifted == [o EXCEPT !.queue = Tail(@)]
        goOn(next) == [s EXCEPT !.o = next, !.skipped = 0]
    IN  CASE s.stop -> s
          [] ~s.stop /\ (o.queue = <<>> \/ Cardinality(o.running) >= MaxConcurrent) ->
                [s EXCEPT !.stop = TRUE]
          [] OTHER ->
             IF t \notin Pending(o.tasks) THEN goOn(shifted)
             ELSE IF /\ o.running # {}
                     /\ o.activeTokens + Tokens[t] > MaxTokenBudget
             THEN [s EXCEPT !.o = [shifted EXCEPT !.queue = Append(@, t)],
                            !.skipped = @ + 1,
                            !.stop = s.skipped + 1 >= Len(o.queue)]
             ELSE goOn(IF s.engaged THEN RefuseTask(shifted, t)
                                   ELSE RunTask(shifted, t))

Undrained(o, engaged) == [o |-> o, engaged |-> engaged, skipped |-> 0, stop |-> FALSE]

Rounds(o) == Len(o.queue) * (Len(o.queue) + 1)

\* A mutant: the first task that is over the budget stops the loop.
DrainBlocking(o, engaged) ==
    Looped(Undrained(o, engaged), Rounds(o),
           LAMBDA s, i : Then(DrainRound(s),
                              LAMBDA r : [r EXCEPT !.stop = @ \/ r.skipped > 0])).o

\* _drain: a start, a refusal or a stale entry shortens the queue, and between
\* two of them at most the whole queue is skipped once.
Drain(o, engaged) ==
    Looped(Undrained(o, engaged), Rounds(o), LAMBDA s, i : DrainRound(s)).o

Full(o) == Len(o.queue) + Cardinality(o.running) >= MaxQueue

\* The size cap, from which the resumption of a stored prompt is exempt.
SizeAllowed(o, t) ==
    t \in Oversized => \E prior \in DOMAIN o.tasks : Tokens[prior] = Tokens[t]

\* _enqueueWithId, once it has found room.
Accept(o, t, engaged) ==
    Then([o EXCEPT !.tasks = Put(@, t, "pending", 0), !.queue = Append(@, t)],
         LAMBDA queued : Drain(queued, engaged))

\* cancel, of a pending task.
CancelPending(o, t) ==
    Then([Ended(o, t) EXCEPT !.queue = RemoveFirst(@, t)],
         LAMBDA ended : FireCompletion(ended, t))

(***************************************************************************)
(* The actions.                                                            *)
(***************************************************************************)
\* A mutant: the check counts the queue alone.
EnqueueUncounted(t) ==
    /\ phase # "down"
    /\ t \in fresh
    /\ Len(orch.queue) < MaxQueue /\ SizeAllowed(orch, t)
    /\ \E engaged \in BOOLEAN :
        orch' = Accept([orch EXCEPT !.callbacks = @ \cup ({t} \cap Awaited)],
                       t, engaged)
    /\ fresh' = fresh \ {t}
    /\ lagging' = (lagging \/ phase = "stopping")
    /\ UNCHANGED <<phase, disk, restarts>>

\* enqueue, or runAndWait, which registers its callback first.
Enqueue(t) ==
    /\ phase # "down"
    /\ t \in fresh
    /\ ~Full(orch) /\ SizeAllowed(orch, t)
    /\ \E engaged \in BOOLEAN :
        orch' = Accept([orch EXCEPT !.callbacks = @ \cup ({t} \cap Awaited)],
                       t, engaged)
    /\ fresh' = fresh \ {t}
    /\ lagging' = (lagging \/ phase = "stopping")
    /\ UNCHANGED <<phase, disk, restarts>>

\* The same when it throws: the callback is removed and the caller told so.
EnqueueRefused(t) ==
    /\ phase # "down"
    /\ t \in fresh
    /\ Full(orch) \/ t \in Oversized
    /\ fresh' = fresh \ {t}
    /\ UNCHANGED <<orch, phase, disk, restarts, lagging>>

\* cancel(id, "user"): a pending task ends at once.
Cancel(t) ==
    /\ phase # "down"
    /\ t \in Pending(orch.tasks)
    /\ orch' = CancelPending(orch, t)
    /\ UNCHANGED <<phase, disk, fresh, restarts, lagging>>

\* The signal of a running task: its timer fires, or cancel aborts it.
AbortRunning(t) ==
    /\ phase # "down"
    /\ t \in orch.running \ orch.aborted
    /\ orch' = [orch EXCEPT !.aborted = @ \cup {t}]
    /\ UNCHANGED <<phase, disk, fresh, restarts, lagging>>

Freed(o, t) ==
    [o EXCEPT !.running = @ \ {t}, !.aborted = @ \ {t},
              !.activeTokens = IF @ > Tokens[t] THEN @ - Tokens[t] ELSE 0]

\* The rest of _runTask, when the driver has returned or thrown: up to the drain
\* of its finally.
Completed(t) ==
    Then(Freed(Ended(orch, t), t), LAMBDA ended : Save(FireCompletion(ended, t)))

\* A mutant: nobody looks at the queue when a slot becomes free.
FinishWithoutDrain(t) ==
    /\ phase # "down"
    /\ t \in orch.running
    /\ orch' = Then(Completed(t), PruneHistory)
    /\ UNCHANGED <<phase, disk, fresh, restarts, lagging>>

\* The end of _runTask.
Finish(t) ==
    /\ phase # "down"
    /\ t \in orch.running
    /\ \E engaged \in BOOLEAN :
        orch' = Then(Then(Completed(t), LAMBDA ended : Drain(ended, engaged)),
                     PruneHistory)
    /\ UNCHANGED <<phase, disk, fresh, restarts, lagging>>

\* The writes, those that began before the ith being old now.
Aged(writes, i) ==
    [j \in DOMAIN writes |-> [file |-> writes[j].file, old |-> writes[j].old \/ j < i]]

\* persistTasks renames its temporary file into place; those that began before
\* it are old now.  A write whose error is swallowed is one that never gets here.
WriteLands(i) ==
    /\ disk' = orch.writes[i].file
    /\ lagging' = (lagging \/ orch.writes[i].old \/ phase = "starting")
    /\ orch' = [orch EXCEPT !.writes = RemoveAt(Aged(@, i), i)]
    /\ UNCHANGED <<phase, fresh, restarts>>

\* One saved task of the loop of loadPersistedTasks.
LoadTask(o, saved, t, recovered, engaged) ==
    LET at == IF saved[t].doneAt > 0 THEN saved[t].doneAt ELSE Now(o.tasks)
        restored == [o EXCEPT !.tasks = Put(@, t, "ended", at)]
    IN  CASE t \in DOMAIN o.tasks -> o
          [] t \notin DOMAIN o.tasks /\ saved[t].status # "pending" ->
                restored
          [] t \notin DOMAIN o.tasks /\ saved[t].status = "pending" ->
                IF recovered /\ ~Full(o) THEN Accept(o, t, engaged)
                ELSE restored

\* A mutant: pending tasks are queued again without looking for room.
LoadUnbounded ==
    /\ phase = "starting"
    /\ \E order \in SetToSeqs(DOMAIN disk) :
        orch' = Looped(orch, Len(order), LAMBDA o, i :
                       IF order[i] \in DOMAIN o.tasks THEN o ELSE Accept(o, order[i], FALSE))
    /\ phase' = "up"
    /\ UNCHANGED <<disk, fresh, restarts, lagging>>

\* loadPersistedTasks, some time after the server has begun to listen.  The
\* prompts can be decrypted, or the key layer is not available.
Load ==
    /\ phase = "starting"
    /\ \E order \in SetToSeqs(DOMAIN disk), recovered, engaged \in BOOLEAN :
        orch' = Looped(orch, Len(order), LAMBDA o, i :
                       LoadTask(o, disk, order[i], recovered, engaged))
    /\ phase' = "up"
    /\ UNCHANGED <<disk, fresh, restarts, lagging>>

\* flushTasksToDisk: the file is written whole and at once, or the error swallowed.
FlushTasks ==
    \/ /\ disk' = Snapshot(orch)
       /\ UNCHANGED lagging
    \/ /\ lagging' = TRUE
       /\ UNCHANGED disk

\* Bridge.stop: the file is flushed; then every pending task is cancelled and every
\* running one aborted.
Stop ==
    /\ phase = "up"
    /\ FlushTasks
    /\ orch' =
        [Looped(orch, Len(orch.queue), LAMBDA o, i : CancelPending(o, orch.queue[i]))
            EXCEPT !.aborted = orch.running,
                   !.writes = Aged(@, Len(@) + 1)]
    /\ phase' = "stopping"
    /\ UNCHANGED <<fresh, restarts>>

\* The process is gone, and with it whoever waited and every write under way.
Gone ==
    orch' = Constructed(orch.starts)

\* server.close() and the telemetry are done: process.exit.
Exit ==
    /\ phase = "stopping"
    /\ Gone
    /\ phase' = "down"
    /\ UNCHANGED <<disk, fresh, restarts, lagging>>

\* A kill while the process is stopping leaves no less than Exit does.
Crash ==
    /\ phase \in {"starting", "up"}
    /\ restarts < MaxRestarts
    /\ Gone
    /\ phase' = "down"
    /\ lagging' = TRUE
    /\ UNCHANGED <<disk, fresh, restarts>>

Restart ==
    /\ phase = "down"
    /\ restarts < MaxRestarts
    /\ restarts' = restarts + 1
    /\ phase' = "starting"
    /\ UNCHANGED <<orch, disk, fresh, lagging>>

Next ==
    \/ \E t \in Task :
        Enqueue(t) \/ EnqueueRefused(t) \/ Cancel(t) \/ AbortRunning(t) \/ Finish(t)
    \/ \E i \in DOMAIN orch.writes : WriteLands(i)
    \/ Load \/ Stop \/ Exit \/ Crash \/ Restart

Spec == Init /\ [][Next]_vars

\* Every running task has a timer, and a driver whose signal is aborted kills its
\* process and ends.
FairSpec ==
    /\ Spec
    /\ WF_vars(\E t \in Task : AbortRunning(t))
    /\ WF_vars(\E t \in orch.aborted : Finish(t))

(***************************************************************************)
(* Properties                                                              *)
(***************************************************************************)

TypeOK ==
    /\ IsRows(orch.tasks) /\ IsRows(disk)
    /\ \A i \in DOMAIN orch.writes :
        IsRows(orch.writes[i].file) /\ orch.writes[i].old \in BOOLEAN
    /\ orch.queue \in Seq(Task)
    /\ orch.activeTokens \in Nat
    /\ orch.callbacks \cup orch.aborted \cup orch.running \subseteq Task
    /\ orch.starts \in [Task -> Nat]
    /\ phase \in {"down", "starting", "up", "stopping"}
    /\ fresh \subseteq Task
    /\ restarts \in Nat
    /\ lagging \in BOOLEAN

\* The three records of one fact agree: the queue holds the pending tasks, each
\* once, the running set the running ones, and activeTokens is their sum.  They keep
\* to the limits on slots, queue and token budget, which one task alone may exceed,
\* also when a restored queue meets tasks submitted since the start.
BooksAgree ==
    LET o == orch IN
    /\ ToSet(o.queue) = Pending(o.tasks)
    /\ Cardinality(ToSet(o.queue)) = Len(o.queue)
    /\ o.running = {t \in DOMAIN o.tasks : o.tasks[t].status = "running"}
    /\ o.activeTokens = SumTokens(o.running)
    /\ o.aborted \subseteq o.running
    /\ Cardinality(o.running) <= MaxConcurrent
    /\ Len(o.queue) + Cardinality(o.running) <= MaxQueue
    /\ Cardinality(o.running) > 1 => o.activeTokens <= MaxTokenBudget

\* No lost wake-up: a task waits only while the slots are taken or while it does
\* not fit beside what runs.
NoIdleSlot ==
    Cardinality(orch.running) < MaxConcurrent =>
        \A t \in Pending(orch.tasks) :
            /\ orch.running # {}
            /\ orch.activeTokens + Tokens[t] > MaxTokenBudget

\* The caller of runAndWait waits for a task that will still end: no promise is
\* left behind by a refusal, a cancellation or a full queue.
WaitingIsLive ==
    \A t \in orch.callbacks :
        /\ t \in DOMAIN orch.tasks
        /\ orch.tasks[t].status \in {"pending", "running"}

\* "The task's own timeoutMs is the upper bound": every caller of runAndWait is
\* told how its task ended, or loses its process.
AwaitedIsTold ==
    \A t \in Awaited : t \in orch.callbacks ~> t \notin orch.callbacks

\* Shutdowns and restarts run no task twice: what has started is saved as
\* interrupted.  Not so once the file may be lagging.
StartedOnce ==
    ~lagging => \A t \in Task : orch.starts[t] <= 1

\* bridge.ts:2716 says that the flush precedes the cancellation "so the file captures
\* the true pre-shutdown state (pending = still pending": what a flush that succeeded
\* leaves in the file as pending is still there when the process ends.
QueueSurvivesShutdown ==
    [][phase = "stopping" /\ ~lagging' => Pending(disk) \subseteq Pending(disk')]_vars
=============================================================================
