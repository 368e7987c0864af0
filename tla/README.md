# Patchwork OS in TLA+

Patchwork OS is a bridge between AI agents and a developer's machine: one Node
process (the *bridge*) per workspace serves MCP tools to agent sessions, asks a
human before risky actions, runs recipes and agent tasks, and records what
happened in ledgers under `$PATCHWORK_HOME`. Several bridges share that
directory. This directory models the parts where the order of events decides
whether the program is right, checks them with TLC and proves the most important
results with TLAPS.

All paths below are relative to the repository; the source is `src/src/`.

## 1. Inventory

### The parts, their state and how they interact

| part | state | operations | works with |
|---|---|---|---|
| `approvalQueue.ts`, `approvalPersistence.ts` | per bridge: entries, dedup index, `recentlyDecided`, timers; shared: `approvals.jsonl` | request (join or enqueue), approve, reject, expire, cancel, cancelAll, restore, recordAttribution | `approvalHttp.ts` calls approve and reject; recipes and tool gates await; every append goes through LedgerChain |
| `ledgerChain.ts` | a ledger file, `.head`, `.write_failed` | appendChained, rotate, recordWriteFailure, verifyLedgerChain | all ledgers (approvals, worker gate, activity, decision traces, runs); takes FileLockSync |
| `fileLockSync.ts` | the file `<ledger>.lock` | withFileLockSync | every bridge process |
| `fileLock.ts` | per bridge: `locks` (promise chain), `holders` | acquire, tryAcquire, release | editText, replaceBlock and other writing tools |
| `claudeOrchestrator.ts` | tasks, queue, running set, token count, completion callbacks; `tasks-<port>.json` | enqueue, runAndWait, cancel, drain, run, save, load, flush | `bridge.ts` (start, stop), drivers, recipes, tools |
| `approvalHttp.ts` | pending HTTP waits, approval tokens | gate precedence, approve, reject | ApprovalQueue, policy, rules, risk tier |
| `transport.ts` | one session's in-flight calls, generation, elicitations, rate limit | attach, detachSoft, detach, dispatch, elicit | tools, the approval gate; sockets of `bridge.ts` and `streamableHttp.ts` |
| `bridge.ts` (sessions) | map of agent sessions, grace timers, heartbeat | connect, resume, refuse, close, ping, clean up | transport, recipes (elicitation) |
| `streamableHttp.ts` | session pool, in-flight counts, pending sends, event buffer | create, evict, prune, delete, post, attach stream | transport |
| `extensionClient.ts` | socket, pending requests, circuit breaker | request, answer, time out, replace, disconnect | VS Code and IntelliJ plugins; tools |
| `automation.ts`, `fp/` | cooldowns, pending retries | hook evaluation | orchestrator |
| `recipes/`, `recipeOrchestration.ts` | cron claims and write-effect ledgers (files), in-flight names, run tokens, timers; run state, budgets | tick, claim, fire, settle, write once; run, resume | orchestrator, approvals, run log |
| `runLog.ts`, `runStore/` | run rows in JSONL and SQLite | append, mirror | LedgerChain |
| `workers/` | outcomes, levels | gate, graduate | gate ledger |
| `bridge.ts`, `server.ts` (process) | process life cycle | start, stop, gate switch | all of the above |

`PROJECT.json` ("components") lists these and the remaining parts (plugins,
connectors, OAuth, dashboard, editor plugins, drivers), each with the reason why it
is or is not modelled.

### What is hard here

* **Several processes, one file.** Bridges race to decide the same approval, to
  append to one ledger and to clear a stale lock. Nothing but a lock file and
  "first decision row wins" keeps them apart.
* **Promises and timers in one process.** A promise must settle exactly once through
  approval, expiry, abort, cancelAll or the exit of its process; a timed-out caller
  stays in the chain of a promise mutex; a drain is the only thing that wakes a
  waiting task.
* **Crashes and half-done work.** Killed between a row and its head sidecar, in the
  middle of an append, inside the lock, between a save and its rename.
* **Connections that are replaced.** A socket breaks before either end notices, its
  close arrives after its successor's first message, a call started on it answers on the
  next one, a wait is over while the call it stood for runs on. State is keyed by ids
  that come back.
* **The same event seen several times.** Every bridge sees every cron tick, a webhook is
  delivered again, and a hung run is written off and comes back.
* **Rewriting what others read.** Rotation re-anchors a hash chain; a task file is
  written by saves that finish in any order.

`PROJECT.json` ("hazards") lists each at its line with the properties that would
notice it going wrong, and says so where no property covers it yet.

### What makes each part correct

* Approvals: one decision per call whichever bridge decides; every caller told what
  the log says, once; the dedup index exact; nobody waits on nothing; expiry durable;
  a restored request never decided by itself.
* Ledgers: the chain verifies at every moment; rows accounted for over rotations; an
  acknowledged row is readable; a changed row is noticed; failures are not forgotten.
* Cross-process lock: exclusion until a lock goes stale; no endless wait; a dead
  owner's lock is cleared.
* In-process lock: one owner, first come first served, no leaked entry, no lost edit.
* Agent sessions: slots exactly those of the calls that run, through any number of
  resumptions; answers on the current connection; no session torn down under its client,
  none kept for a client that is gone. Over HTTP also: the pool never overfilled, a
  post answered with its own answer, no session in use evicted.
* Editor connection: whoever waits can still be answered; the circuit opens for cause.
* Recipes: a tick run once on the machine; books that agree with the runs; each write of
  an attempt performed once; a hung run not in the way for ever.
* Task queue: its limits, no idle slot beside a task that fits, no orphaned promise,
  no task run twice by an orderly restart.

## 2. Modules

| module | models | role |
|---|---|---|
| `ApprovalVerdict` | what the queues promise together | abstract specification |
| `ApprovalQueue` | queues of all bridges over one log | implements `ApprovalVerdict` |
| `ApprovalQueueProofs` | | theorems |
| `LedgerChain`, `LedgerChainProofs` | appendChained, verifyLedgerChain | state machine and reader, theorems |
| `FileLockSync` | withFileLockSync | state machine |
| `FileLock` | the promise mutex and the edit under it | composition |
| `LockProofs` | | theorems on both locks |
| `ClaudeOrchestrator`, `OrchestratorProofs` | the task queue, its file, the bridge's life cycle | state machine, theorems |
| `McpTransport` | one MCP session: attach, detach, the slots of a call | operators, used by the next two |
| `McpSession`, `McpSessionProofs` | the WebSocket sessions of a bridge | composition with McpTransport, theorems |
| `HttpSession`, `HttpSessionProofs` | the HTTP session pool and its posts | composition with McpTransport, theorems |
| `RecipeFire`, `RecipeFireProofs` | scheduler, claim, run limit and write ledger over several bridges | composition, state machine, theorems |
| `ExtensionClient`, `ExtensionClientProofs` | requests to the editor | state machine, theorems |
| `MC...` | values and symmetries for TLC | |

Definitions named `...Forgetful`, `...Unlocked`, `AbortEntry` and the like, which
stand just before the definition they vary and are used by nothing, are deliberate
slips of it ("A mutant: ...", "Slip of ..."). Putting one in its place must make the
property it is listed with in `PROJECT.json` fail: that shows that the property
constrains the code.

### ApprovalQueue

A bridge's queue method is synchronous and touches the log at most once, under the
lock, so it is one action; `restore()` and `cancelAll()` touch it once per entry and
are one action per entry, so that other bridges act in between. State: the log as the
rows of each call (`rows`), the entries, dedup index and recent decisions of each
bridge, and each caller's promise (`asked`, `heard`).

| code | action |
|---|---|
| `request()` | `Join` (shares a live entry) or `Enqueue` |
| `approve()`, `reject()` through the HTTP handler | `Decide`, then `Attribute` |
| a caller's AbortSignal | `Abort` |
| `armTimer`, the owner's and a restored entry's | `Tick`, then `ExpireOwned` or `ExpireRestored` |
| `cancelAll()` (gate off, shutdown) | `CancelAll`, `CancelOne`, `CancelDone` |
| construction, `restore()` | `Start`, `RestorePending`, `RestoreOverdue`, `Restored` |
| the process exits | `Crash` |

`RecordDecision` has the four outcomes of the code: written; already recorded, and
then the recorded decision is adopted; written although the append throws afterwards;
not written. A call whose decision could not be logged is in `unlogged`, and the
properties that compare with the log say so.

Abstracted: rows are whole lines (LedgerChain looks inside an append), one wall
clock, the 60 s life of `recentlyDecided` (kept for ever, which promises more), the
order of restore (any), the dedup identity (a key). Left out: listeners, push
notifications, formatting, the `clear()` of tests.

### LedgerChain

One action per file operation of `appendChained`, so a writer can be killed or fail
between any two: `Acquire`, `Skip`, `Rotate` or `WithinCap`, `Terminate`,
`AppendStart`, `Stamp`, `AppendRow`, `WriteHead`, `Finish`; `Fail`, `Refused` and
`RecordWriteFailure` for the error path; `Crash`. `Interrupted` leaves half a line, or
a line without its newline, in the file. `verifyLedgerChain` is the operator
`Verified` with its parts `Breaks`, `PrefixMismatch` and `HeadState`.

Abstracted: a hash is a number no other line has; sizes are counted in lines, with
one cap (`maxLines` and bytes are the same guard here); a missing file is an empty
one; a dead writer's lock is free at once (how a stale lock is cleared is
FileLockSync's matter); the reader reads file and head in one step. Left out: the
retry of a rename on Windows and the reader's "orphaned" class, which no state here
reaches.

Conditions in the properties: `tears = 0` where half a line makes the property false
(section 3, `TornLineIsSkipped`); `~LegacySplit` where a rotation has kept part of a legacy prefix
(section 3, `RotatedPrefixNotBroken`); `~raced` for a failure counted, outside the lock, while an
earlier count is being sealed; `RowChangeNoticed` speaks of data rows while the head
is current, because nothing is promised of the last rows otherwise.

### FileLockSync

One action per system call of the loop. The clock is reduced to the code's two
comparisons: `late` (past the deadline) and `aged` (older than `staleLockMs`). The
lock file records who made it, so a removal "by name" of somebody else's lock can be
seen. `Suspendable` processes can be stopped inside for longer than `staleLockMs`.
`Windows` adds the EPERM retry with no lock on disk.

### FileLock

The chain of promises is `tail` and `prev`/`resolved` of each call. The caller is the
edit of `editText` and `replaceBlock`: stat and read, lock, stat again, write,
release. A call with a session uses `tryAcquire`, one without uses `acquire`, as the
tools do. A timeout leaves a slot that `Bridge` hands over once the previous holder is
through; `Abort` is `onAbort`, which releases while the holder still runs. The mtime
is a version that every write advances (two writes in one timestamp tick, and writes
by other programs, are left out). No tool passes a signal today: `Cancellable` covers
the API as it stands.

### ClaudeOrchestrator

`orch` is the object's fields; a method is an operator from one value of it to the
next, in the order of the code's statements (`Ended`, `Freed`, `FireCompletion`,
`Save`, `Drain`, `PruneHistory`), and an action is what runs between two awaits. The
loops of `_drain`, of `Bridge.stop` and of `loadPersistedTasks` are functions from the
number of rounds to the object after them (`Looped`; a round of a drain is `DrainRound`),
and what `_pruneHistory` removes is a choice of the longest ended (`Oldest`), so that both
can be reasoned about. The process goes through
`starting` (the server listens, the tasks file is still unread), `up`, `stopping` and
`down`. A save takes its snapshot at once and is renamed into place later (`WriteLands`),
in any order; one that fails is one that never lands.

| code | action |
|---|---|
| `enqueue`, `runAndWait` | `Enqueue`, `EnqueueRefused` |
| `cancel` | `Cancel` (pending), `AbortRunning` (running; also the task's timer) |
| `_runTask` | started by `Drain`, ended by `Finish` |
| `persistTasks` | `Save`, then `WriteLands` |
| `loadPersistedTasks` | `Load` |
| `Bridge.stop`, `flushTasksToDisk`, exit | `Stop`, `Exit` |
| kill, start | `Crash`, `Restart` |

Abstracted: done, error, cancelled and interrupted are one status, `ended`, since no
step distinguishes them; `doneAt` is a rank; the kill switch is read as either value
in each drain. Left out: lookups and lists, which change nothing; tasks files of other
versions; withheld outputs, streams and context files; a dispatch that the
information boundary refuses, which ends a task synchronously as the kill switch does.

### McpTransport and McpSession

A transport is a record, and `Attach`, `DetachSoft`, `Detach`, `Take` and `Release` are
functions from one record to the next, as the methods are. An `AgentSession` is named by
the connection that created it; `sessions` maps a client's id to one. A call keeps the
generation and the socket of the listener that took it, and both are consulted again
when it ends: that is where a reconnect can go wrong.

| code | action |
|---|---|
| connection handler of `bridge.ts` | `Resume`, `Refuse` or `Create` |
| `ws.on("close")` | `Close`, and within `Heartbeat` |
| `_startWsHeartbeat`, pong | `Heartbeat`, `Pong` |
| the grace timer, `cleanupSession` | `GraceExpires` |
| the network | `Lose`: the client knows, the bridge does not yet |
| `initialize` and `notifications/initialized` | `Handshake` |
| `tools/call` | `Accept` or `Reject`, then `Settle` |
| `elicit` of the newest session, its answer or timeout | `Elicit`, `ElicitEnds` |

The client is the stdio shim, which relays one handshake and never repeats it. One round
of the heartbeat looks at all sessions in one loop; here it is one action per session,
which allows more orders. Kill switch, gate, handler and tool timeout are one `Settle`,
since each releases the same slots on its way out. Left out: rate limits, scopes,
schemas (a refusal may come at any time, `Reject`), the other methods, cancelled
notifications (they abort a signal), shutdown, clients without a session id (each of
their connections is a client of its own).

### HttpSession

A POST (`post`) and the call it asks for (`running`) are two things: the wait ends at its
timeout while the call may still be at the gate. `Sent` is `HttpAdapter.send`: to the
post that waits for the id, else to the stream, else nowhere.

| code | action |
|---|---|
| `handlePost` of initialize, `createSession` | `InitializeBegin` or `InitializeEvicting`, then `InitializeEnd` or `InitializeFails` |
| `handlePost` of a request | `PostTaken` or `PostRefused`, then `Settle` and `WaitEnds` in either order |
| `handlePost` of a notification | `Initialized` |
| `handleDelete`, `pruneIdle`, `close` | `Delete`, `PruneIdle`, `Close` |
| `handleGet`, its end, `broadcastListChanged` | `Get`, `StreamCloses`, `BroadcastListChanged` |
| `onActivity` | `Progress` |

`lastActivity` and `lastClientActivity` are ages (`idle`, `clientIdle`). `MaxWait <
SessionTtl` is the code's 290 s against two hours. `Conforming` says that clients do not
send an id for which they still wait. Left out: the replay buffer of the stream,
ownership tokens and principals, malformed bodies, batches, notifications that change
nothing here.

### RecipeFire

What lies between a trigger and a write. `claims` and `ledger` are files and survive a
crash; the rest is a bridge's memory.

| code | action |
|---|---|
| `RecipeScheduler.fire` | `SkipTick`, or with `claimCronSlot`: `Claim`, `Taken`, `Unavailable` |
| `RecipeOrchestrator.fire` | `FireStarts` or `FireRefused` |
| its safety timer, its `finally` | `TimerFires`, `Settle` |
| `attemptStoreFor`, `loadExisting` | `AttemptStore`, `Loaded`, in `FireStarts` |
| `WriteEffectLedger.getOrExecute` | `Perform`, then `Record` or `Fail` |
| a bridge is killed; the claim directory breaks | `Crash`, `StoreChanges` |

A run starts in one of three ways: its attempt's ledger is read, or there is a store whose
ledger cannot be read (an I/O error, a symlink), so that the run knows nothing and yet
may append, or there is no store and it works in memory alone. A run's step that timed out
can leave a tool call behind when the run is over, so `Record` and `Fail` may come after
`Settle`. `performed`, `lost` and `overlaps` are history, for the property: how often a
write was performed, how often its record was not written or not read, and how many runs
of an attempt were started beside another. A row that half a line before it makes
unreadable counts as not written. Abstracted: an attempt is a value per
trigger (the code floors a cron slot to the minute, so two ticks of one recipe within a
minute would share an attempt: one tick per recipe here), a write is its key. Left out:
the steps of a run and their retries, `dedupPolicy: "allow"`, nested recipes, `@every`
and JSON recipes (they have no claim or no in-flight guard), the sweep of old claims, and
what takes recorded rows away again: the retention that deletes a store
untouched for 14 days (`gcRunLedgers`), and the rotation of a ledger of more than 1 MB and
10 000 rows. A delivery that comes again after either repeats its writes.

### ExtensionClient

`request()` is `Ask` or `Refuse` up to the await of the drain, then `Send` or
`SendFails`; it ends by `Answer`, `EndWithoutResult` (an error, an abort), `Timeout`, or
with all others when the connection is replaced (`Connect`), lost (`HandleDisconnect`,
some time after `Lose`) or closed (`Disconnect`), or when the circuit opens
(`OpenCircuit`). The catch of a timeout runs in the microtask after its timer, so both
are one action. A timer may fire at any time, which covers every timeout a caller can
choose. `extensionFailureTimes` is the set of the requests whose timeouts it lists, their
times being when they ended: the code filters, extends, counts and clears it. The limit
of pending requests is tested before the drain only, so more than `MaxPending` can be
pending: the module has this as it is. The comment at
extensionClient.ts:676 speaks of letting "one probe through", but the half-open flag is
read only where it is set and holds nothing back, so the module does not have it. Left
out: notifications from the editor, its cached state, heartbeats, the wrapper of each
tool.

## 3. Runs

Passing runs:

| run | instance | shows |
|---|---|---|
| `approval_log` | 2 bridges, 1 call, 2 callers, 1 exit, 1 failing log access; fair | one decision, told as logged, attribution, aborts, every deadline recorded, bounded callers settle |
| `approval_queue` | 2 bridges, 2 calls of one identity, 2 callers, 1 exit; symmetry | the dedup index, no orphaned caller, and the refinement of `ApprovalVerdict` |
| `flock` | 3 processes, 2 kills, one suspendable, Windows; fair | exclusion until a lock is stale, waits end, abandoned locks are cleared |
| `ledger` | 2 writers, 0 or 2 legacy rows, cap 3, target 2, 1 kill, 2 failures, 1 torn line; symmetry | the ledger properties |
| `filelock` | 2 calls of one session, 2 without, one of them abortable; fair | one owner, order, no lost write, the queue drains |
| `orchestrator` | 2 new and 2 restored tasks, 2 slots, queue 3, budget 3, history 3, 1 restart; fair | books and limits, wake-ups, promises, no second start |
| `ws_session` | 2 clients, 3 connections, 3 calls of which 2 share an id, 2 sessions, 2 slots; fair | slots, answers, no teardown under a client, lost clients make room |
| `http_session` | 3 sessions in a pool of 2, 2 calls of one id, wait 1 and life 2 ticks; fair | counters, own answers, sessions in use kept, unused ones gone |
| `recipe_fire` | 2 bridges, 2 recipes, a tick and two deliveries, 2 runs, 1 write, a claim store that breaks, ledgers that cannot be written or read; symmetry | once per tick, books of runs, effects once |
| `extension` | 5 requests, 2 connections, 3 ticks, threshold 3, window 2; symmetry | answerable requests, a circuit that opens for cause |

Violation runs, one sentence of the repository each (`PROJECT.json` "findings" quotes
it):

| run | what the code does |
|---|---|
| `orchestrator_shutdown` | a task that ends during shutdown saves a file over the flushed one; waiting tasks are not queued again |
| `recipe_hung` | a run that outlived its timer ends and takes the timer of the next run of its name with it; if that one hangs, its place in the run limit is gone |

### Claims of the repository that the code does not meet, and that no run checks

These are stated in the modules, and TLC finds each violated when it is added to the run
named; they are kept out of the runs, which are meant to pass.

| property | add to | the claim | the code |
|---|---|---|---|
| `ApprovalQueue!RestoredNeverAutoResolve` | `approval_log` | a restored request is never decided by itself | turning the gate off on one bridge cancels, durably, what it only restored from another |
| `FileLockSync!StaleRaceIsBenign` | `flock` with `Suspendable = {}` | two contenders that clear a stale lock are harmless | the slower removes the faster one's fresh lock; both are inside |
| `LedgerChain!TornLineIsSkipped` | `ledger` | a torn line costs no other line | the row appended next is glued to it and lost although its append returned |
| `LedgerChain!RotatedPrefixNotBroken` | `ledger` with `LegacyRows = {4}`, `MaxTears = 0` | rotation does not break verification | a rotation that keeps part of a legacy prefix makes the verifier report breaks |
| `FileLock!ConcurrentEditDetected` | `filelock` | an edit of a changed file is noticed | two parallel edits of one session both pass the mtime check and one is lost |
| `McpSession!HandshakeSurvives` | `ws_session` | a client that reconnects need not shake hands again (bridge.ts:443) | one that comes back before the bridge has noticed the loss gets a new session, uninitialized |
| `HttpSession!AnswerIsOwn` with `Conforming = FALSE` | `http_session` | a duplicate id is refused "before feeding to transport" (streamableHttp.ts:729) | `waitForSend` returns a rejected promise, the `catch` for a throw never runs, and the transport's refusal answers the first post |
| `RecipeFire!ClaimsWhatItCanRun` | `recipe_fire` | a bridge that will not run a recipe leaves the tick to others (scheduler.ts:592) | the run limit and the orchestrator's in-flight set are looked at after the claim |

### Bounds, and why they are enough

* Two bridges and two callers are what a race over a decision needs; a second call
  matters for the dedup index alone (`approval_queue`), whose property relates pairs of
  calls. A failing log access and an exit in one behaviour cover "decided, not logged,
  restored". The invariants proved hold for any number of each.
* `MaxHash = 9` lets a file be rotated several times with a target of two lines, so that
  rows, a start marker and legacy lines are dropped in different rotations.
* Three processes: one that leaves a stale lock and two that find it.
* Four edits: a holder, a re-entry of its session, a waiter and one that times out or
  is aborted between them.
* Four tasks over two slots and a queue of three: two run, two wait, the large one is
  skipped for the small one behind it, and the queue is full for a further one. Equal
  token estimates stand for equal prompts.
* Three connections and two clients: a client is connected, resumed and replaced, or one
  is refused while the other is in its grace period. The three calls are of one client,
  one more than there are slots, and two of them share an id.
* Three sessions over a pool of two: two initializes overlap, and a third evicts. Two
  calls with one id are a call and its retry.
* Two runs are enough for one to be written off while the next of its name is going; the
  tick and its webhook twin belong to one recipe, so they meet in the in-flight set, and
  the third trigger meets them in the run limit.
* Five requests: three timeouts open the circuit while one waits and one is in its drain;
  the pending limit of three is reached, and exceeded through the drain.
* `MaxConn`, `MaxRuns`, `MaxClock`, `MaxSocket`, `MaxCrashes`, `MaxFailures`, `MaxTears`, `MaxHash` and `MaxRestarts` appear only in
  guards of the steps they bound.

Deadlock is checked except where the system stops: the edits are all done (`filelock`),
the bound on lines is reached (`ledger`), the last process has exited (`orchestrator`,
`orchestrator_shutdown`), or connections, runs or requests are used up (`ws_session`,
`recipe_fire`, `recipe_hung`, `extension`).

### Fairness

Safety runs use `Spec`. Liveness uses only what the platform gives:

* `approval_log`: a due timer fires, a synchronous loop runs to its end, the clock
  advances, a bridge that exited is started again. No fairness on decisions or callers.
* `flock`: a process that is not killed keeps spinning and calls again some day (weak
  fairness); its deadline passes if it keeps retrying (strong fairness: time passes
  whatever the process does, but the module lets it pass only between two attempts); an
  abandoned lock ages.
* `filelock`: the event loop runs what is ready and file operations end. Nobody has to
  start or abort a call.
* `orchestrator`: a running task's timer fires and an aborted driver ends. No fairness on
  submissions, writes, exits or the operator.

* `ws_session`: the heartbeat interval and the grace timer fire. Clients, the network and
  handlers owe nothing.
* `http_session`: time passes, a wait that is due ends, the prune timer fires. Calls need
  not end.
* `recipe_hung`: safety timers fire. A run need not settle: that is what the timer is for.

## 4. Proofs

Every theorem holds for any value of the constants under the named assumptions of its
module (`QueueAssumption`, `LockAssumption`, `EditAssumption`, `LedgerAssumption`,
`OrchestratorAssumption`, `TransportAssumption`, `SessionAssumption`, `HttpAssumption`,
`RecipeAssumption`, `ExtensionAssumption`: the special values differ from the others, the bounds are numbers of
their kind, and what belongs to what is a function). The runs evaluate each assumption.
Each proof module has an inductive invariant `Inv` (`QueueInv` for the approvals), of which
one half is the type invariant and the other what the properties need; the type
invariants are theorems wherever `Inv` contains all of `TypeOK`, and the runs do not
repeat them. Before it was proved, each inductive invariant was checked with TLC on the
instance of its run.

* `LockProofs`, `FileLockSync` (whose names are kept apart from FileLock's, so that one module
  extends both). `SyncInv` adds `Ownership` to the types: while no lock has aged, a
  process inside is the live owner of the lock file, and no process is about to unlink.
  Exclusion alone is not inductive: `Leave` removes a file by name, and only ownership
  says that it is its own. Results: `LockTyped`, `LockExcludes`.
* `LockProofs`, `FileLock`. `Inv` describes the promise chain (`Chain`): every call in it has a
  place of its own, a waiting call is chained behind the call just before it or, with no
  `prev`, has only resolved calls before it, the map's entry is the last place and is
  not free yet, and a call inside has not released its place unless it was aborted. Results: `FileLockTyped`,
  `FileLockExcludes`, `FileLockInOrder`, `FileLockNoLeak`, `EditsAreCurrent` (with the
  invariant that a call past its check has read the current version).
* `ApprovalQueueProofs`. `QueueInv` joins the types, `OneDecisionPerCall`, the memory
  invariant (dedup index, waiters, phases) and `ToldAgreesWithLog`. A told caller agrees
  with the log because `Settle` uses the decision that `RecordDecision` adopted, and a
  recorded decision never changes because there is one decision row at most. Results:
  `Typed`, `SingleDecision`, `CallersFollowTheLog`, `DedupExact`, `NoOrphanedCaller`;
  `AttributionsAreEarned`, with `CreditEarned`: a handler that is still looking up its
  approver has had its decision recorded; the action property `OthersAreNotCancelled`; and
  `VerdictImplemented`: every step of the bridges is a step of `ApprovalVerdict` or
  changes nothing it can see.
* `LedgerChainProofs`. `Inv` holds of every file, one with torn lines included: one writer
  is inside the lock (`Exclusive`); rotation markers come first, chain-start markers before
  every row, and each row counts one more than the line of a chain before it (`Chain`); hashes
  are new (`Hashes`); what a writer has stamped fits what it will append to (`Stamps`).
  That much already gives `LedgerRowChangeNoticed`: a row removed from, or replaced in, any
  file whose head is current is found by `Verified`. `UntornInv` says line by line what a
  file that nobody tore contains (the rows up to the last one written, each numbered back
  from it, behind a marker or legacy lines that account for the rest; a head that is of some row;
  and each acknowledged row dropped or in its place). From it: `LedgerRowsAccounted`,
  `LedgerAckedRowsKept`, `LedgerHeadAdvances` (the head never moves backwards) and
  `LedgerChainVerifies`. `SealsInv`, beside both, relates the failure counter to the sum of
  what is sealed, up to the first rotation, for `LedgerFailuresSealedOrPending`. The sums are recursive functions and
  the anchor of a row is found by a search, so an argument over lines is needed: each is
  made about the least or greatest line that would break the claim (`Least`, `Greatest`).
* `McpSessionProofs`. `Inv` says who owns what through any number of resumptions: a session's
  sockets are of its client, in its grace period the socket is closed (`Objects`), the map has the
  client's session with its transport attached (`Registered`), an open call came in on a socket
  of its client and, unless the session was resumed since, on the one it has
  (`OpenCalls`), and a session's slots are its unsettled calls, the soft-preserved ones those of an
  earlier generation (`Slots`). Results: `McpSessionTyped`, `SlotsAreExact`, `AnswersFollow`,
  and the action property `ConnectedSessionsStay`. The lemmas on `Attach`, `DetachSoft`, `Take`
  and `Release` state McpTransport field by field.
* `HttpSessionProofs`. `Inv` keeps the pool within its limit, creations included
  (`Pool`), the session of a waiting post live and used since (`Waiters`, which is why an
  eviction or a prune does not touch it), and the two counters of a live session
  (`Books`). Results: `HttpSessionTyped`, `AccountsBalance`, the action property `BusySessionsStay`, and
  `AnswersAreOwn` for clients that do not use an id again before its answer (`Conforming`);
  without that it is false (section 3, `HttpSession!AnswerIsOwn`).
* `RecipeFireProofs`. `Slots`: a claimed tick is with one bridge about to fire it, or with one
  run. `Books`: whose timer a name stands for, whose place the limit counts, and that a run
  loses its timer to another only after a run of its name has expired. `Effects`: for
  each write, the times it was performed plus the runs that may yet come to perform it are
  no more than one, its losses and the runs started beside another; and a write that is not on
  record was performed only as often as it was lost or is being done. `EffectsOnce` alone is
  not inductive: it does not say how many runs are about to perform the write. Results: `RecipeFireTyped`,
  `CronTickRunsOnce`, `RequiredClaimIsExact` (with `PATCHWORK_CRON_CLAIM_REQUIRED`, every tick at
  most once even when the claim store breaks), `OrchestratorBooks`, `WritesHappenOnce`.
* `ExtensionClientProofs`. `PendingAnswerable` is inductive beside the types: `Send` looks at the
  socket and the circuit again in the same step that enters the map, and each step that changes
  either empties the map. `CircuitOpensForCause` says nothing of the breaker's list, so the
  invariant has to say what is in it: `Earned` (timeouts of the present connection, none before an
  answer), and `FinitelyMany` requests so that the causes can be counted; Request itself may be
  infinite. Results: `ExtensionTyped`, `PendingCanBeAnswered`, the action property `CircuitHasCause`.
* `OrchestratorProofs`. Methods compute a new object, so a lemma for each method states what it
  makes of one whose `Books` agree: `RunTaskIs`, `RefuseTaskIs`, `CancelPendingIs`, `FinishIs`,
  `StopIs`, `LoadTaskIs`. `Follows` and `Reaches` bound how far the result is from the object:
  which tasks may have come in, become pending, been started or got into a save. The three loops are made
  values by `LoopExists` (an induction over the rounds with sets in place of predicates, `UpTo`).
  `NoIdleSlot` is about the whole loop of `_drain`: each round keeps `Draining` (what was skipped
  since the last start still does not fit), a round that stops leaves nothing that could start, and
  `Fuel`, the queue's length times one more than it was, plus the rounds, less those skipped, shows
  that a loop which uses up its rounds has emptied the queue. `OrchestratorInv` joins the types,
  `Books`, `Busy` (no idle slot), `Down` (a process that is gone left no object), `Unseen` (a fresh task is in
  no object, file or save) and `Once`. `StartedOnce` is not inductive: `Once` adds that nothing
  pending was started, in the queue, in the file while that is still to be read, and, after the
  flush, in the saves that began since. Results: `OrchestratorTyped`, `TheBooksAgree`,
  `NoSlotIsIdle`, `WhoWaitsIsAnswered`, `NothingRunsTwice`.

The attempt at `NothingRunsTwice` corrected the model: a save that lands while the process is
starting replaces a file that is still to be read, and may hold as pending a task that runs, ends and is
pruned before that. Then the task runs again within one process, so such a save makes the file
`lagging` too. The run is too small for it (more tasks than `MaxHistory` have to end first).

Only model-checked: all liveness (fairness and ENABLED are out of the prover's reach):
`BoundedCallersSettle`, `DeadlinesAreRecorded`, `CallsEnd`, `AbandonedLockCleared`, `QueueDrains`,
`AwaitedIsTold`, `LostSessionsGo`, `UnusedSessionsGo`; and the violation runs. Every invariant and every
action property of a passing run is a theorem.

## 5. Plan

Done, in this order: ApprovalQueue with its abstract specification and proofs,
FileLockSync, LedgerChain, FileLock, ClaudeOrchestrator; then McpTransport, McpSession,
HttpSession, RecipeFire, and ExtensionClient; then the proofs of
LedgerChain, McpSession, HttpSession and RecipeFire, the rest of ApprovalQueue's, and those
of ClaudeOrchestrator and ExtensionClient.

Next, proving:

1. The safety half of the liveness properties: what stands between a state and its promise
   only ever shrinks (the waits of `CallsEnd`, the chain of `QueueDrains`, the queue of `AwaitedIsTold`).
2. McpTransport on its own: its record invariant, now part of both session proofs, stated once.

Next, extending the model:

1. `approvalHttp.ts`: the precedence of the gate and the single-use phone token.
2. LedgerChain with a reader that reads the file and then the head, and a tail reader
   whose offset another process's rotation makes stale.
3. `chainedRunner.ts` and `runBudget.ts`: the steps of a run over its dependency graph.
4. `automation.ts`: cooldowns and loop guards of hooks.
5. `runLog.ts` and `runStore/`: the mirror of the JSONL run log in SQLite.

## 6. Not modelled

`PROJECT.json` ("components") gives the reason for each part. In short: the parts of the
plan above are left for later; pure classification (policy, risk tiers), the templating
of recipes, tools and connectors (requests and answers without a protocol), OAuth and
the user interfaces are not planned.
