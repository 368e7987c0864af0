----------------------------- MODULE RecipeFire -----------------------------
(***************************************************************************)
(* How a recipe comes to run, and its writes to happen once: the cron      *)
(* scheduler and its cross-process claim (src/src/recipes/scheduler.ts,    *)
(* cronClaim.ts), the in-process dedup and run limit (RecipeOrchestrator), *)
(* and the write-effect ledger of an attempt (idempotencyKey.ts,           *)
(* runLedgers.ts).                                                         *)
(*                                                                         *)
(* Every bridge of the machine schedules every recipe, so each cron tick is*)
(* seen by all of them; a webhook delivery comes to one bridge and can come*)
(* again.  A bridge may crash at any step and is restarted; the claims and *)
(* the ledgers are files.  A run may hang for ever.                        *)
(***************************************************************************)
EXTENDS Integers, FiniteSets

CONSTANTS
    Bridge,         \* bridge processes that share a PATCHWORK_HOME
    Recipe,
    Slot,           \* cron ticks of a recipe
    Delivery,       \* webhook deliveries
    RecipeOf,       \* the recipe of each slot and delivery
    AttemptOf,      \* attemptIdFor, with the recipe
    Write,          \* the writes of a recipe: a tool and its parameters
    MaxConcurrentRuns, \* PATCHWORK_MAX_CONCURRENT_RUNS
    ClaimRequired,  \* PATCHWORK_CRON_CLAIM_REQUIRED
    StoreBreaks,    \* the claim store can become unusable
    MaxRuns         \* bound: runs started

Trigger == Slot \cup Delivery
Attempt == {AttemptOf[t] : t \in Trigger}
Run == 1..MaxRuns

ASSUME RecipeAssumption ==
    /\ Slot \cap Delivery = {}
    /\ RecipeOf \in [Trigger -> Recipe] /\ DOMAIN AttemptOf = Trigger
    /\ MaxConcurrentRuns \in Nat /\ MaxRuns \in Nat
    /\ ClaimRequired \in BOOLEAN /\ StoreBreaks \in BOOLEAN

VARIABLES
    claims,     \* files of the claim store
    usable,     \* whether the store can be written
    unclaimed,  \* slots that were fired without a claim (fail-open)
    seen,       \* slots each bridge has seen
    starting,   \* of each bridge: slots between the claim and fire()
    inFlight,   \* RecipeOrchestrator.inFlight of each bridge: names
    activeRuns, \* RecipeOrchestrator.activeRuns: tokens, named by the run
    timerOf,    \* inFlightTimers: the run whose timer a name stands for, or 0
    run,        \* the runs
    ledger,     \* effect_ledger.jsonl of each attempt
    performed,  \* times a write of an attempt was performed
    lost,       \* times a record of a write was not written, or not read by a run
    overlaps    \* runs of an attempt started while another was at work

vars == <<claims, usable, unclaimed, seen, starting, inFlight, activeRuns, timerOf, run,
          ledger, performed, lost, overlaps>>

scheduling == <<claims, usable, unclaimed, seen, starting>>
orchestrator == <<inFlight, activeRuns, timerOf>>
effects == <<ledger, performed, lost, overlaps>>


Init ==
    /\ claims = {} /\ usable = TRUE /\ unclaimed = {}
    /\ seen = [b \in Bridge |-> {}] /\ starting = [b \in Bridge |-> {}]
    /\ inFlight = [b \in Bridge |-> {}] /\ activeRuns = [b \in Bridge |-> {}]
    /\ timerOf = [b \in Bridge |-> [r \in Recipe |-> 0]]
    /\ run = [i \in Run |-> [state |-> "unused"]]
    /\ ledger = [a \in Attempt |-> {}]
    /\ performed = [a \in Attempt |-> [w \in Write |-> 0]]
    /\ lost = [a \in Attempt |-> [w \in Write |-> 0]]
    /\ overlaps = [a \in Attempt |-> 0]

Started == {i \in Run : run[i].state # "unused"}
Running(b) == {i \in Started : run[i].state = "running" /\ run[i].bridge = b}
NameOf(i) == RecipeOf[run[i].trigger]

\* Runs of an attempt that may still perform a write: going on, or over while a step that
\* timed out has left a tool call behind.
AtWork(a) ==
    {i \in Started : /\ AttemptOf[run[i].trigger] = a
                     /\ \/ run[i].state = "running"
                        \/ run[i].state = "settled" /\ run[i].doing # {}}

(***************************************************************************)
(* The scheduler.                                                          *)
(***************************************************************************)

\* A mutant: the key is derived again in each process.
ClaimKeyPerBridge(b, t) == <<b, t>>

\* cronClaimKey.
ClaimKey(b, t) == t

\* RecipeScheduler.fire decides against it: disabled, no runner, or inflight.
SkipTick(b, t) ==
    /\ t \in Slot \ seen[b]
    /\ seen' = [seen EXCEPT ![b] = @ \cup {t}]
    /\ UNCHANGED <<claims, usable, unclaimed, starting, orchestrator, run, effects>>

\* It decides to dispatch; the claim comes last.
Ticks(b, t) ==
    /\ t \in Slot \ seen[b]
    /\ \A u \in starting[b] \cap Slot : RecipeOf[u] # RecipeOf[t]
    /\ seen' = [seen EXCEPT ![b] = @ \cup {t}]

\* claimCronSlot creates the file.
Claim(b, t) ==
    /\ Ticks(b, t)
    /\ usable /\ ClaimKey(b, t) \notin claims
    /\ claims' = claims \cup {ClaimKey(b, t)}
    /\ starting' = [starting EXCEPT ![b] = @ \cup {t}]
    /\ UNCHANGED <<usable, unclaimed, orchestrator, run, effects>>

Taken(b, t) ==
    /\ Ticks(b, t)
    /\ usable /\ ClaimKey(b, t) \in claims
    /\ UNCHANGED <<claims, usable, unclaimed, starting, orchestrator, run, effects>>

\* The store is unusable: refused, or fired anyway.
Unavailable(b, t) ==
    /\ Ticks(b, t)
    /\ ~usable
    /\ IF ClaimRequired THEN UNCHANGED <<starting, unclaimed>>
       ELSE /\ starting' = [starting EXCEPT ![b] = @ \cup {t}]
            /\ unclaimed' = unclaimed \cup {t}
    /\ UNCHANGED <<claims, usable, orchestrator, run, effects>>

\* A change that no claim will notice is left out.
StoreChanges ==
    /\ StoreBreaks /\ \E b \in Bridge : Slot \ seen[b] # {}
    /\ usable' = ~usable
    /\ UNCHANGED <<claims, unclaimed, seen, starting, orchestrator, run, effects>>

(***************************************************************************)
(* RecipeOrchestrator.fire, after the awaits of fireYamlRecipe, which read *)
(* nothing that fire does not read again.                                  *)
(***************************************************************************)

\* A slot that was claimed, or a webhook delivery, for the first time or again.
Arrives(b, t) ==
    /\ t \in starting[b] \cup Delivery
    /\ starting' = [starting EXCEPT ![b] = @ \ {t}]
    /\ UNCHANGED <<claims, usable, unclaimed, seen>>

CanStart(b, t) ==
    /\ RecipeOf[t] \notin inFlight[b]
    /\ Cardinality(activeRuns[b]) < MaxConcurrentRuns

\* The recipe is in flight, the limit is reached, or before that the kill switch, the
\* variables or the file are against it.  A delivery leaves nothing behind then.
FireRefused(b, t) ==
    /\ t \in Slot /\ Arrives(b, t)
    /\ UNCHANGED <<orchestrator, run, effects>>

\* A mutant: the attempt's ledger is not read.
LoadedNothing(a, readable) == {}

\* loadExisting: a file that cannot be read, or is a symlink, leaves the cache empty.
Loaded(a, readable) == IF readable THEN ledger[a] ELSE {}

\* attemptStoreFor: a store and a file to read, a store alone, or memory alone.
AttemptStore(store, readable) == readable => store

FireStarts(b, t, i, store, readable) ==
    LET a == AttemptOf[t] IN
    /\ Arrives(b, t)
    /\ CanStart(b, t)
    /\ i \notin Started /\ \A j \in Run : j < i => j \in Started
    /\ AttemptStore(store, readable)
    /\ inFlight' = [inFlight EXCEPT ![b] = @ \cup {RecipeOf[t]}]
    /\ activeRuns' = [activeRuns EXCEPT ![b] = @ \cup {i}]
    /\ timerOf' = [timerOf EXCEPT ![b][RecipeOf[t]] = i]
    /\ run' = [run EXCEPT ![i] = [state |-> "running", bridge |-> b, trigger |-> t,
                                  timer |-> TRUE, expired |-> FALSE, store |-> store,
                                  cache |-> Loaded(a, readable), doing |-> {}]]
    /\ lost' = IF readable THEN lost
               ELSE [lost EXCEPT ![a] = [w \in Write |-> IF w \in ledger[a] THEN @[w] + 1
                                                                             ELSE @[w]]]
    /\ overlaps' = IF AtWork(a) # {} THEN [overlaps EXCEPT ![a] = @ + 1] ELSE overlaps
    /\ UNCHANGED <<ledger, performed>>

\* A mutant: the timer of the name is left running.
ClearInFlightOnly(b, r, runs) ==
    /\ inFlight' = [inFlight EXCEPT ![b] = @ \ {r}]
    /\ timerOf' = [timerOf EXCEPT ![b][r] = 0]
    /\ run' = runs

\* clearInFlight: the name, and the timer it stands for now.
ClearInFlight(b, r, runs) ==
    /\ inFlight' = [inFlight EXCEPT ![b] = @ \ {r}]
    /\ timerOf' = [timerOf EXCEPT ![b][r] = 0]
    /\ run' = IF timerOf[b][r] = 0 THEN runs
              ELSE [runs EXCEPT ![timerOf[b][r]].timer = FALSE]

\* The safety timer of a run.
TimerFires(i) ==
    /\ i \in Started /\ run[i].state # "dead" /\ run[i].timer
    /\ LET b == run[i].bridge
           runs == [run EXCEPT ![i].timer = FALSE,
                               ![i].expired = run[i].state = "running"]
       IN  /\ IF NameOf(i) \in inFlight[b] THEN ClearInFlight(b, NameOf(i), runs)
              ELSE run' = runs /\ UNCHANGED <<inFlight, timerOf>>
           /\ activeRuns' = [activeRuns EXCEPT ![b] = @ \ {i}]
    /\ UNCHANGED <<scheduling, effects>>

\* The dispatch promise settles.
Settle(i) ==
    /\ i \in Started /\ run[i].state = "running"
    /\ ClearInFlight(run[i].bridge, NameOf(i), [run EXCEPT ![i].state = "settled"])
    /\ activeRuns' = [activeRuns EXCEPT ![run[i].bridge] = @ \ {i}]
    /\ UNCHANGED <<scheduling, effects>>

(***************************************************************************)
(* Writes: getOrExecute of the attempt's ledger.                           *)
(***************************************************************************)
Perform(i, w) ==
    LET a == AttemptOf[run[i].trigger] IN
    /\ i \in Started /\ run[i].state = "running"
    /\ w \notin run[i].cache \cup run[i].doing
    /\ run' = [run EXCEPT ![i].doing = @ \cup {w}]
    /\ performed' = [performed EXCEPT ![a][w] = @ + 1]
    /\ UNCHANGED <<scheduling, orchestrator, ledger, lost, overlaps>>

Doing(i, w) ==
    /\ i \in Started /\ run[i].state # "dead" /\ w \in run[i].doing

\* The tool has succeeded: the result is kept, and on disk if the run has a store, unless
\* the append fails or its row is glued to half a line and cannot be parsed.
Record(i, w, appended) ==
    LET a == AttemptOf[run[i].trigger] IN
    /\ Doing(i, w) /\ (appended => run[i].store)
    /\ run' = [run EXCEPT ![i].doing = @ \ {w}, ![i].cache = @ \cup {w}]
    /\ IF appended
       THEN ledger' = [ledger EXCEPT ![a] = @ \cup {w}] /\ UNCHANGED lost
       ELSE lost' = [lost EXCEPT ![a][w] = @ + 1] /\ UNCHANGED ledger
    /\ UNCHANGED <<scheduling, orchestrator, performed, overlaps>>

\* It has failed, by an exception or an error result: nothing was written.
Fail(i, w) ==
    LET a == AttemptOf[run[i].trigger] IN
    /\ Doing(i, w)
    /\ run' = [run EXCEPT ![i].doing = @ \ {w}]
    /\ performed' = [performed EXCEPT ![a][w] = @ - 1]
    /\ UNCHANGED <<scheduling, orchestrator, ledger, lost, overlaps>>

\* The process dies, with what it was about to start and what it was doing.
Crash(b) ==
    LET mine == {i \in Started : run[i].bridge = b /\ run[i].state # "dead"} IN
    /\ starting[b] # {} \/ mine # {}
    /\ starting' = [starting EXCEPT ![b] = {}]
    /\ inFlight' = [inFlight EXCEPT ![b] = {}]
    /\ activeRuns' = [activeRuns EXCEPT ![b] = {}]
    /\ timerOf' = [timerOf EXCEPT ![b] = [r \in Recipe |-> 0]]
    /\ run' = [i \in Run |->
         IF i \in mine
         THEN [run[i] EXCEPT !.state = "dead", !.timer = FALSE, !.cache = {}, !.doing = {}]
         ELSE run[i]]
    /\ lost' = [a \in Attempt |-> [w \in Write |-> lost[a][w] +
         Cardinality({i \in mine : AttemptOf[run[i].trigger] = a /\ w \in run[i].doing})]]
    /\ UNCHANGED <<claims, usable, unclaimed, seen, ledger, performed, overlaps>>

Next ==
    \/ \E b \in Bridge, t \in Trigger :
         \/ SkipTick(b, t) \/ Claim(b, t) \/ Taken(b, t) \/ Unavailable(b, t)
         \/ FireRefused(b, t)
         \/ \E i \in Run, store, readable \in BOOLEAN : FireStarts(b, t, i, store, readable)
    \/ \E i \in Run :
         \/ TimerFires(i) \/ Settle(i)
         \/ \E w \in Write :
              Perform(i, w) \/ Fail(i, w) \/ \E appended \in BOOLEAN : Record(i, w, appended)
    \/ \E b \in Bridge : Crash(b)
    \/ StoreChanges

Spec == Init /\ [][Next]_vars

\* Timers fire; a run need not settle.
FairSpec == Spec /\ \A i \in Run : WF_vars(TimerFires(i))
(***************************************************************************)
(* Properties.                                                             *)
(***************************************************************************)

RunRecord ==
    [state : {"running", "settled", "dead"}, bridge : Bridge, trigger : Trigger,
     timer : BOOLEAN, expired : BOOLEAN, store : BOOLEAN,
     cache : SUBSET Write, doing : SUBSET Write]

\* The types.
TypeOK ==
    /\ usable \in BOOLEAN /\ unclaimed \subseteq Slot /\ claims \subseteq Slot
    /\ seen \in [Bridge -> SUBSET Slot] /\ starting \in [Bridge -> SUBSET Slot]
    /\ inFlight \in [Bridge -> SUBSET Recipe] /\ activeRuns \in [Bridge -> SUBSET Run]
    /\ timerOf \in [Bridge -> [Recipe -> Run \cup {0}]]
    /\ run \in [Run -> {[state |-> "unused"]} \cup RunRecord]
    /\ ledger \in [Attempt -> SUBSET Write] /\ overlaps \in [Attempt -> Nat]
    /\ performed \in [Attempt -> [Write -> Int]] /\ lost \in [Attempt -> [Write -> Nat]]

\* A cron tick is run at most once on the machine, however many bridges see it, crash or
\* are restarted, unless the claim store was unusable when it was fired; with
\* PATCHWORK_CRON_CLAIM_REQUIRED not even then (cronClaim.ts:54-74).
OncePerSlot ==
    \A t \in Slot \ unclaimed : Cardinality({i \in Started : run[i].trigger = t}) <= 1

\* A bridge counts the runs that are in progress and not past their time to live, no more
\* and no less, so a limit of N lets N run.  As long as no run of a recipe outlives its
\* time to live, the recipe runs once at a time and is in flight exactly then
\* (RecipeOrchestrator.ts:64-80).
RunBooks ==
    \A b \in Bridge :
        /\ activeRuns[b] = {i \in Running(b) : ~run[i].expired}
        /\ \A r \in Recipe :
             LET of == {i \in Started : NameOf(i) = r /\ run[i].bridge = b}
             IN  (\A i \in of : ~run[i].expired) =>
                    /\ Cardinality(of \cap Running(b)) <= 1
                    /\ (r \in inFlight[b]) = (of \cap Running(b) # {})

\* Each write of an attempt is performed once, over all its deliveries, runs and crashes
\* (runLedgers.ts:11-12, idempotencyKey.ts:156-157), and again at most once for each time
\* its record was lost, not written or not read by a run that started
\* (idempotencyKey.ts:167-170: it "degrades to 're-execute side effects'"), and once for
\* each run that was started beside another, whose cache it does not see (lines 147-148).
EffectsOnce ==
    \A a \in Attempt, w \in Write : performed[a][w] <= 1 + lost[a][w] + overlaps[a]

\* What RecipeOrchestrator.ts:183-184 says of the run limit: "a hung run must not hold a
\* slot forever".
HungRunReleased == \A i \in Run : (\E b \in Bridge : i \in activeRuns[b]) ~>
                                  (\A b \in Bridge : i \notin activeRuns[b])

\* What scheduler.ts:588-594 says of the claim: it is taken after "every local 'should I
\* even run this' decision", so a bridge that will not run the recipe leaves the slot.
ClaimsWhatItCanRun ==
    [][\A b \in Bridge, t \in Slot : t \in starting'[b] \ starting[b] => CanStart(b, t)]_vars
=============================================================================
