-------------------------- MODULE RecipeFireProofs --------------------------
(***************************************************************************)
(* What RecipeFire promises for any number of bridges, recipes, ticks,     *)
(* deliveries, writes and runs.                                            *)
(*                                                                         *)
(* None of the three invariants is inductive.  OncePerSlot rests on where  *)
(* a claimed tick can be (Slots); RunBooks on whose timer a name stands    *)
(* for (Books); EffectsOnce on how many runs of an attempt do a write or   *)
(* may come to do it, and what of it is on record (Effects).               *)
(***************************************************************************)
EXTENDS RecipeFire, FiniteSetTheorems, TLAPS

\* A claimed tick is with one bridge that is about to fire it, or with one run.
Slots ==
    /\ \A t \in Slot \ unclaimed, b \in Bridge : t \in starting[b] =>
         /\ t \in claims
         /\ \A c \in Bridge : t \in starting[c] => c = b
         /\ \A i \in Started : run[i].trigger # t
    /\ \A t \in Slot \ unclaimed, i \in Started : run[i].trigger = t =>
         /\ t \in claims
         /\ \A j \in Started : run[j].trigger = t => j = i

\* A timer that is set is the one its run's name stands for.
TimerNamed(i) ==
    run[i].timer => /\ run[i].state = "running" /\ ~run[i].expired
                    /\ timerOf[run[i].bridge][NameOf(i)] = i

\* A name is in flight exactly when it stands for a timer that is set.
NameTimed(b, r) ==
    LET i == timerOf[b][r] IN
    /\ r \in inFlight[b] <=> i # 0
    /\ i # 0 => i \in Started /\ run[i].timer /\ run[i].bridge = b /\ NameOf(i) = r

Timers ==
    /\ \A i \in Started : TimerNamed(i)
    /\ \A b \in Bridge, r \in Recipe : NameTimed(b, r)

\* The runs that hold a place under the limit.
Counted == \A b \in Bridge : activeRuns[b] = {i \in Running(b) : ~run[i].expired}

\* A run goes on without a timer only once a run of its name, on its bridge, has expired.
Timed ==
    \A i \in Started : run[i].state = "running" =>
        \/ run[i].timer
        \/ \E j \in Started : /\ NameOf(j) = NameOf(i) /\ run[j].bridge = run[i].bridge
                              /\ run[j].expired

Books == Timers /\ Counted /\ Timed

\* A dead run does no write.
Tidy(i) == run[i].state = "dead" => run[i].doing = {}

\* The runs that are doing a write, and those that may come to do it.
Doers(a, w) ==
    {i \in Started : AttemptOf[run[i].trigger] = a /\ w \in run[i].doing}

Candidates(a, w) ==
    {i \in Started : /\ AttemptOf[run[i].trigger] = a /\ run[i].state = "running"
                     /\ w \notin run[i].cache \cup run[i].doing}

\* A write can still be performed only as often as that is excused, and one that is not on
\* record has been lost each time but for those that are doing it.
Once(a, w) ==
    /\ performed[a][w] + Cardinality(Candidates(a, w)) <= 1 + lost[a][w] + overlaps[a]
    /\ w \notin ledger[a] => performed[a][w] <= lost[a][w] + Cardinality(Doers(a, w))

Effects == (\A i \in Started : Tidy(i)) /\ (\A a \in Attempt, w \in Write : Once(a, w))

Inv == TypeOK /\ Slots /\ Books /\ Effects

(***************************************************************************)
(* What the steps do to the runs.                                          *)
(***************************************************************************)

\* A run that has started is a record with all its fields.
LEMMA StartedRecord == ASSUME TypeOK, NEW i \in Started PROVE run[i] \in RunRecord
BY DEF TypeOK, Started

\* A step leaves run j as it is.
Same(j) == run'[j] = run[j]

\* fire() starts run i, whether or not it has a store and can read it.
Fires(b, t, i) == \E store, readable \in BOOLEAN : FireStarts(b, t, i, store, readable)

\* It adds one run, which does nothing yet.
LEMMA FireEffect ==
  ASSUME TypeOK, NEW b \in Bridge, NEW t \in Trigger, NEW i \in Run, Fires(b, t, i)
  PROVE  /\ i \notin Started /\ Started' = Started \cup {i}
         /\ run'[i] \in RunRecord
         /\ run'[i].state = "running" /\ run'[i].bridge = b /\ run'[i].trigger = t
         /\ run'[i].timer /\ ~run'[i].expired /\ run'[i].doing = {}
         /\ \A j \in Run \ {i} : Same(j)
         /\ \A j \in Started : run'[j] = run[j]
<1>1. PICK store \in BOOLEAN, readable \in BOOLEAN : FireStarts(b, t, i, store, readable)
  BY DEF Fires
<1> DEFINE known == Loaded(AttemptOf[t], readable)
<1>2. known \in SUBSET Write
  BY DEF Loaded, TypeOK, Attempt
<1>3. /\ i \notin Started
      /\ run' = [run EXCEPT ![i] = [state |-> "running", bridge |-> b, trigger |-> t,
                                    timer |-> TRUE, expired |-> FALSE, store |-> store,
                                    cache |-> known, doing |-> {}]]
  BY <1>1 DEF FireStarts
<1> HIDE DEF known
<1>4. run'[i] = [state |-> "running", bridge |-> b, trigger |-> t, timer |-> TRUE,
                 expired |-> FALSE, store |-> store, cache |-> known, doing |-> {}]
  BY <1>3 DEF TypeOK
<1>5. run'[i] \in RunRecord
  BY <1>2, <1>4 DEF RunRecord
<1>6. \A j \in Run \ {i} : Same(j)
  BY <1>3 DEF TypeOK, Same
<1>7. Started' = Started \cup {i}
  BY <1>4, <1>6 DEF Started, Same
<1>8. \A j \in Started : run'[j] = run[j]
  BY <1>3, <1>6 DEF Started, Same
<1>9. /\ run'[i].state = "running" /\ run'[i].bridge = b /\ run'[i].trigger = t
      /\ run'[i].timer /\ ~run'[i].expired /\ run'[i].doing = {}
  BY <1>4
<1> QED BY <1>3, <1>5, <1>6, <1>7, <1>8, <1>9

\* For every write of which it does not know although it is recorded, a loss is counted.
LEMMA LoadEffect ==
  ASSUME TypeOK, NEW b \in Bridge, NEW t \in Trigger, NEW i \in Run, Fires(b, t, i),
         NEW c \in Attempt, NEW w \in Write
  PROVE  /\ lost[c][w] \in Nat /\ lost'[c][w] \in Nat /\ lost'[c][w] >= lost[c][w]
         /\ c = AttemptOf[t] /\ w \in ledger[c] /\ w \notin run'[i].cache =>
              lost'[c][w] >= lost[c][w] + 1
<1>1. PICK store \in BOOLEAN, readable \in BOOLEAN : FireStarts(b, t, i, store, readable)
  BY DEF Fires
<1>2. lost[c][w] \in Nat
  BY DEF TypeOK
<1>3. CASE readable
  <2>1. run'[i].cache = ledger[AttemptOf[t]] /\ lost' = lost
    BY <1>1, <1>3 DEF FireStarts, Loaded, TypeOK
  <2> QED BY <1>2, <2>1
<1>4. CASE ~readable
  <2> DEFINE a == AttemptOf[t]
             more == [v \in Write |-> IF v \in ledger[a] THEN lost[a][v] + 1 ELSE lost[a][v]]
  <2>1. lost' = [lost EXCEPT ![a] = more]
    BY <1>1, <1>4 DEF FireStarts
  <2>2. lost'[c] = IF c = a THEN more ELSE lost[c]
    BY <2>1 DEF TypeOK
  <2>3. lost'[c][w] = IF c = a /\ w \in ledger[a] THEN lost[c][w] + 1 ELSE lost[c][w]
    BY <2>2
  <2> HIDE DEF a, more
  <2>4. a = AttemptOf[t]
    BY DEF a
  <2> QED BY <1>2, <2>3, <2>4
<1> QED BY <1>3, <1>4

\* The timer of a run that goes on expires it, and ends its claim to its name.
LEMMA TimerEffect ==
  ASSUME TypeOK, Timers, NEW i \in Run, TimerFires(i)
  PROVE  LET b == run[i].bridge
             r == NameOf(i)
         IN  /\ i \in Started
             /\ run' = [run EXCEPT ![i].timer = FALSE, ![i].expired = TRUE]
             /\ inFlight' = [inFlight EXCEPT ![b] = @ \ {r}]
             /\ timerOf' = [timerOf EXCEPT ![b][r] = 0]
             /\ activeRuns' = [activeRuns EXCEPT ![b] = @ \ {i}]
<1> DEFINE b == run[i].bridge
           r == NameOf(i)
           runs == [run EXCEPT ![i].timer = FALSE, ![i].expired = run[i].state = "running"]
<1>1. i \in Started /\ run[i].timer /\ run[i] \in RunRecord
  BY StartedRecord DEF TimerFires
<1>2. run[i].state = "running" /\ timerOf[b][r] = i /\ b \in Bridge /\ r \in Recipe
  BY <1>1, RecipeAssumption DEF Timers, TimerNamed, RunRecord, NameOf
<1>3. r \in inFlight[b]
  BY <1>2 DEF Timers, NameTimed, Run
<1>4. ClearInFlight(b, r, runs) /\ activeRuns' = [activeRuns EXCEPT ![b] = @ \ {i}]
  BY <1>3 DEF TimerFires
<1>5. run' = [runs EXCEPT ![i].timer = FALSE]
  BY <1>2, <1>4 DEF ClearInFlight, Run
<1>6. runs = [run EXCEPT ![i].timer = FALSE, ![i].expired = TRUE]
  BY <1>2
<1>7. [[run EXCEPT ![i].timer = FALSE, ![i].expired = TRUE] EXCEPT ![i].timer = FALSE]
      = [run EXCEPT ![i].timer = FALSE, ![i].expired = TRUE]
  BY <1>1 DEF TypeOK, RunRecord
<1> QED BY <1>1, <1>4, <1>5, <1>6, <1>7 DEF ClearInFlight

\* Clearing the timer of a run leaves its other fields.
LEMMA TimerCleared ==
  ASSUME NEW x \in RunRecord, NEW y, y = [x EXCEPT !.timer = FALSE]
  PROVE  /\ y \in RunRecord /\ y.timer = FALSE
         /\ y.state = x.state /\ y.expired = x.expired
         /\ y.bridge = x.bridge /\ y.trigger = x.trigger
         /\ y.cache = x.cache /\ y.doing = x.doing
BY DEF RunRecord

\* A dispatch that settles clears the timer its name stands for, its own or a later run's.
LEMMA SettleEffect ==
  ASSUME TypeOK, Timers, NEW i \in Run, Settle(i)
  PROVE  LET b == run[i].bridge
             r == NameOf(i)
         IN  /\ i \in Started /\ run[i].state = "running"
             /\ Started' = Started
             /\ \A j \in Started :
                  /\ run'[j] \in RunRecord
                  /\ run'[j].state = IF j = i THEN "settled" ELSE run[j].state
                  /\ run'[j].timer = (run[j].timer /\ j # timerOf[b][r])
                  /\ run'[j].bridge = run[j].bridge /\ run'[j].trigger = run[j].trigger
                  /\ run'[j].expired = run[j].expired
                  /\ run'[j].cache = run[j].cache /\ run'[j].doing = run[j].doing
             /\ inFlight' = [inFlight EXCEPT ![b] = @ \ {r}]
             /\ timerOf' = [timerOf EXCEPT ![b][r] = 0]
             /\ activeRuns' = [activeRuns EXCEPT ![b] = @ \ {i}]
<1> DEFINE b == run[i].bridge
           r == NameOf(i)
           c == timerOf[b][r]
           runs == [run EXCEPT ![i].state = "settled"]
<1>1. i \in Started /\ run[i].state = "running" /\ run[i] \in RunRecord
  BY StartedRecord DEF Settle
<1>2. ClearInFlight(b, r, runs) /\ activeRuns' = [activeRuns EXCEPT ![b] = @ \ {i}]
  BY DEF Settle
<1>3. ASSUME NEW j \in Started
      PROVE  /\ runs[j] \in RunRecord
             /\ runs[j].state = IF j = i THEN "settled" ELSE run[j].state
             /\ runs[j].timer = run[j].timer /\ runs[j].expired = run[j].expired
             /\ runs[j].bridge = run[j].bridge /\ runs[j].trigger = run[j].trigger
             /\ runs[j].cache = run[j].cache /\ runs[j].doing = run[j].doing
  BY <1>1, StartedRecord DEF RunRecord, TypeOK, Started
<1>4. DOMAIN runs = Run /\ \A j \in Run \ Started : runs[j] = run[j]
  BY <1>1 DEF TypeOK
<1>. c = 0 \/ c \in Started
  BY <1>1, RecipeAssumption DEF Timers, NameTimed, RunRecord, NameOf
<1>. 0 \notin Run
  BY RecipeAssumption DEF Run
<1>5. ASSUME NEW j \in Started
      PROVE  /\ run'[j] \in RunRecord
             /\ run'[j].state = runs[j].state
             /\ run'[j].timer = (runs[j].timer /\ j # c)
             /\ run'[j].expired = runs[j].expired
             /\ run'[j].bridge = runs[j].bridge /\ run'[j].trigger = runs[j].trigger
             /\ run'[j].cache = runs[j].cache /\ run'[j].doing = runs[j].doing
  <2>1. CASE c = 0
    BY <1>2, <1>3, <2>1 DEF ClearInFlight, Started, Run, RunRecord
  <2>2. CASE c # 0 /\ j # c
    <3>1. run'[j] = runs[j]
      BY <1>2, <1>4, <2>2 DEF ClearInFlight, Started
    <3> QED BY <1>3, <2>2, <3>1 DEF RunRecord
  <2>3. CASE j = c
    <3>1. run'[j] = [runs[j] EXCEPT !.timer = FALSE]
      BY <1>2, <1>4, <2>3 DEF ClearInFlight, Started
    <3>2. runs[j] \in RunRecord
      BY <1>3
    <3>3. /\ run'[j] \in RunRecord /\ run'[j].timer = FALSE
          /\ run'[j].state = runs[j].state /\ run'[j].expired = runs[j].expired
          /\ run'[j].bridge = runs[j].bridge /\ run'[j].trigger = runs[j].trigger
          /\ run'[j].cache = runs[j].cache /\ run'[j].doing = runs[j].doing
      <4> HIDE DEF runs, c
      <4> QED BY <3>1, <3>2, TimerCleared
    <3> HIDE DEF runs, c
    <3> QED BY <2>3, <3>3
  <2> QED BY <2>1, <2>2, <2>3
<1>6. Started' = Started
  <2>1. \A j \in Run \ Started : run'[j].state = "unused"
    BY <1>2, <1>4 DEF ClearInFlight, Started
  <2> QED BY <1>1, <1>3, <1>5, <2>1 DEF Started
<1>7. /\ inFlight' = [inFlight EXCEPT ![b] = @ \ {r}]
      /\ timerOf' = [timerOf EXCEPT ![b][r] = 0]
      /\ activeRuns' = [activeRuns EXCEPT ![b] = @ \ {i}]
  BY <1>2 DEF ClearInFlight
<1> HIDE DEF runs
<1> QED BY <1>1, <1>3, <1>5, <1>6, <1>7

\* What a settling dispatch i changes of run j.
LEMMA SettledRun ==
  ASSUME TypeOK, Timers, NEW i \in Run, Settle(i), NEW j \in Started
  PROVE  /\ run'[j].state = IF j = i THEN "settled" ELSE run[j].state
         /\ run'[j].timer = (run[j].timer /\ j # timerOf[run[i].bridge][NameOf(i)])
         /\ run'[j].bridge = run[j].bridge /\ run'[j].trigger = run[j].trigger
         /\ run'[j].expired = run[j].expired
<1> DEFINE settled == IF j = i THEN "settled" ELSE run[j].state
           timed == (run[j].timer /\ j # timerOf[run[i].bridge][NameOf(i)])
<1>1. /\ run'[j].state = settled /\ run'[j].timer = timed
      /\ run'[j].bridge = run[j].bridge /\ run'[j].trigger = run[j].trigger
      /\ run'[j].expired = run[j].expired
  BY ZenonT(30), SettleEffect
<1> QED BY <1>1

\* A step changes, of the runs, only what run i has cached and is doing.
Works(i) ==
    /\ i \in Started /\ Started' = Started
    /\ \A j \in Run \ {i} : Same(j)
    /\ run'[i] \in RunRecord
    /\ run'[i].state = run[i].state /\ run[i].state # "dead"
    /\ run'[i].timer = run[i].timer /\ run'[i].expired = run[i].expired
    /\ run'[i].bridge = run[i].bridge /\ run'[i].trigger = run[i].trigger

\* A write that starts, fails or succeeds.
LEMMA PerformEffect ==
  ASSUME TypeOK, NEW i \in Run, NEW w \in Write, Perform(i, w)
  PROVE  /\ Works(i)
         /\ run'[i].cache = run[i].cache /\ run'[i].doing = run[i].doing \cup {w}
<1>1. i \in Started /\ run[i] \in RunRecord /\ run[i].state # "dead" /\ DOMAIN run = Run
  BY StartedRecord DEF Perform, TypeOK
<1>2. run'[i] = [run[i] EXCEPT !.doing = @ \cup {w}] /\ \A j \in Run \ {i} : Same(j)
  BY <1>1 DEF Perform, Same
<1> QED BY <1>1, <1>2 DEF RunRecord, Started, Works, Same

LEMMA FailEffect ==
  ASSUME TypeOK, NEW i \in Run, NEW w \in Write, Fail(i, w)
  PROVE  /\ Works(i)
         /\ run'[i].cache = run[i].cache /\ run'[i].doing = run[i].doing \ {w}
<1>1. i \in Started /\ run[i] \in RunRecord /\ run[i].state # "dead" /\ DOMAIN run = Run
  BY StartedRecord DEF Fail, Doing, TypeOK
<1>2. run'[i] = [run[i] EXCEPT !.doing = @ \ {w}] /\ \A j \in Run \ {i} : Same(j)
  BY <1>1 DEF Fail, Same
<1> QED BY <1>1, <1>2 DEF RunRecord, Started, Works, Same

LEMMA RecordEffect ==
  ASSUME TypeOK, NEW i \in Run, NEW w \in Write, NEW appended, Record(i, w, appended)
  PROVE  /\ Works(i)
         /\ run'[i].cache = run[i].cache \cup {w} /\ run'[i].doing = run[i].doing \ {w}
<1>1. i \in Started /\ run[i] \in RunRecord /\ run[i].state # "dead" /\ DOMAIN run = Run
  BY StartedRecord DEF Record, Doing, TypeOK
<1>2. /\ run'[i] = [run[i] EXCEPT !.doing = run[i].doing \ {w},
                                  !.cache = run[i].cache \cup {w}]
      /\ \A j \in Run \ {i} : Same(j)
  BY <1>1 DEF Record, Same
<1>3. /\ run'[i].cache = run[i].cache \cup {w} /\ run'[i].doing = run[i].doing \ {w}
      /\ run'[i].state = run[i].state
      /\ run'[i].timer = run[i].timer /\ run'[i].expired = run[i].expired
      /\ run'[i].bridge = run[i].bridge /\ run'[i].trigger = run[i].trigger
  BY <1>1, <1>2 DEF RunRecord
<1>4. run'[i] \in RunRecord
  <2> DEFINE done == run[i].doing \ {w}
             kept == run[i].cache \cup {w}
  <2>1. done \in SUBSET Write /\ kept \in SUBSET Write
    BY <1>1 DEF RunRecord
  <2>2. run'[i] = [run[i] EXCEPT !.doing = done, !.cache = kept]
    BY <1>2
  <2> HIDE DEF done, kept
  <2> QED BY <1>1, <2>1, <2>2 DEF RunRecord
<1>5. Started' = Started
  BY <1>1, <1>2, <1>3 DEF Started, Same
<1> QED BY <1>1, <1>2, <1>3, <1>4, <1>5 DEF Works

\* A crash ends the runs of one bridge and leaves the others as they are.
LEMMA CrashEffect ==
  ASSUME TypeOK, Timers, NEW b \in Bridge, Crash(b)
  PROVE  /\ Started' = Started
         /\ \A j \in Started :
              /\ run'[j] \in RunRecord
              /\ run'[j].bridge = run[j].bridge /\ run'[j].trigger = run[j].trigger
              /\ run'[j].expired = run[j].expired
              /\ run[j].bridge # b => Same(j)
              /\ run[j].bridge = b /\ run[j].state # "dead" =>
                   /\ run'[j].cache = {} /\ run'[j].doing = {}
              /\ run[j].bridge = b => run'[j].state = "dead" /\ ~run'[j].timer
              /\ run[j].state = "dead" => Same(j)
<1> DEFINE mine == {i \in Started : run[i].bridge = b /\ run[i].state # "dead"}
<1>1. \A j \in Run : run'[j] =
         IF j \in mine
         THEN [run[j] EXCEPT !.state = "dead", !.timer = FALSE, !.cache = {}, !.doing = {}]
         ELSE run[j]
  BY DEF Crash
<1>2. ASSUME NEW j \in mine
      PROVE  /\ run'[j] \in RunRecord /\ run'[j].state = "dead" /\ run'[j].timer = FALSE
             /\ run'[j].bridge = run[j].bridge /\ run'[j].trigger = run[j].trigger
             /\ run'[j].expired = run[j].expired
             /\ run'[j].cache = {} /\ run'[j].doing = {}
  <2>1. run'[j] = [run[j] EXCEPT !.state = "dead", !.timer = FALSE, !.cache = {},
                                 !.doing = {}]
    BY <1>1, <1>2 DEF Started
  <2>2. run[j] \in RunRecord
    BY StartedRecord
  <2> QED BY <2>1, <2>2 DEF RunRecord
<1>3. \A j \in Run \ mine : Same(j)
  BY <1>1 DEF Same
<1>4. Started' = Started
  <2>1. \A j \in Run : run'[j].state = "unused" <=> run[j].state = "unused"
    BY <1>2, <1>3 DEF Same, Started
  <2> QED BY <2>1 DEF Started
<1>5. \A j \in Started : run[j].state = "dead" => ~run[j].timer
  BY DEF Timers, TimerNamed
<1> QED BY <1>2, <1>3, <1>4, <1>5, StartedRecord DEF Same, Started

\* Every step but fire() keeps the runs there are, and each on its bridge for its trigger.
LEMMA RunsKept ==
  ASSUME TypeOK, Timers, [Next]_vars,
         ~ \E b \in Bridge, t \in Trigger, i \in Run : Fires(b, t, i)
  PROVE  /\ Started' = Started
         /\ \A j \in Started : /\ run'[j] \in RunRecord
                               /\ run'[j].bridge = run[j].bridge
                               /\ run'[j].trigger = run[j].trigger
<1>1. CASE run' = run
  BY <1>1, StartedRecord DEF Started
<1>2. CASE \E i \in Run : TimerFires(i)
  <2> PICK i \in Run : TimerFires(i)
    BY <1>2
  <2>1. i \in Started /\ run' = [run EXCEPT ![i].timer = FALSE, ![i].expired = TRUE]
    BY TimerEffect
  <2>2. run[i] \in RunRecord
    BY <2>1, StartedRecord
  <2>3. run'[i] \in RunRecord /\ run'[i].bridge = run[i].bridge
        /\ run'[i].trigger = run[i].trigger /\ run'[i].state = run[i].state
    BY <2>1, <2>2 DEF TypeOK, Started, RunRecord
  <2>4. \A j \in Run \ {i} : run'[j] = run[j]
    BY <2>1 DEF TypeOK
  <2> QED BY <2>1, <2>3, <2>4, StartedRecord DEF Started
<1>3. CASE \E i \in Run : Settle(i)
  BY <1>3, SettleEffect
<1>4. CASE \E i \in Run, w \in Write :
             Perform(i, w) \/ Fail(i, w) \/ \E appended \in BOOLEAN : Record(i, w, appended)
  <2> PICK i \in Run : Works(i)
    BY <1>4, PerformEffect, FailEffect, RecordEffect
  <2> QED BY StartedRecord DEF Works, Same, Started
<1>5. CASE \E b \in Bridge : Crash(b)
  BY <1>5, CrashEffect
<1> QED BY <1>1, <1>2, <1>3, <1>4, <1>5
        DEF Next, Fires, vars, SkipTick, Claim, Taken, Unavailable, FireRefused, StoreChanges

\* Started runs are finitely many.
LEMMA RunsFinite == ASSUME NEW S, S \subseteq Run PROVE IsFiniteSet(S)
<1>1. 1 \in Int /\ MaxRuns \in Int
  BY RecipeAssumption
<1>2. IsFiniteSet(1..MaxRuns)
  BY <1>1, FS_Interval
<1> QED BY <1>2, FS_Subset DEF Run

\* Every step keeps the types.
LEMMA TypePreserved == ASSUME TypeOK, Timers, [Next]_vars PROVE TypeOK'
<1> USE RecipeAssumption
<1>1. CASE UNCHANGED vars
  BY <1>1 DEF vars, TypeOK
<1>2. ASSUME NEW b \in Bridge, NEW t \in Trigger,
             \/ SkipTick(b, t) \/ Claim(b, t) \/ Taken(b, t) \/ Unavailable(b, t)
             \/ FireRefused(b, t)
      PROVE  TypeOK'
  <2>1. /\ UNCHANGED <<inFlight, activeRuns, timerOf, run, ledger, performed, lost,
                       overlaps>>
        /\ seen' \in [Bridge -> SUBSET Slot] /\ starting' \in [Bridge -> SUBSET Slot]
        /\ usable' \in BOOLEAN /\ unclaimed' \subseteq Slot
    <3>1. CASE SkipTick(b, t)
      BY <3>1 DEF SkipTick, orchestrator, effects, TypeOK
    <3>2. CASE Claim(b, t) \/ Taken(b, t) \/ Unavailable(b, t)
      <4>1. t \in Slot /\ seen' = [seen EXCEPT ![b] = @ \cup {t}]
        BY <3>2 DEF Claim, Taken, Unavailable, Ticks
      <4>2. /\ UNCHANGED <<usable, inFlight, activeRuns, timerOf, run, ledger, performed,
                           lost, overlaps>>
            /\ starting' = starting \/ starting' = [starting EXCEPT ![b] = @ \cup {t}]
            /\ unclaimed' = unclaimed \/ unclaimed' = unclaimed \cup {t}
        BY <3>2 DEF Claim, Taken, Unavailable, orchestrator, effects
      <4> QED BY <4>1, <4>2 DEF TypeOK
    <3>3. CASE FireRefused(b, t)
      BY <3>3 DEF FireRefused, Arrives, orchestrator, effects, TypeOK
    <3> QED BY <1>2, <3>1, <3>2, <3>3
  <2>2. claims' \subseteq Slot
    BY <1>2 DEF SkipTick, Claim, Taken, Unavailable, FireRefused, Ticks, Arrives, TypeOK,
                ClaimKey
  <2> QED BY <2>1, <2>2 DEF TypeOK
<1>3. ASSUME NEW b \in Bridge, NEW t \in Trigger, NEW i \in Run, Fires(b, t, i)
      PROVE  TypeOK'
  <2>1. PICK store \in BOOLEAN, readable \in BOOLEAN : FireStarts(b, t, i, store, readable)
    BY <1>3 DEF Fires
  <2>2. AttemptOf[t] \in Attempt /\ RecipeOf[t] \in Recipe
    BY DEF Attempt
  <2>3. run' \in [Run -> {[state |-> "unused"]} \cup RunRecord]
    <3>1. run' = [j \in Run |-> run'[j]]
      BY <2>1 DEF FireStarts, TypeOK
    <3>2. run'[i] \in RunRecord /\ \A j \in Run \ {i} : Same(j)
      BY <1>3, FireEffect
    <3> QED BY <3>1, <3>2 DEF TypeOK, Same
  <2>4. lost' \in [Attempt -> [Write -> Nat]]
    <3> DEFINE a == AttemptOf[t]
               more == [w \in Write |-> IF w \in ledger[a] THEN lost[a][w] + 1 ELSE lost[a][w]]
    <3>1. lost' = lost \/ lost' = [lost EXCEPT ![a] = more]
      BY <2>1 DEF FireStarts
    <3>2. more \in [Write -> Nat]
      BY <2>2 DEF TypeOK
    <3> HIDE DEF more
    <3> QED BY <3>1, <3>2 DEF TypeOK
  <2>5. overlaps' \in [Attempt -> Nat]
    <3>1. overlaps' = overlaps \/ overlaps' = [overlaps EXCEPT ![AttemptOf[t]] = @ + 1]
      BY <2>1 DEF FireStarts
    <3>2. \A c \in Attempt : overlaps[c] \in Nat /\ overlaps[c] + 1 \in Nat
      BY DEF TypeOK
    <3> QED BY <2>2, <3>1, <3>2 DEF TypeOK
  <2>6. /\ inFlight' \in [Bridge -> SUBSET Recipe] /\ activeRuns' \in [Bridge -> SUBSET Run]
        /\ timerOf' \in [Bridge -> [Recipe -> Run \cup {0}]]
        /\ starting' \in [Bridge -> SUBSET Slot]
    BY <2>1, <2>2 DEF FireStarts, Arrives, TypeOK
  <2> QED BY <2>1, <2>3, <2>4, <2>5, <2>6 DEF FireStarts, Arrives, TypeOK
<1>4. ASSUME NEW i \in Run, TimerFires(i) \/ Settle(i)
      PROVE  TypeOK'
  <2>1. i \in Started /\ run[i] \in RunRecord
    BY <1>4, StartedRecord DEF TimerFires, Settle
  <2>2. run[i].bridge \in Bridge /\ NameOf(i) \in Recipe
    BY <2>1 DEF RunRecord, NameOf
  <2>3. /\ inFlight' \in [Bridge -> SUBSET Recipe] /\ activeRuns' \in [Bridge -> SUBSET Run]
        /\ timerOf' \in [Bridge -> [Recipe -> Run \cup {0}]]
    <3>1. /\ inFlight' = [inFlight EXCEPT ![run[i].bridge] = @ \ {NameOf(i)}]
          /\ timerOf' = [timerOf EXCEPT ![run[i].bridge][NameOf(i)] = 0]
          /\ activeRuns' = [activeRuns EXCEPT ![run[i].bridge] = @ \ {i}]
      BY <1>4, TimerEffect, SettleEffect
    <3> QED BY <2>2, <3>1 DEF TypeOK
  <2>4. run' \in [Run -> {[state |-> "unused"]} \cup RunRecord]
    <3>1. \A j \in Started : run'[j] \in RunRecord
      <4>1. CASE TimerFires(i)
        <5>1. run' = [run EXCEPT ![i].timer = FALSE, ![i].expired = TRUE]
          BY <4>1, TimerEffect
        <5> QED BY <2>1, <5>1, StartedRecord DEF TypeOK, RunRecord, Started
      <4>2. CASE Settle(i)
        BY <4>2, SettleEffect
      <4> QED BY <1>4, <4>1, <4>2
    <3>2. \A j \in Run \ Started : run'[j] = run[j]
      <4>1. CASE TimerFires(i)
        <5>1. run' = [run EXCEPT ![i].timer = FALSE, ![i].expired = TRUE]
          BY <4>1, TimerEffect
        <5> QED BY <2>1, <5>1 DEF TypeOK, Started
      <4>2. CASE Settle(i)
        <5> DEFINE c == timerOf[run[i].bridge][NameOf(i)]
        <5>1. c = 0 \/ c \in Started
          BY <2>2 DEF Timers, NameTimed
        <5> QED BY <2>1, <4>2, <5>1 DEF Settle, ClearInFlight, Started, TypeOK
      <4> QED BY <1>4, <4>1, <4>2
    <3>3. run' = [j \in Run |-> run'[j]]
      BY <1>4, TimerEffect DEF TypeOK, Settle, ClearInFlight
    <3> QED BY <3>1, <3>2, <3>3 DEF TypeOK
  <2> QED BY <1>4, <2>3, <2>4 DEF TimerFires, Settle, scheduling, effects, TypeOK
<1>5. ASSUME NEW i \in Run, NEW w \in Write, NEW appended \in BOOLEAN,
             Perform(i, w) \/ Fail(i, w) \/ Record(i, w, appended)
      PROVE  TypeOK'
  <2>1. Works(i) /\ run[i] \in RunRecord
    BY <1>5, PerformEffect, FailEffect, RecordEffect, StartedRecord DEF Works
  <2>2. run' \in [Run -> {[state |-> "unused"]} \cup RunRecord]
    <3>1. run' = [j \in Run |-> run'[j]]
      BY <1>5 DEF TypeOK, Perform, Fail, Record
    <3> QED BY <2>1, <3>1 DEF Works, Same, TypeOK
  <2>3. AttemptOf[run[i].trigger] \in Attempt
    BY <2>1 DEF RunRecord, Attempt
  <2>4. /\ ledger' \in [Attempt -> SUBSET Write]
        /\ performed' \in [Attempt -> [Write -> Int]] /\ lost' \in [Attempt -> [Write -> Nat]]
    <3>1. CASE Perform(i, w)
      BY <2>3, <3>1 DEF TypeOK, Perform
    <3>2. CASE Fail(i, w)
      BY <2>3, <3>2 DEF TypeOK, Fail
    <3>3. CASE Record(i, w, appended)
      <4>1. CASE appended
        BY <2>3, <3>3, <4>1 DEF TypeOK, Record
      <4>2. CASE ~appended
        <5> DEFINE a == AttemptOf[run[i].trigger]
        <5>1. lost' = [lost EXCEPT ![a][w] = @ + 1] /\ UNCHANGED <<ledger, performed>>
          BY <3>3, <4>2 DEF Record
        <5> HIDE DEF a
        <5>2. a \in Attempt /\ lost[a][w] + 1 \in Nat
          BY <2>3 DEF TypeOK, a
        <5> QED BY <5>1, <5>2 DEF TypeOK
      <4> QED BY <4>1, <4>2
    <3> QED BY <1>5, <3>1, <3>2, <3>3
  <2> QED BY <1>5, <2>2, <2>4 DEF Perform, Fail, Record, scheduling, orchestrator, TypeOK
<1>6. ASSUME NEW b \in Bridge, Crash(b) PROVE TypeOK'
  <2>1. run' \in [Run -> {[state |-> "unused"]} \cup RunRecord]
    <3>1. run' = [j \in Run |-> run'[j]]
      BY <1>6 DEF Crash
    <3>2. \A j \in Run \ Started : run'[j] = run[j]
      BY <1>6 DEF Crash
    <3> QED BY <1>6, <3>1, <3>2, CrashEffect DEF TypeOK
  <2>2. lost' \in [Attempt -> [Write -> Nat]]
    <3> DEFINE mine == {i \in Started : run[i].bridge = b /\ run[i].state # "dead"}
               of(a, w) == {i \in mine : AttemptOf[run[i].trigger] = a /\ w \in run[i].doing}
    <3>1. \A a \in Attempt, w \in Write : Cardinality(of(a, w)) \in Nat
      BY RunsFinite, FS_CardinalityType DEF Started
    <3>2. lost' = [a \in Attempt |-> [w \in Write |-> lost[a][w] + Cardinality(of(a, w))]]
      BY <1>6 DEF Crash
    <3> HIDE DEF of
    <3> QED BY <3>1, <3>2 DEF TypeOK
  <2>3. /\ inFlight' \in [Bridge -> SUBSET Recipe] /\ activeRuns' \in [Bridge -> SUBSET Run]
        /\ starting' \in [Bridge -> SUBSET Slot]
        /\ timerOf' \in [Bridge -> [Recipe -> Run \cup {0}]]
    BY <1>6 DEF Crash, TypeOK
  <2> QED BY <1>6, <2>1, <2>2, <2>3 DEF Crash, TypeOK
<1>7. CASE StoreChanges
  BY <1>7 DEF StoreChanges, orchestrator, effects, TypeOK
<1> QED BY <1>1, <1>2, <1>3, <1>4, <1>5, <1>6, <1>7 DEF Next, Fires

\* A step that takes a tick from no bridge to another keeps ticks where they can be.
LEMMA SlotsShrink ==
  ASSUME Slots, Started' = Started,
         \A j \in Started : run'[j].trigger = run[j].trigger,
         \A b \in Bridge : starting'[b] \subseteq starting[b],
         claims \subseteq claims', unclaimed \subseteq unclaimed'
  PROVE  Slots'
BY DEF Slots

\* Every step keeps a claimed tick with one bridge or one run.
LEMMA SlotsPreserved ==
  ASSUME TypeOK, Timers, Slots, [Next]_vars PROVE Slots'
<1>1. ASSUME NEW b \in Bridge, NEW t \in Trigger, NEW i \in Run, Fires(b, t, i)
      PROVE  Slots'
  <2>1. /\ i \notin Started /\ Started' = Started \cup {i} /\ run'[i].trigger = t
        /\ \A j \in Started : run'[j].trigger = run[j].trigger
    BY <1>1, FireEffect
  <2>2. /\ t \in starting[b] \cup Delivery /\ UNCHANGED <<claims, unclaimed>>
        /\ starting' = [starting EXCEPT ![b] = @ \ {t}]
    BY <1>1 DEF Fires, FireStarts, Arrives
  <2>3. t \in Slot => t \in starting[b]
    BY <2>2, RecipeAssumption
  <2>4. \A c \in Bridge : starting'[c] = IF c = b THEN starting[c] \ {t} ELSE starting[c]
    BY <2>2 DEF TypeOK
  <2> QED BY SMTT(30), <2>1, <2>2, <2>3, <2>4 DEF Slots
<1>2. ASSUME NEW b \in Bridge, NEW t \in Trigger, Claim(b, t) PROVE Slots'
  <2>1. /\ run' = run /\ t \in Slot \ claims /\ claims' = claims \cup {t}
        /\ unclaimed' = unclaimed
        /\ \A c \in Bridge, u \in Slot :
             u \in starting'[c] <=> u \in starting[c] \/ (c = b /\ u = t)
    BY <1>2 DEF Claim, Ticks, ClaimKey, TypeOK
  <2>2. Started' = Started
    BY <2>1 DEF Started
  <2>3. t \notin unclaimed => /\ \A c \in Bridge : t \notin starting[c]
                              /\ \A j \in Started : run[j].trigger # t
    BY <2>1 DEF Slots
  <2>4. ASSUME NEW u \in Slot \ unclaimed', NEW c \in Bridge, u \in starting'[c]
        PROVE  /\ u \in claims' /\ \A d \in Bridge : u \in starting'[d] => d = c
               /\ \A j \in Started' : run'[j].trigger # u
    <3>1. CASE u = t
      BY <2>1, <2>2, <2>3, <2>4, <3>1
    <3>2. CASE u # t
      <4>1. /\ u \in Slot \ unclaimed /\ u \in starting[c]
            /\ \A d \in Bridge : u \in starting'[d] => u \in starting[d]
        BY <2>1, <2>4, <3>2
      <4>2. /\ u \in claims /\ \A d \in Bridge : u \in starting[d] => d = c
            /\ \A j \in Started : run[j].trigger # u
        BY <4>1 DEF Slots
      <4> QED BY <2>1, <2>2, <4>1, <4>2
    <3> QED BY <3>1, <3>2
  <2>5. ASSUME NEW u \in Slot \ unclaimed', NEW j \in Started', run'[j].trigger = u
        PROVE  u \in claims' /\ \A k \in Started' : run'[k].trigger = u => k = j
    BY <2>1, <2>2, <2>5 DEF Slots
  <2> QED BY <2>4, <2>5 DEF Slots
<1>3. ASSUME NEW b \in Bridge, NEW t \in Trigger, Unavailable(b, t), ~ClaimRequired
      PROVE  Slots'
  <2>1. /\ run' = run /\ claims' = claims /\ unclaimed' = unclaimed \cup {t}
        /\ \A c \in Bridge : starting'[c] = IF c = b THEN starting[c] \cup {t} ELSE starting[c]
    BY <1>3 DEF Unavailable, Ticks, TypeOK
  <2>2. Started' = Started
    BY <2>1 DEF Started
  <2>3. ASSUME NEW u \in Slot \ unclaimed', NEW c \in Bridge
        PROVE  u \in Slot \ unclaimed /\ (u \in starting'[c] <=> u \in starting[c])
    BY <2>1
  <2> QED BY <2>1, <2>2, <2>3 DEF Slots
<1>4. CASE /\ ~ \E b \in Bridge, t \in Trigger, i \in Run : Fires(b, t, i)
           /\ ~ \E b \in Bridge, t \in Trigger :
                  Claim(b, t) \/ (Unavailable(b, t) /\ ~ClaimRequired)
  <2>1. Started' = Started /\ \A j \in Started : run'[j].trigger = run[j].trigger
    BY <1>4, RunsKept
  <2>2. /\ claims \subseteq claims' /\ unclaimed \subseteq unclaimed'
        /\ \A b \in Bridge : starting'[b] \subseteq starting[b]
    <3>1. CASE UNCHANGED <<claims, unclaimed, starting>>
      BY <3>1
    <3>2. CASE \E b \in Bridge, t \in Trigger : FireRefused(b, t)
      BY <3>2 DEF FireRefused, Arrives, TypeOK
    <3>3. CASE \E b \in Bridge : Crash(b)
      BY <3>3 DEF Crash, TypeOK
    <3>4. CASE \E b \in Bridge, t \in Trigger :
                 SkipTick(b, t) \/ Taken(b, t) \/ (Unavailable(b, t) /\ ClaimRequired)
      BY <3>1, <3>4 DEF SkipTick, Taken, Unavailable
    <3>5. CASE \E i \in Run : TimerFires(i) \/ Settle(i)
      BY <3>1, <3>5 DEF TimerFires, Settle, scheduling
    <3>7. CASE \E i \in Run, w \in Write :
                 Perform(i, w) \/ Fail(i, w) \/ \E appended \in BOOLEAN : Record(i, w, appended)
      BY <3>1, <3>7 DEF Perform, Fail, Record, scheduling
    <3>6. CASE StoreChanges \/ UNCHANGED vars
      BY <3>1, <3>6 DEF StoreChanges, vars
    <3> QED BY <1>4, <3>2, <3>3, <3>4, <3>5, <3>6, <3>7 DEF Next, Fires
  <2> QED BY <2>1, <2>2, SlotsShrink
<1> QED BY <1>1, <1>2, <1>3, <1>4

\* With PATCHWORK_CRON_CLAIM_REQUIRED no tick is fired without a claim.
LEMMA NoneUnclaimed ==
  ASSUME ClaimRequired, unclaimed = {}, [Next]_vars PROVE unclaimed' = {}
<1>1. CASE \E b \in Bridge, t \in Trigger :
             \/ SkipTick(b, t) \/ Claim(b, t) \/ Taken(b, t) \/ Unavailable(b, t)
             \/ FireRefused(b, t)
  BY <1>1 DEF SkipTick, Claim, Taken, Unavailable, FireRefused, Arrives
<1>5. CASE \E b \in Bridge, t \in Trigger, i \in Run : Fires(b, t, i)
  <2>1. UNCHANGED unclaimed
    BY <1>5 DEF Fires, FireStarts, Arrives
  <2> QED BY <2>1
<1>2. CASE \E i \in Run : TimerFires(i) \/ Settle(i)
  BY <1>2 DEF TimerFires, Settle, scheduling
<1>3. CASE \E i \in Run, w \in Write :
             Perform(i, w) \/ Fail(i, w) \/ \E appended \in BOOLEAN : Record(i, w, appended)
  BY <1>3 DEF Perform, Fail, Record, scheduling
<1>4. CASE UNCHANGED vars \/ StoreChanges \/ \E b \in Bridge : Crash(b)
  BY <1>4 DEF vars, StoreChanges, Crash
<1> QED BY <1>1, <1>2, <1>3, <1>4, <1>5 DEF Next, Fires

\* The steps of the scheduler touch no run.
LEMMA SchedulerSteps ==
  ASSUME [Next]_vars
  PROVE  \/ UNCHANGED <<orchestrator, run, effects>>
         \/ \E b \in Bridge, t \in Trigger, i \in Run : Fires(b, t, i)
         \/ \E i \in Run : TimerFires(i) \/ Settle(i)
         \/ \E i \in Run, w \in Write :
              Perform(i, w) \/ Fail(i, w) \/ \E appended \in BOOLEAN : Record(i, w, appended)
         \/ \E b \in Bridge : Crash(b)
<1>1. CASE \E b \in Bridge, t \in Trigger :
             \/ SkipTick(b, t) \/ Claim(b, t) \/ Taken(b, t) \/ Unavailable(b, t)
             \/ FireRefused(b, t)
  BY <1>1 DEF SkipTick, Claim, Taken, Unavailable, FireRefused
<1>2. CASE UNCHANGED vars \/ StoreChanges
  BY <1>2 DEF vars, StoreChanges, orchestrator, effects
<1> QED BY <1>1, <1>2 DEF Next, Fires

\* So is every step, by what it does to the runs.
LEMMA RunSteps ==
  ASSUME TypeOK, [Next]_vars
  PROVE  \/ UNCHANGED <<orchestrator, run, effects>>
         \/ \E b \in Bridge, t \in Trigger, i \in Run : Fires(b, t, i)
         \/ \E i \in Run : TimerFires(i)
         \/ \E i \in Run : Settle(i)
         \/ \E i \in Run : Works(i) /\ UNCHANGED orchestrator
         \/ \E b \in Bridge : Crash(b)
<1>1. ASSUME NEW i \in Run, NEW w \in Write, Perform(i, w)
      PROVE  Works(i) /\ UNCHANGED orchestrator
  BY <1>1, PerformEffect DEF Perform
<1>2. ASSUME NEW i \in Run, NEW w \in Write, Fail(i, w)
      PROVE  Works(i) /\ UNCHANGED orchestrator
  BY <1>2, FailEffect DEF Fail
<1>3. ASSUME NEW i \in Run, NEW w \in Write, NEW appended \in BOOLEAN,
             Record(i, w, appended)
      PROVE  Works(i) /\ UNCHANGED orchestrator
  BY <1>3, RecordEffect DEF Record
<1> QED BY <1>1, <1>2, <1>3, SchedulerSteps

\* A name stands for a run on one bridge.
LEMMA Named ==
  ASSUME TypeOK, NEW i \in Started
  PROVE  run[i].bridge \in Bridge /\ NameOf(i) \in Recipe
BY StartedRecord, RecipeAssumption DEF RunRecord, NameOf

\* Every step keeps the timers and the names they stand for together.
LEMMA TimersPreserved == ASSUME TypeOK, Timers, [Next]_vars PROVE Timers'
<1> USE RecipeAssumption
<1> 0 \notin Run
  BY DEF Run
<1>1. CASE UNCHANGED <<orchestrator, run, effects>>
  BY <1>1 DEF Timers, TimerNamed, NameTimed, orchestrator, Started, NameOf
<1>2. ASSUME NEW b \in Bridge, NEW t \in Trigger, NEW i \in Run, Fires(b, t, i)
      PROVE  Timers'
  <2> DEFINE r == RecipeOf[t]
  <2>1. /\ i \notin Started /\ Started' = Started \cup {i}
        /\ run'[i].state = "running" /\ run'[i].timer /\ ~run'[i].expired
        /\ run'[i].bridge = b /\ NameOf(i)' = r
    <3>1. /\ i \notin Started /\ Started' = Started \cup {i}
          /\ run'[i].state = "running" /\ run'[i].timer /\ ~run'[i].expired
          /\ run'[i].bridge = b /\ run'[i].trigger = t
      BY <1>2, FireEffect
    <3> QED BY <3>1 DEF NameOf
  <2>2. \A j \in Started : run'[j] = run[j] /\ NameOf(j)' = NameOf(j)
    <3>1. \A j \in Started : run'[j] = run[j]
      BY <1>2, FireEffect
    <3> QED BY <3>1 DEF NameOf
  <2>3. /\ r \in Recipe /\ r \notin inFlight[b]
        /\ inFlight' = [inFlight EXCEPT ![b] = @ \cup {r}]
        /\ timerOf' = [timerOf EXCEPT ![b][r] = i]
    BY <1>2 DEF Fires, FireStarts, CanStart
  <2>4. timerOf[b][r] = 0
    BY <2>3 DEF Timers, NameTimed
  <2>5. \A c \in Bridge, q \in Recipe :
          /\ timerOf'[c][q] = IF c = b /\ q = r THEN i ELSE timerOf[c][q]
          /\ q \in inFlight'[c] <=> q \in inFlight[c] \/ (c = b /\ q = r)
    BY <2>3 DEF TypeOK
  <2>6. \A j \in Started : run[j].timer => ~(run[j].bridge = b /\ NameOf(j) = r)
    BY <2>4 DEF Timers, TimerNamed, Started
  <2> HIDE DEF r
  <2>7. ASSUME NEW j \in Started' PROVE TimerNamed(j)'
    BY <2>1, <2>2, <2>3, <2>5, <2>6, Named DEF Timers, TimerNamed
  <2>8. ASSUME NEW c \in Bridge, NEW q \in Recipe PROVE NameTimed(c, q)'
    <3>1. CASE c = b /\ q = r
      BY <2>1, <2>5, <3>1 DEF NameTimed, NameOf
    <3>2. CASE ~(c = b /\ q = r)
      BY <2>1, <2>2, <2>5, <3>2 DEF NameTimed, NameOf, Timers
    <3> QED BY <3>1, <3>2
  <2> QED BY <2>7, <2>8 DEF Timers
<1>3. ASSUME NEW i \in Run, TimerFires(i) \/ Settle(i) PROVE Timers'
  <2> DEFINE b == run[i].bridge
             r == NameOf(i)
             c == timerOf[b][r]
  <2>1. /\ i \in Started /\ Started' = Started /\ b \in Bridge /\ r \in Recipe
        /\ inFlight' = [inFlight EXCEPT ![b] = @ \ {r}]
        /\ timerOf' = [timerOf EXCEPT ![b][r] = 0]
    <3>1. /\ i \in Started
          /\ inFlight' = [inFlight EXCEPT ![b] = @ \ {r}]
          /\ timerOf' = [timerOf EXCEPT ![b][r] = 0]
      BY <1>3, TimerEffect, SettleEffect
    <3>2. Started' = Started
      <4>1. CASE TimerFires(i)
        <5>1. run' = [run EXCEPT ![i].timer = FALSE, ![i].expired = TRUE]
          BY <4>1, TimerEffect
        <5> QED BY <3>1, <5>1, StartedRecord DEF Started, TypeOK, RunRecord
      <4> QED BY <1>3, <4>1, SettleEffect
    <3> QED BY <3>1, <3>2, Named
  <2>2. \A j \in Started : /\ run'[j].bridge = run[j].bridge /\ NameOf(j)' = NameOf(j)
                           /\ run'[j].timer <=> run[j].timer /\ j # c
                           /\ run'[j].timer => run'[j].state = run[j].state
                                               /\ run'[j].expired = run[j].expired
    <3>1. CASE TimerFires(i)
      <4>1. c = i
        BY <2>1, <3>1 DEF TimerFires, Timers, TimerNamed
      <4>2. run' = [run EXCEPT ![i].timer = FALSE, ![i].expired = TRUE]
        BY <3>1, TimerEffect
      <4>3. run'[i].timer = FALSE /\ run'[i].bridge = run[i].bridge
            /\ run'[i].trigger = run[i].trigger /\ \A j \in Run \ {i} : run'[j] = run[j]
        BY <2>1, <4>2, StartedRecord DEF TypeOK, RunRecord, Started
      <4> QED BY <4>1, <4>3 DEF NameOf, Started
    <3>2. CASE Settle(i)
      <4>1. \A j \in Started :
              /\ run'[j].state = IF j = i THEN "settled" ELSE run[j].state
              /\ run'[j].timer = (run[j].timer /\ j # c)
              /\ run'[j].bridge = run[j].bridge /\ run'[j].trigger = run[j].trigger
              /\ run'[j].expired = run[j].expired
        BY <3>2, SettledRun
      <4>2. run[i].timer => c = i
        BY <2>1 DEF Timers, TimerNamed
      <4> QED BY <4>1, <4>2 DEF NameOf
    <3> QED BY <1>3, <3>1, <3>2
  <2>3. \A d \in Bridge, q \in Recipe :
          /\ timerOf'[d][q] = IF d = b /\ q = r THEN 0 ELSE timerOf[d][q]
          /\ q \in inFlight'[d] <=> q \in inFlight[d] /\ ~(d = b /\ q = r)
    BY <2>1 DEF TypeOK
  <2> HIDE DEF r, b, c
  <2>4. ASSUME NEW j \in Started' PROVE TimerNamed(j)'
    BY <2>1, <2>2, <2>3, Named DEF Timers, TimerNamed, c
  <2>5. ASSUME NEW d \in Bridge, NEW q \in Recipe PROVE NameTimed(d, q)'
    <3>1. CASE d = b /\ q = r
      BY <2>3, <3>1 DEF NameTimed
    <3>2. CASE ~(d = b /\ q = r)
      <4>1. timerOf[d][q] # 0 => timerOf[d][q] # c
        BY <2>1, <3>2 DEF Timers, NameTimed, c
      <4> QED BY <2>1, <2>2, <2>3, <3>2, <4>1 DEF NameTimed, NameOf, Timers
    <3> QED BY <3>1, <3>2
  <2> QED BY <2>1, <2>4, <2>5 DEF Timers
<1>4. ASSUME NEW i \in Run, Works(i), UNCHANGED orchestrator PROVE Timers'
  <2>1. \A j \in Started : /\ run'[j].bridge = run[j].bridge /\ NameOf(j)' = NameOf(j)
                           /\ run'[j].timer = run[j].timer
                           /\ run'[j].state = run[j].state
                           /\ run'[j].expired = run[j].expired
    BY <1>4 DEF Works, Same, NameOf, Started
  <2> QED BY <1>4, <2>1 DEF Timers, TimerNamed, NameTimed, orchestrator, Works, NameOf
<1>5. ASSUME NEW b \in Bridge, Crash(b) PROVE Timers'
  <2>1. \A d \in Bridge, q \in Recipe :
          /\ timerOf'[d][q] = IF d = b THEN 0 ELSE timerOf[d][q]
          /\ q \in inFlight'[d] <=> q \in inFlight[d] /\ d # b
    BY <1>5 DEF Crash, TypeOK
  <2>2. Started' = Started
        /\ \A j \in Started : /\ run'[j].bridge = run[j].bridge /\ NameOf(j)' = NameOf(j)
                              /\ run'[j].timer <=> run[j].timer /\ run[j].bridge # b
                              /\ run'[j].timer => run'[j].state = run[j].state
                                                  /\ run'[j].expired = run[j].expired
    BY <1>5, CrashEffect DEF NameOf, Same
  <2> QED BY <2>1, <2>2, Named DEF Timers, TimerNamed, NameTimed
<1> QED BY <1>1, <1>2, <1>3, <1>4, <1>5, RunSteps

\* The timer's step, run by run.
LEMMA TimerRuns ==
  ASSUME TypeOK, Timers, NEW i \in Run, TimerFires(i)
  PROVE  /\ i \in Started /\ Started' = Started /\ \A j \in Run \ {i} : Same(j)
         /\ run'[i].state = "running" /\ run[i].state = "running"
         /\ ~run'[i].timer /\ run'[i].expired
         /\ run'[i].bridge = run[i].bridge /\ run'[i].trigger = run[i].trigger
         /\ run'[i].cache = run[i].cache /\ run'[i].doing = run[i].doing
<1>1. i \in Started /\ run' = [run EXCEPT ![i].timer = FALSE, ![i].expired = TRUE]
  BY TimerEffect
<1>2. run[i].state = "running"
  BY <1>1 DEF TimerFires, Timers, TimerNamed
<1>3. run[i] \in RunRecord
  BY <1>1, StartedRecord
<1>4. /\ run'[i].state = run[i].state /\ run'[i].timer = FALSE /\ run'[i].expired = TRUE
      /\ run'[i].bridge = run[i].bridge /\ run'[i].trigger = run[i].trigger
      /\ run'[i].cache = run[i].cache /\ run'[i].doing = run[i].doing
      /\ \A j \in Run \ {i} : Same(j)
  BY <1>1, <1>3 DEF TypeOK, RunRecord, Started, Same
<1>5. Started' = Started
  <2>1. \A j \in Run : run'[j].state = "unused" <=> run[j].state = "unused"
    BY <1>2, <1>4 DEF Same
  <2> QED BY <2>1 DEF Started
<1> QED BY <1>1, <1>2, <1>4, <1>5

\* Every step keeps the count of the runs in progress.
LEMMA CountedPreserved ==
  ASSUME TypeOK, Timers, Counted, [Next]_vars PROVE Counted'
<1>1. CASE UNCHANGED <<orchestrator, run, effects>>
  BY <1>1 DEF Counted, orchestrator, Running, Started
<1>2. ASSUME NEW b \in Bridge, NEW t \in Trigger, NEW i \in Run, Fires(b, t, i)
      PROVE  Counted'
  <2>1. /\ i \notin Started /\ Started' = Started \cup {i}
        /\ run'[i].state = "running" /\ ~run'[i].expired /\ run'[i].bridge = b
        /\ \A j \in Started : run'[j] = run[j]
    BY <1>2, FireEffect
  <2>2. activeRuns' = [activeRuns EXCEPT ![b] = @ \cup {i}]
    BY <1>2 DEF Fires, FireStarts
  <2>3. ASSUME NEW c \in Bridge, NEW j
        PROVE  j \in activeRuns'[c] <=>
                 j \in Started' /\ run'[j].state = "running" /\ run'[j].bridge = c
                 /\ ~run'[j].expired
    BY <2>1, <2>2 DEF Counted, Running, TypeOK
  <2> QED BY <2>3 DEF Counted, Running
<1>3. ASSUME NEW i \in Run, TimerFires(i) \/ Settle(i) PROVE Counted'
  <2> DEFINE b == run[i].bridge
  <2>1. /\ i \in Started /\ b \in Bridge
        /\ activeRuns' = [activeRuns EXCEPT ![b] = @ \ {i}]
    BY <1>3, TimerEffect, SettleEffect, Named
  <2>2. /\ Started' = Started
        /\ \A j \in Started \ {i} : run'[j].state = run[j].state
                                    /\ run'[j].expired = run[j].expired
        /\ \A j \in Started : run'[j].bridge = run[j].bridge
        /\ run'[i].state # "running" \/ run'[i].expired
    <3>1. CASE TimerFires(i)
      BY <3>1, TimerRuns DEF Same, Started
    <3>2. CASE Settle(i)
      <4>1. i \in Started /\ Started' = Started /\ run'[i].state = "settled"
        BY <3>2, SettleEffect, SettledRun
      <4>2. \A j \in Started : /\ run'[j].state = IF j = i THEN "settled" ELSE run[j].state
                               /\ run'[j].bridge = run[j].bridge
                               /\ run'[j].expired = run[j].expired
        BY <3>2, SettledRun
      <4> QED BY <4>1, <4>2
    <3> QED BY <1>3, <3>1, <3>2
  <2> HIDE DEF b
  <2>3. ASSUME NEW c \in Bridge, NEW j
        PROVE  j \in activeRuns'[c] <=>
                 j \in Started' /\ run'[j].state = "running" /\ run'[j].bridge = c
                 /\ ~run'[j].expired
    <3>1. j \in activeRuns'[c] <=> j \in activeRuns[c] /\ ~(c = b /\ j = i)
      BY <2>1 DEF TypeOK
    <3> QED BY <2>1, <2>2, <3>1 DEF Counted, Running, b
  <2> QED BY <2>3 DEF Counted, Running
<1>4. ASSUME NEW i \in Run, Works(i), UNCHANGED orchestrator PROVE Counted'
  <2>1. \A j \in Started : /\ run'[j].bridge = run[j].bridge /\ run'[j].state = run[j].state
                           /\ run'[j].expired = run[j].expired
    BY <1>4 DEF Works, Same, Started
  <2> QED BY <1>4, <2>1 DEF Counted, Running, orchestrator, Works
<1>5. ASSUME NEW b \in Bridge, Crash(b) PROVE Counted'
  <2>1. \A c \in Bridge : activeRuns'[c] = IF c = b THEN {} ELSE activeRuns[c]
    BY <1>5 DEF Crash, TypeOK
  <2>2. /\ Started' = Started
        /\ \A j \in Started : /\ run'[j].bridge = run[j].bridge
                              /\ run[j].bridge # b => Same(j)
                              /\ run[j].bridge = b => run'[j].state # "running"
    BY <1>5, CrashEffect
  <2> QED BY <2>1, <2>2 DEF Counted, Running, Same
<1> QED BY <1>1, <1>2, <1>3, <1>4, <1>5, RunSteps

\* Every step keeps: no run loses its timer to another unless a run has expired.
LEMMA TimedPreserved ==
  ASSUME TypeOK, Timers, Timed, [Next]_vars PROVE Timed'
<1> DEFINE Late(i) == \E j \in Started : /\ NameOf(j) = NameOf(i)
                                         /\ run[j].bridge = run[i].bridge /\ run[j].expired
<1>1. CASE UNCHANGED <<orchestrator, run, effects>>
  BY <1>1 DEF Timed, Started, NameOf
<1>2. ASSUME NEW b \in Bridge, NEW t \in Trigger, NEW i \in Run, Fires(b, t, i)
      PROVE  Timed'
  <2>1. /\ i \notin Started /\ Started' = Started \cup {i} /\ \A j \in Run \ {i} : Same(j)
        /\ run'[i].timer
    BY <1>2, FireEffect
  <2>2. run'[i].timer /\ \A j \in Started : run'[j] = run[j]
    BY <2>1 DEF Same, Started
  <2> QED BY <2>1, <2>2 DEF Timed, NameOf
<1>3. ASSUME NEW i \in Run, TimerFires(i) PROVE Timed'
  BY <1>3, TimerRuns DEF Timed, NameOf, Same, Started
<1>4. ASSUME NEW i \in Run, Settle(i) PROVE Timed'
  <2> DEFINE b == run[i].bridge
             c == timerOf[b][NameOf(i)]
  <2>1. /\ i \in Started /\ run[i].state = "running" /\ Started' = Started
        /\ \A j \in Started :
             /\ run'[j].state = IF j = i THEN "settled" ELSE run[j].state
             /\ run'[j].timer = (run[j].timer /\ j # c)
             /\ run'[j].bridge = run[j].bridge /\ NameOf(j)' = NameOf(j)
             /\ run'[j].expired = run[j].expired
    <3>1. i \in Started /\ run[i].state = "running" /\ Started' = Started
      BY <1>4, SettleEffect
    <3>2. ASSUME NEW j \in Started
          PROVE  /\ run'[j].state = IF j = i THEN "settled" ELSE run[j].state
                 /\ run'[j].timer = (run[j].timer /\ j # c)
                 /\ run'[j].bridge = run[j].bridge /\ run'[j].trigger = run[j].trigger
                 /\ run'[j].expired = run[j].expired
      BY <1>4, SettledRun
    <3> QED BY <3>1, <3>2 DEF NameOf
  <2>2. c # 0 => c \in Started /\ run[c].bridge = b /\ NameOf(c) = NameOf(i)
    BY <2>1, Named DEF Timers, NameTimed
  <2>3. run[i].timer => c = i
    BY <2>1 DEF Timers, TimerNamed
  <2>4. ASSUME NEW j \in Started, run'[j].state = "running", ~run'[j].timer
        PROVE  Late(j)
    <3>1. j # i /\ run[j].state = "running"
      BY <2>1, <2>4
    <3>2. CASE j = c
      <4>1. Late(i)
        BY <2>1, <2>3, <3>1, <3>2 DEF Timed
      <4> QED BY <2>2, <3>2, <4>1, RecipeAssumption DEF Started, Run
    <3>3. CASE j # c
      BY <2>1, <2>4, <3>1, <3>3 DEF Timed
    <3> QED BY <3>2, <3>3
  <2> QED BY <2>1, <2>4 DEF Timed
<1>5. ASSUME NEW i \in Run, Works(i) PROVE Timed'
  <2>1. \A j \in Started : /\ run'[j].bridge = run[j].bridge /\ run'[j].state = run[j].state
                           /\ run'[j].expired = run[j].expired /\ NameOf(j)' = NameOf(j)
                           /\ run'[j].timer = run[j].timer
    BY <1>5 DEF Works, Same, Started, NameOf
  <2> QED BY <1>5, <2>1 DEF Timed, Works
<1>6. ASSUME NEW b \in Bridge, Crash(b) PROVE Timed'
  <2>1. Started' = Started
        /\ \A j \in Started : /\ run'[j].bridge = run[j].bridge /\ NameOf(j)' = NameOf(j)
                              /\ run'[j].expired = run[j].expired
                              /\ run'[j].state = "running" => Same(j)
    BY <1>6, CrashEffect DEF NameOf
  <2> QED BY <2>1 DEF Timed, Same
<1> QED BY <1>1, <1>2, <1>3, <1>4, <1>5, <1>6, RunSteps

\* Numbers of runs.
LEMMA Sizes ==
  ASSUME NEW S \in SUBSET Run, NEW T \in SUBSET Run, NEW i
  PROVE  /\ Cardinality(S) \in Nat /\ Cardinality(T) \in Nat
         /\ T \subseteq S => Cardinality(T) <= Cardinality(S)
         /\ T \subseteq S \cup {i} => Cardinality(T) <= Cardinality(S) + 1
         /\ i \in S /\ T \subseteq S \ {i} => Cardinality(T) + 1 <= Cardinality(S)
<1>1. IsFiniteSet(S) /\ IsFiniteSet(T) /\ IsFiniteSet(S \cup {i}) /\ IsFiniteSet(S \ {i})
  BY RunsFinite, FS_AddElement, FS_RemoveElement
<1>2. Cardinality(S) \in Nat /\ Cardinality(T) \in Nat /\ Cardinality(S \ {i}) \in Nat
      /\ Cardinality(S \cup {i}) \in Nat
  BY <1>1, FS_CardinalityType
<1>3. /\ T \subseteq S => Cardinality(T) <= Cardinality(S)
      /\ T \subseteq S \cup {i} => Cardinality(T) <= Cardinality(S \cup {i})
      /\ T \subseteq S \ {i} => Cardinality(T) <= Cardinality(S \ {i})
  BY <1>1, FS_Subset
<1>4. Cardinality(S \cup {i}) <= Cardinality(S) + 1
  BY <1>1, <1>2, FS_AddElement
<1>5. i \in S => Cardinality(S \ {i}) = Cardinality(S) - 1
  BY <1>1, FS_RemoveElement
<1> QED BY <1>2, <1>3, <1>4, <1>5

\* The counts of an attempt's write are numbers.
LEMMA Counts ==
  ASSUME TypeOK, NEW a \in Attempt, NEW w \in Write
  PROVE  performed[a][w] \in Int /\ lost[a][w] \in Nat /\ overlaps[a] \in Nat
BY DEF TypeOK

\* Those who do a write and who may do it are runs.
LEMMA WritersAreRuns ==
  ASSUME NEW a, NEW w
  PROVE  /\ Doers(a, w) \in SUBSET Run /\ Candidates(a, w) \in SUBSET Run
         /\ Doers(a, w)' \in SUBSET Run /\ Candidates(a, w)' \in SUBSET Run
BY DEF Doers, Candidates, Started, Run

\* A step that touches no count, makes nobody a candidate and keeps the doers.
LEMMA OnceKept ==
  ASSUME TypeOK, NEW a \in Attempt, NEW w \in Write, Once(a, w),
         Candidates(a, w)' \subseteq Candidates(a, w), Doers(a, w)' = Doers(a, w),
         performed'[a][w] = performed[a][w], lost'[a][w] = lost[a][w],
         overlaps'[a] = overlaps[a], w \in ledger'[a] <=> w \in ledger[a]
  PROVE  Once(a, w)'
<1>1. /\ Cardinality(Candidates(a, w)) \in Nat /\ Cardinality(Candidates(a, w)') \in Nat
      /\ Cardinality(Candidates(a, w)') <= Cardinality(Candidates(a, w))
  BY WritersAreRuns, Sizes
<1>2. Cardinality(Doers(a, w)') = Cardinality(Doers(a, w))
  OBVIOUS
<1>3. performed[a][w] \in Int /\ lost[a][w] \in Nat /\ overlaps[a] \in Nat
  BY Counts
<1>4. /\ performed[a][w] + Cardinality(Candidates(a, w)) <= 1 + lost[a][w] + overlaps[a]
      /\ w \notin ledger[a] => performed[a][w] <= lost[a][w] + Cardinality(Doers(a, w))
  BY DEF Once
<1>5. performed'[a][w] + Cardinality(Candidates(a, w)') <= 1 + lost'[a][w] + overlaps'[a]
  BY <1>1, <1>3, <1>4
<1>6. w \notin ledger'[a] => performed'[a][w] <= lost'[a][w] + Cardinality(Doers(a, w)')
  BY <1>2, <1>4
<1> QED BY <1>5, <1>6 DEF Once

\* fire() makes the new run a candidate for the writes it does not know.
LEMMA EffectsOfFire ==
  ASSUME TypeOK, Effects, NEW b \in Bridge, NEW t \in Trigger, NEW i \in Run, Fires(b, t, i)
  PROVE  Effects'
<1> DEFINE a == AttemptOf[t]
<1>1. /\ i \notin Started /\ Started' = Started \cup {i}
      /\ \A j \in Started : run'[j] = run[j]
      /\ run'[i].state = "running" /\ run'[i].trigger = t /\ run'[i].doing = {}
  BY FireEffect
<1>2. UNCHANGED <<ledger, performed>> /\ a \in Attempt
      /\ overlaps' = IF AtWork(a) # {} THEN [overlaps EXCEPT ![a] = @ + 1] ELSE overlaps
  BY DEF Fires, FireStarts, Attempt
<1>3. \A j \in Started' : Tidy(j)'
  BY <1>1 DEF Effects, Tidy
<1>4. ASSUME NEW c \in Attempt, NEW w \in Write PROVE Once(c, w)'
  <2> DEFINE P == performed[c][w]
             L == lost[c][w]
             O == overlaps[c]
             C == Cardinality(Candidates(c, w))
             D == Cardinality(Doers(c, w))
             L2 == lost'[c][w]
             O2 == overlaps'[c]
             C2 == Cardinality(Candidates(c, w)')
  <2>1. P \in Int /\ L \in Nat /\ O \in Nat
    BY Counts
  <2>2. P + C <= 1 + L + O /\ (w \notin ledger[c] => P <= L + D)
    BY DEF Effects, Once
  <2>3. L2 \in Nat /\ L2 >= L
        /\ (c = a /\ w \in ledger[c] /\ w \notin run'[i].cache => L2 >= L + 1)
    BY LoadEffect
  <2>4. O2 \in Nat /\ O2 >= O /\ (c = a /\ AtWork(a) # {} => O2 = O + 1)
    BY <1>2, <2>1 DEF TypeOK
  <2>5. Doers(c, w)' = Doers(c, w)
    BY <1>1 DEF Doers
  <2>6. /\ Candidates(c, w)' \subseteq Candidates(c, w) \cup {i}
        /\ c # a \/ w \in run'[i].cache => Candidates(c, w)' \subseteq Candidates(c, w)
    BY <1>1 DEF Candidates
  <2>7. C \in Nat /\ C2 \in Nat /\ D \in Nat /\ C2 <= C + 1
        /\ (c # a \/ w \in run'[i].cache => C2 <= C)
    BY <2>6, WritersAreRuns, Sizes
  <2>8. c = a /\ AtWork(a) = {} => C = 0 /\ D = 0
    <3>1. Candidates(c, w) \subseteq AtWork(c) /\ Doers(c, w) \subseteq AtWork(c)
      <4>1. \A j \in Started : run[j].doing # {} => run[j].state \in {"running", "settled"}
        BY StartedRecord DEF Effects, Tidy, RunRecord
      <4> QED BY <4>1 DEF Candidates, Doers, AtWork
    <3> QED BY <3>1, FS_EmptySet
  <2> HIDE DEF P, L, O, C, D, L2, O2, C2, a
  <2>9. P + C2 <= 1 + L2 + O2
    <3>1. CASE c # a \/ w \in run'[i].cache
      BY <2>1, <2>2, <2>3, <2>4, <2>7, <3>1
    <3>2. CASE c = a /\ w \notin run'[i].cache /\ AtWork(a) # {}
      BY <2>1, <2>2, <2>3, <2>4, <2>7, <3>2
    <3>3. CASE c = a /\ w \notin run'[i].cache /\ AtWork(a) = {}
      BY <2>1, <2>2, <2>3, <2>4, <2>7, <2>8, <3>3
    <3> QED BY <3>1, <3>2, <3>3
  <2>10. w \notin ledger[c] => P <= L2 + D
    BY <2>1, <2>2, <2>3, <2>7
  <2> QED BY <1>2, <2>5, <2>9, <2>10 DEF Once, P, D, L2, O2, C2
<1> QED BY <1>3, <1>4 DEF Effects

\* A write that starts, fails or succeeds moves its run between candidates and doers.
LEMMA EffectsOfWrite ==
  ASSUME TypeOK, Effects, NEW i \in Run, NEW w \in Write, NEW appended \in BOOLEAN,
         Perform(i, w) \/ Fail(i, w) \/ Record(i, w, appended)
  PROVE  Effects'
<1>1. Works(i) /\ overlaps' = overlaps /\ AttemptOf[run[i].trigger] \in Attempt
  BY PerformEffect, FailEffect, RecordEffect, StartedRecord
     DEF Perform, Fail, Record, Works, RunRecord, Attempt
<1> PICK a \in Attempt : a = AttemptOf[run[i].trigger]
  BY <1>1
<1>2. /\ i \in Started /\ Started' = Started
      /\ \A j \in Started \ {i} : run'[j] = run[j]
      /\ run'[i].state = run[i].state /\ run[i].state # "dead"
      /\ run'[i].trigger = run[i].trigger
  BY <1>1 DEF Works, Same, Started
<1>3. \A j \in Started' : Tidy(j)'
  BY <1>2 DEF Effects, Tidy
<1>4. /\ run'[i].doing \cup {w} = run[i].doing \cup {w}
      /\ run'[i].cache \cup {w} = run[i].cache \cup {w}
  BY PerformEffect, FailEffect, RecordEffect
<1>5. ASSUME NEW c \in Attempt, NEW v \in Write, c # a \/ v # w PROVE Once(c, v)'
  <2>1. Candidates(c, v)' = Candidates(c, v) /\ Doers(c, v)' = Doers(c, v)
    <3>1. CASE c # a
      BY <1>2, <3>1 DEF Candidates, Doers
    <3>2. CASE v # w
      <4>1. (v \in run'[i].doing <=> v \in run[i].doing)
            /\ (v \in run'[i].cache <=> v \in run[i].cache)
        BY <1>4, <3>2
      <4> QED BY <1>2, <4>1 DEF Candidates, Doers
    <3> QED BY <1>5, <3>1, <3>2
  <2>2. /\ performed'[c][v] = performed[c][v] /\ lost'[c][v] = lost[c][v]
        /\ overlaps'[c] = overlaps[c] /\ (v \in ledger'[c] <=> v \in ledger[c])
    BY <1>1, <1>5 DEF Perform, Fail, Record, TypeOK
  <2>3. Once(c, v)
    BY DEF Effects
  <2> QED BY <2>1, <2>2, <2>3, OnceKept
<1>6. Once(a, w)'
  <2> DEFINE P == performed[a][w]
             L == lost[a][w]
             O == overlaps[a]
             C == Cardinality(Candidates(a, w))
             D == Cardinality(Doers(a, w))
             C2 == Cardinality(Candidates(a, w)')
             D2 == Cardinality(Doers(a, w)')
  <2>1. P \in Int /\ L \in Nat /\ O \in Nat /\ overlaps'[a] = O
    BY <1>1, Counts
  <2>2. P + C <= 1 + L + O /\ (w \notin ledger[a] => P <= L + D)
    BY DEF Effects, Once
  <2>3. /\ Candidates(a, w) \in SUBSET Run /\ Candidates(a, w)' \in SUBSET Run
        /\ Doers(a, w) \in SUBSET Run /\ Doers(a, w)' \in SUBSET Run
    BY WritersAreRuns
  <2>4. C \in Nat /\ C2 \in Nat /\ D \in Nat /\ D2 \in Nat
    BY <2>3, Sizes
  <2>5. CASE Perform(i, w)
    <3>1. /\ i \in Candidates(a, w) /\ Candidates(a, w)' \subseteq Candidates(a, w) \ {i}
          /\ i \in Doers(a, w)' /\ Doers(a, w) \subseteq Doers(a, w)' \ {i}
      BY <1>2, <2>5, PerformEffect DEF Perform, Candidates, Doers
    <3>2. C2 + 1 <= C /\ D + 1 <= D2
      BY <2>3, <3>1, Sizes
    <3>3. performed'[a][w] = P + 1 /\ lost'[a][w] = L /\ ledger' = ledger
      BY <2>5 DEF Perform, TypeOK
    <3> HIDE DEF P, L, O, C, D, C2, D2
    <3>4. P + 1 + C2 <= 1 + L + O /\ (w \notin ledger[a] => P + 1 <= L + D2)
      BY <2>1, <2>2, <2>4, <3>2
    <3> QED BY <2>1, <3>3, <3>4 DEF Once, C2, D2
  <2>6. CASE Fail(i, w)
    <3>1. /\ Candidates(a, w)' \subseteq Candidates(a, w) \cup {i}
          /\ Doers(a, w) \subseteq Doers(a, w)' \cup {i}
      BY <1>2, <2>6, FailEffect DEF Candidates, Doers
    <3>2. C2 <= C + 1 /\ D <= D2 + 1
      BY <2>3, <3>1, Sizes
    <3>3. performed'[a][w] = P - 1 /\ lost'[a][w] = L /\ ledger' = ledger
      BY <2>6 DEF Fail, TypeOK
    <3> HIDE DEF P, L, O, C, D, C2, D2
    <3>4. P - 1 + C2 <= 1 + L + O /\ (w \notin ledger[a] => P - 1 <= L + D2)
      BY <2>1, <2>2, <2>4, <3>2
    <3> QED BY <2>1, <3>3, <3>4 DEF Once, C2, D2
  <2>7. CASE Record(i, w, appended)
    <3>1. /\ Candidates(a, w)' \subseteq Candidates(a, w)
          /\ Doers(a, w) \subseteq Doers(a, w)' \cup {i}
      BY <1>2, <2>7, RecordEffect DEF Candidates, Doers
    <3>2. C2 <= C /\ D <= D2 + 1
      BY <2>3, <3>1, Sizes
    <3>3. /\ performed'[a][w] = P
          /\ \/ w \in ledger'[a] /\ lost'[a][w] = L
             \/ ledger' = ledger /\ lost'[a][w] = L + 1
      BY <2>7 DEF Record, TypeOK
    <3> HIDE DEF P, L, O, C, D, C2, D2
    <3>4. CASE w \in ledger'[a] /\ lost'[a][w] = L
      <4>1. P + C2 <= 1 + L + O
        BY <2>1, <2>2, <2>4, <3>2
      <4> QED BY <2>1, <3>3, <3>4, <4>1 DEF Once, C2
    <3>5. CASE ledger' = ledger /\ lost'[a][w] = L + 1
      <4>1. P + C2 <= 1 + (L + 1) + O /\ (w \notin ledger[a] => P <= L + 1 + D2)
        BY <2>1, <2>2, <2>4, <3>2
      <4> QED BY <2>1, <3>3, <3>5, <4>1 DEF Once, C2, D2
    <3> QED BY <3>3, <3>4, <3>5
  <2> QED BY <2>5, <2>6, <2>7
<1> QED BY <1>3, <1>5, <1>6 DEF Effects

\* A crash counts as lost what the runs of its bridge were doing.
LEMMA EffectsOfCrash ==
  ASSUME TypeOK, Timers, Effects, NEW b \in Bridge, Crash(b)
  PROVE  Effects'
<1> DEFINE mine == {i \in Started : run[i].bridge = b /\ run[i].state # "dead"}
           of(a, w) == {i \in mine : AttemptOf[run[i].trigger] = a /\ w \in run[i].doing}
<1>1. /\ UNCHANGED <<ledger, performed, overlaps>>
      /\ \A a \in Attempt, w \in Write : lost'[a][w] = lost[a][w] + Cardinality(of(a, w))
  BY DEF Crash
<1>2. Started' = Started
      /\ \A j \in Started : /\ run'[j].trigger = run[j].trigger
                            /\ j \in mine => run'[j].doing = {} /\ run'[j].state = "dead"
                            /\ j \notin mine => run'[j] = run[j]
  BY CrashEffect DEF Same
<1>3. \A j \in Started' : Tidy(j)'
  BY <1>2 DEF Effects, Tidy
<1>4. ASSUME NEW a \in Attempt, NEW w \in Write PROVE Once(a, w)'
  <2> DEFINE P == performed[a][w]
             L == lost[a][w]
             O == overlaps[a]
             C == Cardinality(Candidates(a, w))
             D == Cardinality(Doers(a, w))
             C2 == Cardinality(Candidates(a, w)')
             D2 == Cardinality(Doers(a, w)')
             M == Cardinality(of(a, w))
  <2>1. P \in Int /\ L \in Nat /\ O \in Nat
    BY Counts
  <2>2. P + C <= 1 + L + O /\ (w \notin ledger[a] => P <= L + D)
    BY DEF Effects, Once
  <2>3. /\ Candidates(a, w)' \subseteq Candidates(a, w)
        /\ Doers(a, w) = of(a, w) \cup Doers(a, w)'
    BY <1>2 DEF Candidates, Doers
  <2>4. C \in Nat /\ C2 \in Nat /\ C2 <= C /\ D2 \in Nat
    BY <2>3, WritersAreRuns, Sizes
  <2>5. M \in Nat /\ D <= M + D2
    <3>1. IsFiniteSet(of(a, w)) /\ IsFiniteSet(Doers(a, w)')
      BY RunsFinite, WritersAreRuns DEF Started
    <3>2. M \in Nat /\ Cardinality(of(a, w) \cap Doers(a, w)') \in Nat
      BY <3>1, FS_CardinalityType, FS_Intersection
    <3>3. D = M + D2 - Cardinality(of(a, w) \cap Doers(a, w)')
      BY <2>3, <3>1, FS_Union
    <3> QED BY <2>4, <3>2, <3>3
  <2>6. lost'[a][w] = L + M
    BY <1>1
  <2> HIDE DEF P, L, O, C, D, C2, D2, M, of
  <2>7. P + C2 <= 1 + (L + M) + O /\ (w \notin ledger[a] => P <= L + M + D2)
    <3>1. D \in Nat
      BY WritersAreRuns, Sizes DEF D
    <3> QED BY <2>1, <2>2, <2>4, <2>5, <3>1
  <2> QED BY <1>1, <2>6, <2>7 DEF Once, P, O, C2, D2
<1> QED BY <1>3, <1>4 DEF Effects

\* Every step keeps what the writes of an attempt are owed.
LEMMA EffectsPreserved ==
  ASSUME TypeOK, Timers, Effects, [Next]_vars PROVE Effects'
<1>1. CASE UNCHANGED <<orchestrator, run, effects>>
  <2>1. Started' = Started /\ \A j : run'[j] = run[j]
    BY <1>1 DEF Started
  <2>2. \A a, w : Candidates(a, w)' = Candidates(a, w) /\ Doers(a, w)' = Doers(a, w)
    BY <2>1 DEF Candidates, Doers
  <2>3. ledger' = ledger /\ performed' = performed /\ lost' = lost /\ overlaps' = overlaps
    BY <1>1 DEF effects
  <2>4. \A j \in Started' : Tidy(j)'
    BY <2>1 DEF Effects, Tidy
  <2>5. ASSUME NEW a \in Attempt, NEW w \in Write PROVE Once(a, w)'
    <3>1. Once(a, w)
      BY DEF Effects
    <3> QED BY <2>2, <2>3, <3>1 DEF Once
  <2> QED BY <2>4, <2>5 DEF Effects
<1>2. ASSUME NEW i \in Run, TimerFires(i) \/ Settle(i) PROVE Effects'
  <2>1. UNCHANGED effects
    BY <1>2 DEF TimerFires, Settle
  <2>2. /\ Started' = Started
        /\ \A j \in Started :
             /\ \/ run'[j].state = run[j].state
                \/ run[j].state = "running" /\ run'[j].state = "settled"
             /\ run'[j].trigger = run[j].trigger
             /\ run'[j].cache = run[j].cache /\ run'[j].doing = run[j].doing
    <3>1. CASE TimerFires(i)
      BY <3>1, TimerRuns DEF Same, Started
    <3>2. CASE Settle(i)
      BY <3>2, SettleEffect
    <3> QED BY <1>2, <3>1, <3>2
  <2>3. \A j \in Started' : Tidy(j)'
    BY <2>2 DEF Effects, Tidy
  <2>4. ASSUME NEW a \in Attempt, NEW w \in Write PROVE Once(a, w)'
    <3>1. Candidates(a, w)' \subseteq Candidates(a, w) /\ Doers(a, w)' = Doers(a, w)
      BY <2>2 DEF Candidates, Doers
    <3>2. Once(a, w)
      BY DEF Effects
    <3> QED BY <2>1, <3>1, <3>2, OnceKept DEF effects
  <2> QED BY <2>3, <2>4 DEF Effects
<1> QED BY <1>1, <1>2, EffectsOfFire, EffectsOfWrite, EffectsOfCrash, SchedulerSteps

\* The inductive invariant holds in every state of every behaviour.
THEOREM RecipeFireInvariant == Spec => []Inv
<1>1. Init => Inv
  <2> SUFFICES ASSUME Init PROVE Inv
    OBVIOUS
  <2> USE RecipeAssumption DEF Init
  <2>1. TypeOK
    BY DEF TypeOK
  <2>2. Started = {}
    BY DEF Started
  <2>3. Slots
    BY <2>2 DEF Slots
  <2>4. Books
    BY <2>2 DEF Books, Timers, NameTimed, Counted, Running, Timed
  <2>5. \A a, w : Candidates(a, w) = {} /\ Doers(a, w) = {}
    BY <2>2 DEF Candidates, Doers
  <2>6. Effects
    <3>1. ASSUME NEW a \in Attempt, NEW w \in Write PROVE Once(a, w)
      <4>1. Cardinality(Candidates(a, w)) = 0 /\ Cardinality(Doers(a, w)) = 0
        BY <2>5, FS_EmptySet
      <4>2. performed[a][w] = 0 /\ lost[a][w] = 0 /\ overlaps[a] = 0
        OBVIOUS
      <4> QED BY <4>1, <4>2 DEF Once
    <3> QED BY <2>2, <3>1 DEF Effects
  <2> QED BY <2>1, <2>3, <2>4, <2>6 DEF Inv
<1>2. Inv /\ [Next]_vars => Inv'
  BY TypePreserved, SlotsPreserved, TimersPreserved, CountedPreserved, TimedPreserved,
     EffectsPreserved DEF Inv, Books
<1> QED BY <1>1, <1>2, PTL DEF Spec

\* The types of the claim store, the scheduler, the orchestrator and the runs.
THEOREM RecipeFireTyped == Spec => []TypeOK
<1>1. Inv => TypeOK
  BY DEF Inv
<1> QED BY <1>1, RecipeFireInvariant, PTL

\* A set of at most one run.
LEMMA AtMostOne ==
  ASSUME NEW S, S \subseteq Run, \A i, j \in S : i = j PROVE Cardinality(S) <= 1
<1>1. CASE S = {}
  BY <1>1, FS_EmptySet
<1>2. CASE S # {}
  <2> PICK i \in S : S = {i}
    BY <1>2
  <2> QED BY FS_Singleton
<1> QED BY <1>1, <1>2

\* cronClaim.ts: a tick that was fired under a claim is run at most once on the machine,
\* whatever the number of bridges, and however they crash and restart.
THEOREM CronTickRunsOnce == Spec => []OncePerSlot
<1>1. Inv => OncePerSlot
  <2> SUFFICES ASSUME Inv, NEW t \in Slot \ unclaimed
               PROVE  Cardinality({i \in Started : run[i].trigger = t}) <= 1
    BY DEF OncePerSlot
  <2>1. \A i, j \in {k \in Started : run[k].trigger = t} : i = j
    BY DEF Inv, Slots
  <2> QED BY <2>1, AtMostOne DEF Started
<1> QED BY <1>1, RecipeFireInvariant, PTL

\* With PATCHWORK_CRON_CLAIM_REQUIRED no tick is fired without a claim.
ClaimedAll == ClaimRequired => unclaimed = {}

\* So that every tick is run at most once then, also when the claim store breaks.
THEOREM RequiredClaimIsExact == Spec => [](ClaimedAll /\ OncePerSlot)
<1>1. Init => ClaimedAll
  BY DEF Init, ClaimedAll
<1>2. ClaimedAll /\ [Next]_vars => ClaimedAll'
  BY NoneUnclaimed DEF ClaimedAll
<1> QED BY <1>1, <1>2, CronTickRunsOnce, PTL DEF Spec

\* RecipeOrchestrator's books: the limit counts the runs that go on and have not expired,
\* and a recipe none of whose runs expired is in flight exactly while its one run goes on.
THEOREM OrchestratorBooks == Spec => []RunBooks
<1>1. Inv => RunBooks
  <2> SUFFICES ASSUME Inv, NEW b \in Bridge, NEW r \in Recipe,
                      \A i \in Started : NameOf(i) = r /\ run[i].bridge = b => ~run[i].expired
               PROVE  LET of == {i \in Started : NameOf(i) = r /\ run[i].bridge = b}
                      IN  /\ Cardinality(of \cap Running(b)) <= 1
                          /\ (r \in inFlight[b]) = (of \cap Running(b) # {})
    BY DEF RunBooks, Inv, Books, Counted
  <2> DEFINE S == {i \in Started : NameOf(i) = r /\ run[i].bridge = b} \cap Running(b)
  <2>1. \A i \in S : run[i].timer /\ timerOf[b][r] = i
    BY DEF Inv, Books, Timed, Timers, TimerNamed, Running
  <2>2. Cardinality(S) <= 1
    BY <2>1, AtMostOne DEF Started
  <2>3. r \in inFlight[b] => S # {}
    <3> SUFFICES ASSUME r \in inFlight[b] PROVE timerOf[b][r] \in S
      OBVIOUS
    <3> QED BY DEF Inv, Books, Timers, NameTimed, TimerNamed, Running
  <2>4. S # {} => r \in inFlight[b]
    <3> SUFFICES ASSUME NEW i \in S PROVE r \in inFlight[b]
      OBVIOUS
    <3>1. timerOf[b][r] = i /\ i # 0
      BY <2>1, RecipeAssumption DEF Started, Run
    <3> QED BY <3>1 DEF Inv, Books, Timers, NameTimed
  <2> QED BY <2>2, <2>3, <2>4
<1> QED BY <1>1, RecipeFireInvariant, PTL

\* getOrExecute over its ledger: through any crashes, failed appends, failed reads and runs
\* that overlap, a write is performed once, and once more at most for each time its record
\* was lost and each run that was started beside another.
THEOREM WritesHappenOnce == Spec => []EffectsOnce
<1>1. Inv => EffectsOnce
  <2> SUFFICES ASSUME Inv, NEW a \in Attempt, NEW w \in Write
               PROVE  performed[a][w] <= 1 + lost[a][w] + overlaps[a]
    BY DEF EffectsOnce
  <2>1. performed[a][w] + Cardinality(Candidates(a, w)) <= 1 + lost[a][w] + overlaps[a]
    BY DEF Inv, Effects, Once
  <2>2. performed[a][w] \in Int /\ lost[a][w] \in Nat /\ overlaps[a] \in Nat
    BY Counts DEF Inv
  <2>3. Cardinality(Candidates(a, w)) \in Nat
    BY WritersAreRuns, Sizes
  <2> QED BY <2>1, <2>2, <2>3
<1> QED BY <1>1, RecipeFireInvariant, PTL
=============================================================================
