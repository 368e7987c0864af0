--------------------------- MODULE ApprovalQueue ---------------------------
(***************************************************************************)
(* The human-approval queue (src/src/approvalQueue.ts) of every bridge that *)
(* shares one $PATCHWORK_HOME, over the durable log they all append to      *)
(* (src/src/approvalPersistence.ts).                                        *)
(*                                                                         *)
(* A bridge is one Node process: a synchronous method of its queue is not   *)
(* interrupted by its own timers, but another bridge may append to the log  *)
(* between two of its file accesses.  Every method below touches the log    *)
(* at most once, under the cross-process lock, so it is one step; restore() *)
(* and cancelAll() touch it once per entry, so they are one step per entry. *)
(* The lock itself is the subject of FileLockSync.                          *)
(***************************************************************************)
EXTENDS Naturals, Sequences, FiniteSets

CONSTANTS Bridges,      \* bridge processes sharing the log
          Calls,        \* callIds randomUUID() can hand out
          Callers,      \* tool calls and recipe steps that await a decision
          Keys,         \* dedup identities of an action (inflightKey)
          None,         \* "undefined" / null
          MaxCrashes,   \* bound: process exits
          MaxFailures   \* bound: log appends and reads that fail

HumanDecisions == {"approved", "rejected"}
Decisions      == HumanDecisions \cup {"expired", "cancelled"}

CallInfo == [bridge : Bridges, key : Keys, bounded : BOOLEAN, origin : Callers]

ASSUME QueueAssumption ==
  /\ None \notin Bridges \cup Calls \cup Callers \cup Keys \cup Decisions \cup {"lost"}
  /\ None \notin CallInfo
  /\ MaxCrashes \in Nat
  /\ MaxFailures \in Nat

VARIABLES
  rows,      \* the log: the rows of each callId, in file order
  call,      \* what request() fixed for a callId: bridge, key, TTL class, first caller
  due,       \* callIds whose expiresAt has passed (one wall clock)
  phase,     \* of a bridge process: down, restoring, up, sweeping (cancelAll)
  toRevive,  \* restore(): loaded requests still to be put in the queue
  toExpire,  \* restore(): loaded requests already past expiresAt
  entries,   \* bridge -> callId -> absent, owned or restored (owned: false)
  inflight,  \* bridge -> identity -> callId of the live entry
  recent,    \* bridge -> recentlyDecided, without its 60 s TTL
  credit,    \* bridge -> decided calls whose approver is still being resolved
  asked,     \* caller -> the callId it awaits
  heard,     \* caller -> what its promise resolved to ("lost" with its process)
  aborted,   \* callers whose AbortSignal fired
  unlogged,  \* callIds one of whose decisions took effect without its row
  crashes, failures

logVars    == <<rows, unlogged, failures>>
bridgeVars == <<phase, toRevive, toExpire, entries, inflight, recent, credit>>
callerVars == <<asked, heard, aborted>>
vars       == <<logVars, bridgeVars, callerVars, call, due, crashes>>

RequestRow      == [kind |-> "request", decision |-> None]
AttributionRow  == [kind |-> "attribution", decision |-> None]
DecisionRow(d)  == [kind |-> "decision", decision |-> d]
Row == [kind : {"request", "decision", "attribution"}, decision : Decisions \cup {None}]

TypeOK ==
  /\ rows \in [Calls -> Seq(Row)]
  /\ call \in [Calls -> CallInfo \cup {None}]
  /\ due \subseteq Calls
  /\ phase \in [Bridges -> {"down", "restoring", "up", "sweeping"}]
  /\ toRevive \in [Bridges -> SUBSET Calls]
  /\ toExpire \in [Bridges -> SUBSET Calls]
  /\ entries \in [Bridges -> [Calls -> {"absent", "owned", "restored"}]]
  /\ inflight \in [Bridges -> [Keys -> Calls \cup {None}]]
  /\ recent \in [Bridges -> [Calls -> Decisions \cup {None}]]
  /\ credit \in [Bridges -> SUBSET Calls]
  /\ asked \in [Callers -> Calls \cup {None}]
  /\ heard \in [Callers -> Decisions \cup {None, "lost"}]
  /\ aborted \subseteq Callers
  /\ unlogged \subseteq Calls
  /\ crashes \in 0..MaxCrashes
  /\ failures \in 0..MaxFailures

Init ==
  /\ rows = [c \in Calls |-> << >>]
  /\ call = [c \in Calls |-> None]
  /\ due = {}
  /\ phase = [b \in Bridges |-> "down"]
  /\ toRevive = [b \in Bridges |-> {}]
  /\ toExpire = [b \in Bridges |-> {}]
  /\ entries = [b \in Bridges |-> [c \in Calls |-> "absent"]]
  /\ inflight = [b \in Bridges |-> [key \in Keys |-> None]]
  /\ recent = [b \in Bridges |-> [c \in Calls |-> None]]
  /\ credit = [b \in Bridges |-> {}]
  /\ asked = [k \in Callers |-> None]
  /\ heard = [k \in Callers |-> None]
  /\ aborted = {}
  /\ unlogged = {}
  /\ crashes = 0
  /\ failures = 0

-----------------------------------------------------------------------------
(* Reading the log *)

IsDecision(row) == row.kind = "decision"
DecisionAt(c, i) == i \in DOMAIN rows[c] /\ IsDecision(rows[c][i])
Decided(c)      == \E i \in DOMAIN rows[c] : IsDecision(rows[c][i])

\* recordedDecisionFor: the first decision row of the callId
RecordedDecision(c) ==
  IF Decided(c)
  THEN rows[c][CHOOSE i \in DOMAIN rows[c] :
                 /\ IsDecision(rows[c][i])
                 /\ \A j \in DOMAIN rows[c] : IsDecision(rows[c][j]) => i <= j].decision
  ELSE None

HasRequest(c) == \E i \in DOMAIN rows[c] : rows[c][i].kind = "request"
Unresolved    == {c \in Calls : HasRequest(c) /\ ~Decided(c)}

-----------------------------------------------------------------------------
(* Appending to the log.  The append is fail-soft: an exception is counted *)
(* and swallowed, and it can be thrown before the row is in the file or    *)
(* after it (while the head sidecar is replaced).                          *)

Written(c, row) == rows' = [rows EXCEPT ![c] = Append(@, row)]

AppendFails == failures < MaxFailures /\ failures' = failures + 1

AppendSoft(c, row) ==
  \/ Written(c, row) /\ UNCHANGED <<unlogged, failures>>
  \/ AppendFails /\ UNCHANGED <<rows, unlogged>>

\* Slips of RecordDecision: no check under the lock; a recorded decision seen
\* but not adopted.
RecordDecisionTwice(c, d, effective) ==
  /\ effective = d
  /\ Written(c, DecisionRow(d))
  /\ UNCHANGED <<unlogged, failures>>

RecordDecisionUnadopted(c, d, effective) ==
  /\ effective = d
  /\ IF Decided(c) THEN UNCHANGED rows ELSE Written(c, DecisionRow(d))
  /\ UNCHANGED <<unlogged, failures>>

\* recordDecision, with the decision its caller must go by: the recorded one
\* when the log holds one already, its own when it was written or could not be.
RecordDecision(c, d, effective) ==
  \/ ~Decided(c) /\ effective = d /\ Written(c, DecisionRow(d))
                 /\ UNCHANGED <<unlogged, failures>>
  \/ Decided(c) /\ effective = RecordedDecision(c) /\ UNCHANGED logVars
  \/ ~Decided(c) /\ effective = d /\ Written(c, DecisionRow(d))
                 /\ AppendFails /\ UNCHANGED unlogged
  \/ effective = d /\ AppendFails /\ unlogged' = unlogged \cup {c}
                   /\ UNCHANGED rows

-----------------------------------------------------------------------------
(* The queue in memory *)

Waiting(k)      == asked[k] # None /\ heard[k] = None
Waiters(c)      == {k \in Callers : Waiting(k) /\ asked[k] = c}
OnBridge(k, b)  == asked[k] # None /\ call[asked[k]].bridge = b

\* Slips of Settle: the dedup slot freed whoever holds it; joined callers not
\* woken.
SettleEvicting(b, c, effective) ==
  /\ entries' = [entries EXCEPT ![b][c] = "absent"]
  /\ inflight' = [inflight EXCEPT ![b][call[c].key] = None]
  /\ recent' = [recent EXCEPT ![b][c] = effective]
  /\ heard' = [k \in Callers |->
       IF entries[b][c] = "owned" /\ k \in Waiters(c) THEN effective ELSE heard[k]]
  /\ UNCHANGED <<phase, toRevive, toExpire, asked, call, due, crashes>>

SettleFirstOnly(b, c, effective) ==
  /\ entries' = [entries EXCEPT ![b][c] = "absent"]
  /\ inflight' = [inflight EXCEPT ![b] =
       [key \in Keys |-> IF key = call[c].key /\ @[key] = c THEN None ELSE @[key]]]
  /\ recent' = [recent EXCEPT ![b][c] = effective]
  /\ heard' = [k \in Callers |->
       IF entries[b][c] = "owned" /\ k \in Waiters(c) /\ call[c].origin = k
       THEN effective ELSE heard[k]]
  /\ UNCHANGED <<phase, toRevive, toExpire, asked, call, due, crashes>>

\* The end of resolveEntry: the entry leaves the queue, its own dedup slot is
\* freed, and the first caller and every joined one get the decision.
Settle(b, c, effective) ==
  /\ entries' = [entries EXCEPT ![b][c] = "absent"]
  /\ inflight' = [inflight EXCEPT ![b] =
       [key \in Keys |-> IF key = call[c].key /\ @[key] = c THEN None ELSE @[key]]]
  /\ recent' = [recent EXCEPT ![b][c] = effective]
  /\ heard' = [k \in Callers |->
       IF entries[b][c] = "owned" /\ k \in Waiters(c) THEN effective ELSE heard[k]]
  /\ UNCHANGED <<phase, toRevive, toExpire, asked, call, due, crashes>>

\* resolveEntry with the decision recorded
ResolveEntry(b, c, d) ==
  /\ entries[b][c] # "absent"
  /\ \E effective \in Decisions :
        RecordDecision(c, d, effective) /\ Settle(b, c, effective)

-----------------------------------------------------------------------------
(* request() *)

\* An identical live action is queued: the caller shares its entry.
Join(b, k, key) ==
  /\ phase[b] = "up" /\ asked[k] = None
  /\ inflight[b][key] # None
  /\ entries[b][inflight[b][key]] = "owned"
  /\ asked' = [asked EXCEPT ![k] = inflight[b][key]]
  /\ UNCHANGED <<logVars, bridgeVars, heard, aborted, call, due, crashes>>

\* A new entry; bounded is FALSE when the tier's TTL is 0 ("no expiry").
Enqueue(b, k, key, bounded, c) ==
  /\ phase[b] = "up" /\ asked[k] = None
  /\ inflight[b][key] # None => entries[b][inflight[b][key]] # "owned"
  /\ call[c] = None
  /\ call' = [call EXCEPT ![c] =
       [bridge |-> b, key |-> key, bounded |-> bounded, origin |-> k]]
  /\ entries' = [entries EXCEPT ![b][c] = "owned"]
  /\ inflight' = [inflight EXCEPT ![b][key] = c]
  /\ asked' = [asked EXCEPT ![k] = c]
  /\ AppendSoft(c, RequestRow)
  /\ UNCHANGED <<phase, toRevive, toExpire, recent, credit, heard, aborted, due, crashes>>

\* Slip of Abort: every caller's signal is wired to cancel().
AbortEntry(k) ==
  /\ Waiting(k)
  /\ phase[call[asked[k]].bridge] = "up"
  /\ aborted' = aborted \cup {k}
  /\ ResolveEntry(call[asked[k]].bridge, asked[k], "cancelled")
  /\ UNCHANGED credit

\* The AbortSignal of a waiting caller: the first caller's cancels the entry,
\* a joined caller's withdraws that caller alone.
Abort(k) ==
  /\ Waiting(k)
  /\ phase[call[asked[k]].bridge] = "up"
  /\ aborted' = aborted \cup {k}
  /\ UNCHANGED credit
  /\ \/ /\ call[asked[k]].origin = k
        /\ ResolveEntry(call[asked[k]].bridge, asked[k], "cancelled")
     \/ /\ call[asked[k]].origin # k
        /\ heard' = [heard EXCEPT ![k] = "cancelled"]
        /\ UNCHANGED <<logVars, phase, toRevive, toExpire, entries, inflight, recent,
                       asked, call, due, crashes>>

-----------------------------------------------------------------------------
(* approve() and reject(), and the attribution the HTTP handler adds later *)

\* Slip of Decide: the approver is credited though the decision lost the race.
DecideAndCredit(b, c, d) ==
  /\ phase[b] = "up"
  /\ d \in HumanDecisions
  /\ ResolveEntry(b, c, d)
  /\ credit' = [credit EXCEPT ![b] = @ \cup {c}]
  /\ UNCHANGED aborted

\* The handler goes on to resolve the approver only if its decision applied.
Decide(b, c, d) ==
  /\ phase[b] = "up"
  /\ d \in HumanDecisions
  /\ ResolveEntry(b, c, d)
  /\ credit' = [credit EXCEPT ![b] = IF recent'[b][c] = d THEN @ \cup {c} ELSE @]
  /\ UNCHANGED aborted

\* recordAttribution; nothing is written when no session names an approver.
Attribute(b, c) ==
  /\ phase[b] = "up"
  /\ c \in credit[b]
  /\ credit' = [credit EXCEPT ![b] = @ \ {c}]
  /\ AppendSoft(c, AttributionRow) \/ UNCHANGED logVars
  /\ UNCHANGED <<phase, toRevive, toExpire, entries, inflight, recent,
                 callerVars, call, due, crashes>>

-----------------------------------------------------------------------------
(* Time: a deadline passes, and any while later a timer fires *)

Tick(c) ==
  /\ call[c] # None
  /\ call[c].bounded
  /\ c \notin due
  /\ due' = due \cup {c}
  /\ UNCHANGED <<logVars, bridgeVars, callerVars, call, crashes>>

ExpireOwned(b, c) ==
  /\ phase[b] = "up"
  /\ entries[b][c] = "owned"
  /\ c \in due
  /\ ResolveEntry(b, c, "expired")
  /\ UNCHANGED <<credit, aborted>>

\* A restored entry's timer does not write: its owner's does.
ExpireRestored(b, c) ==
  /\ phase[b] = "up"
  /\ entries[b][c] = "restored"
  /\ c \in due
  /\ Settle(b, c, "expired")
  /\ UNCHANGED <<logVars, credit, aborted>>

-----------------------------------------------------------------------------
(* cancelAll(): on shutdown and when the approval gate is turned off *)

CancelAll(b) ==
  /\ phase[b] = "up"
  /\ phase' = [phase EXCEPT ![b] = "sweeping"]
  /\ UNCHANGED <<logVars, toRevive, toExpire, entries, inflight, recent, credit,
                 callerVars, call, due, crashes>>

CancelOne(b, c) ==
  /\ phase[b] = "sweeping"
  /\ ResolveEntry(b, c, "cancelled")
  /\ UNCHANGED <<credit, aborted>>

CancelDone(b) ==
  /\ phase[b] = "sweeping"
  /\ \A c \in Calls : entries[b][c] = "absent"
  /\ phase' = [phase EXCEPT ![b] = "up"]
  /\ UNCHANGED <<logVars, toRevive, toExpire, entries, inflight, recent, credit,
                 callerVars, call, due, crashes>>

-----------------------------------------------------------------------------
(* Process start, restore() and process exit *)

\* The constructor reads the log without the lock and compares every deadline
\* with one reading of the clock; an unreadable log restores nothing.
Start(b) ==
  /\ phase[b] = "down"
  /\ phase' = [phase EXCEPT ![b] = "restoring"]
  /\ \/ /\ toRevive' = [toRevive EXCEPT ![b] = Unresolved \ due]
        /\ toExpire' = [toExpire EXCEPT ![b] = Unresolved \cap due]
        /\ UNCHANGED failures
     \/ AppendFails /\ UNCHANGED <<toRevive, toExpire>>
  /\ UNCHANGED <<rows, unlogged, entries, inflight, recent, credit, callerVars,
                 call, due, crashes>>

\* Slip of RestoreOverdue: the overdue request is dropped, not recorded.
RestoreDropping(b, c) ==
  /\ phase[b] = "restoring"
  /\ c \in toExpire[b]
  /\ toExpire' = [toExpire EXCEPT ![b] = @ \ {c}]
  /\ UNCHANGED <<logVars, phase, toRevive, entries, inflight, recent, credit, callerVars,
                 call, due, crashes>>

RestoreOverdue(b, c) ==
  /\ phase[b] = "restoring"
  /\ c \in toExpire[b]
  /\ toExpire' = [toExpire EXCEPT ![b] = @ \ {c}]
  /\ \E effective \in Decisions : RecordDecision(c, "expired", effective)
  /\ UNCHANGED <<phase, toRevive, entries, inflight, recent, credit, callerVars,
                 call, due, crashes>>

RestorePending(b, c) ==
  /\ phase[b] = "restoring"
  /\ c \in toRevive[b]
  /\ toRevive' = [toRevive EXCEPT ![b] = @ \ {c}]
  /\ entries' = [entries EXCEPT ![b][c] = "restored"]
  /\ UNCHANGED <<logVars, phase, toExpire, inflight, recent, credit, callerVars,
                 call, due, crashes>>

Restored(b) ==
  /\ phase[b] = "restoring"
  /\ toRevive[b] = {} /\ toExpire[b] = {}
  /\ phase' = [phase EXCEPT ![b] = "up"]
  /\ UNCHANGED <<logVars, toRevive, toExpire, entries, inflight, recent, credit,
                 callerVars, call, due, crashes>>

\* The process exits, whatever it was doing; its callers are gone with it.
Crash(b) ==
  /\ phase[b] # "down"
  /\ crashes < MaxCrashes
  /\ crashes' = crashes + 1
  /\ phase' = [phase EXCEPT ![b] = "down"]
  /\ toRevive' = [toRevive EXCEPT ![b] = {}]
  /\ toExpire' = [toExpire EXCEPT ![b] = {}]
  /\ entries' = [entries EXCEPT ![b] = [c \in Calls |-> "absent"]]
  /\ inflight' = [inflight EXCEPT ![b] = [key \in Keys |-> None]]
  /\ recent' = [recent EXCEPT ![b] = [c \in Calls |-> None]]
  /\ credit' = [credit EXCEPT ![b] = {}]
  /\ heard' = [k \in Callers |->
       IF Waiting(k) /\ OnBridge(k, b) THEN "lost" ELSE heard[k]]
  /\ UNCHANGED <<logVars, asked, aborted, call, due>>

-----------------------------------------------------------------------------
Next ==
  \/ \E b \in Bridges, k \in Callers, key \in Keys :
        \/ Join(b, k, key)
        \/ \E bounded \in BOOLEAN, c \in Calls : Enqueue(b, k, key, bounded, c)
  \/ \E k \in Callers : Abort(k)
  \/ \E b \in Bridges, c \in Calls :
        \/ \E d \in HumanDecisions : Decide(b, c, d)
        \/ Attribute(b, c)
        \/ ExpireOwned(b, c)
        \/ ExpireRestored(b, c)
        \/ CancelOne(b, c)
        \/ RestoreOverdue(b, c)
        \/ RestorePending(b, c)
  \/ \E b \in Bridges : Start(b) \/ Restored(b) \/ CancelAll(b) \/ CancelDone(b) \/ Crash(b)
  \/ \E c \in Calls : Tick(c)

Spec == Init /\ [][Next]_vars

\* The event loop fires a due timer, a synchronous loop runs to its end, the
\* clock advances, and a bridge that exited is started again.
Fairness ==
  /\ \A c \in Calls : WF_vars(Tick(c))
  /\ \A b \in Bridges :
       /\ WF_vars(Start(b))
       /\ WF_vars(Restored(b))
       /\ WF_vars(CancelDone(b))
       /\ \A c \in Calls :
            /\ WF_vars(ExpireOwned(b, c))
            /\ WF_vars(CancelOne(b, c))
            /\ WF_vars(RestoreOverdue(b, c))
            /\ WF_vars(RestorePending(b, c))

FairSpec == Spec /\ Fairness

-----------------------------------------------------------------------------
(* Properties *)

\* At most one decision row per callId, whichever bridges race to decide it
\* (recordDecision: "at most ONE per callId, first writer wins").
OneDecisionPerCall ==
  \A c \in Calls : \A i, j \in DOMAIN rows[c] :
     DecisionAt(c, i) /\ DecisionAt(c, j) => i = j

\* What a caller is told is what the log says: an action never runs on an
\* approval under a ledger that says otherwise, and a refusal never stands
\* against a recorded approval, unless a decision of that call could not be
\* logged.  (A caller that withdraws alone is told "cancelled" by nobody.)
ToldAgreesWithLog ==
  \A k \in Callers :
     heard[k] \in Decisions /\ k \notin aborted
       => asked[k] \in unlogged \/ heard[k] = RecordedDecision(asked[k])

\* The dedup index and the live entries are one relation: a slot names a live
\* owned entry of that identity, and every owned entry holds its slot, so two
\* identical actions never ask a human twice and a restored entry neither
\* takes nor evicts a slot.
DedupIndexExact ==
  \A b \in Bridges, key \in Keys, c \in Calls :
     inflight[b][key] = c <=> entries[b][c] = "owned" /\ call[c].key = key

\* No promise is orphaned: a caller still waiting awaits an owned entry of the
\* live queue that was given its request.
WaitersHaveEntry ==
  \A k \in Callers : Waiting(k) =>
     /\ call[asked[k]] # None
     /\ entries[call[asked[k]].bridge][asked[k]] = "owned"
     /\ phase[call[asked[k]].bridge] \in {"up", "sweeping"}

\* A named person is only ever attached to a call that a human decided: the
\* attribution row comes after a recorded approval or rejection.
AttributionNamesADecider ==
  \A c \in Calls : \A i \in DOMAIN rows[c] :
     rows[c][i].kind = "attribution" =>
        \/ c \in unlogged
        \/ \E j \in 1..(i - 1) : IsDecision(rows[c][j]) /\ rows[c][j].decision \in HumanDecisions

\* A caller is cancelled only if it gave up itself, the call's first caller
\* did, the bridge cancelled everything, or the log already said cancelled: a
\* joined caller that gives up never takes the others with it.
CancelReachesOnlyTheAbandoned ==
  [][\A k \in Callers :
       Waiting(k) /\ heard'[k] = "cancelled" =>
          \/ k \in aborted'
          \/ call[asked[k]].origin \in aborted'
          \/ phase[call[asked[k]].bridge] = "sweeping"
          \/ RecordedDecision(asked[k]) = "cancelled"]_vars

OwnerDown(c) == call[c] # None /\ phase[call[c].bridge] = "down"

\* A request with a TTL is always answered, on a bridge that stays up by its
\* timer: every caller of it, joined ones included, stops waiting.
BoundedCallersSettle ==
  \A k \in Callers : (Waiting(k) /\ call[asked[k]].bounded) ~> ~Waiting(k)

\* A request whose deadline passed while a bridge was down is recorded once
\* that bridge starts again ("late, but exactly once"), if the log works.
OverdueIsRecorded ==
  \A b \in Bridges, c \in Calls :
     (phase[b] = "down" /\ c \in due \cap Unresolved) ~> (Decided(c) \/ failures > 0)

\* An expiry on a running bridge is durable: while its owner lives, a logged
\* request with a TTL gets its decision row, if that row can be written.
ExpiryIsRecorded ==
  \A c \in Calls :
     (c \in Unresolved /\ call[c].bounded /\ entries[call[c].bridge][c] = "owned")
       ~> (Decided(c) \/ c \in unlogged \/ OwnerDown(c))

\* A deadline is a decision in the log, whoever lives to write it: the owner, or the
\* bridge that finds it passed when it starts again.
DeadlinesAreRecorded == OverdueIsRecorded /\ ExpiryIsRecorded

\* "Restored entries never auto-resolve to anything but their original expiry"
\* (restore()'s comment, ADR-0018 point 5): a restored entry leaves a running
\* bridge's queue as a human decided it, as expired, or as the log says.
RestoredNeverAutoResolve ==
  [][\A b \in Bridges, c \in Calls :
       entries[b][c] = "restored" /\ entries'[b][c] = "absent" /\ phase'[b] # "down" =>
          recent'[b][c] \in {"approved", "rejected", "expired", RecordedDecision(c)}]_vars

-----------------------------------------------------------------------------
(* The promise, implemented: the log's first decision is the verdict, and a *)
(* caller's promise is its answer.                                          *)

Verdict == INSTANCE ApprovalVerdict WITH
  verdict    <- [c \in Calls |-> RecordedDecision(c)],
  about      <- asked,
  answer     <- heard,
  unrecorded <- unlogged

\* All bridges' queues over one log give each call one verdict, and each of
\* its callers that verdict or its own withdrawal.
ImplementsVerdict == Verdict!Spec
=============================================================================
