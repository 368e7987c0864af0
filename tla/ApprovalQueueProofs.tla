------------------------ MODULE ApprovalQueueProofs ------------------------
(***************************************************************************)
(* Theorems about ApprovalQueue, for any number of bridges, calls, callers  *)
(* and identities, and any bounds on crashes and log failures.              *)
(***************************************************************************)
EXTENDS ApprovalQueue, SequenceTheorems, TLAPS

-----------------------------------------------------------------------------
(* The log *)

\* With at most one decision row per call, any decision row is the recorded
\* decision (recordedDecisionFor returns the first).
LEMMA RecordedIsTheDecision ==
  ASSUME TypeOK, OneDecisionPerCall,
         NEW c \in Calls, NEW i \in DOMAIN rows[c], IsDecision(rows[c][i])
  PROVE  Decided(c) /\ RecordedDecision(c) = rows[c][i].decision
<1> DEFINE First(j) == /\ IsDecision(rows[c][j])
                       /\ \A n \in DOMAIN rows[c] : IsDecision(rows[c][n]) => j <= n
<1>1. rows[c] \in Seq(Row)
  BY DEF TypeOK
<1>2. DOMAIN rows[c] \subseteq Int
  BY <1>1
<1>3. \A n \in DOMAIN rows[c] : IsDecision(rows[c][n]) => n = i
  BY DEF OneDecisionPerCall, DecisionAt
<1>4. First(i)
  BY <1>2, <1>3
<1>5. (CHOOSE j \in DOMAIN rows[c] : First(j)) = i
  BY <1>3, <1>4
<1> QED
  BY <1>5 DEF Decided, RecordedDecision

\* A call without a decision row has no recorded decision, and the other way.
LEMMA UndecidedHasNone ==
  ASSUME TypeOK, OneDecisionPerCall, QueueAssumption, NEW c \in Calls
  PROVE  RecordedDecision(c) \in Decisions => Decided(c)
<1>1. None \notin Decisions
  BY DEF QueueAssumption
<1> QED
  BY <1>1 DEF RecordedDecision

\* What one append does to the log: no call's recorded decision changes once
\* there is one, and an appended decision is the recorded one.
LEMMA AppendKeepsDecisions ==
  ASSUME TypeOK, OneDecisionPerCall,
         NEW c \in Calls, NEW row \in Row, Written(c, row),
         IsDecision(row) => ~Decided(c)
  PROVE  /\ rows' \in [Calls -> Seq(Row)]
         /\ OneDecisionPerCall'
         /\ \A e \in Calls : Decided(e) =>
               Decided(e)' /\ RecordedDecision(e)' = RecordedDecision(e)
         /\ IsDecision(row) => Decided(c)' /\ RecordedDecision(c)' = row.decision
         /\ \A e \in Calls : ~Decided(e) /\ ~(e = c /\ IsDecision(row)) => ~Decided(e)'
<1>1. /\ rows \in [Calls -> Seq(Row)]
      /\ rows' = [rows EXCEPT ![c] = Append(@, row)]
  BY DEF TypeOK, Written
<1>2. rows' \in [Calls -> Seq(Row)]
  BY <1>1
<1>3. \A e \in Calls : e # c => rows'[e] = rows[e]
  BY <1>1
<1>4. /\ rows'[c] = Append(rows[c], row)
      /\ DOMAIN rows[c] = 1..Len(rows[c])
      /\ DOMAIN rows'[c] = 1..(Len(rows[c]) + 1)
      /\ Len(rows[c]) \in Nat
      /\ rows'[c][Len(rows[c]) + 1] = row
      /\ \A i \in DOMAIN rows[c] : rows'[c][i] = rows[c][i]
  <2>1. rows[c] \in Seq(Row) /\ rows'[c] = Append(rows[c], row)
    BY <1>1
  <2> QED
    BY <2>1, AppendProperties
<1>5. \A e \in Calls : Decided(e) => Decided(e)'
  BY <1>3, <1>4 DEF Decided
<1>6. \A e \in Calls : ~Decided(e) /\ ~(e = c /\ IsDecision(row)) => ~Decided(e)'
  <2> SUFFICES ASSUME NEW e \in Calls, Decided(e)', ~(e = c /\ IsDecision(row))
               PROVE  Decided(e)
    OBVIOUS
  <2>1. CASE e # c
    BY <2>1, <1>3 DEF Decided
  <2>2. CASE e = c
    <3>1. PICK i \in DOMAIN rows'[c] : IsDecision(rows'[c][i])
      BY <2>2 DEF Decided
    <3>2. i # Len(rows[c]) + 1
      BY <3>1, <2>2, <1>4
    <3>3. i \in DOMAIN rows[c]
      BY <3>1, <3>2, <1>4
    <3> QED
      BY <3>1, <3>3, <2>2, <1>4 DEF Decided
  <2> QED
    BY <2>1, <2>2
<1>7. OneDecisionPerCall'
  <2> SUFFICES ASSUME NEW e \in Calls,
                      NEW i \in DOMAIN rows'[e], NEW j \in DOMAIN rows'[e],
                      IsDecision(rows'[e][i]), IsDecision(rows'[e][j])
               PROVE  i = j
    BY DEF OneDecisionPerCall, DecisionAt
  <2>1. CASE e # c
    BY <2>1, <1>3 DEF OneDecisionPerCall, DecisionAt
  <2>2. CASE e = c /\ ~IsDecision(row)
    <3>1. i \in DOMAIN rows[c] /\ j \in DOMAIN rows[c]
      BY <2>2, <1>4
    <3> QED
      BY <3>1, <2>2, <1>4 DEF OneDecisionPerCall, DecisionAt
  <2>3. CASE e = c /\ IsDecision(row)
    <3>1. \A n \in DOMAIN rows[c] : ~IsDecision(rows[c][n])
      BY <2>3 DEF Decided
    <3>2. i = Len(rows[c]) + 1 /\ j = Len(rows[c]) + 1
      BY <3>1, <2>3, <1>4
    <3> QED
      BY <3>2
  <2> QED
    BY <2>1, <2>2, <2>3
<1>8. \A e \in Calls : \A i \in DOMAIN rows'[e] :
         IsDecision(rows'[e][i]) => Decided(e)' /\ RecordedDecision(e)' = rows'[e][i].decision
  <2> SUFFICES ASSUME NEW e \in Calls, NEW i \in DOMAIN rows'[e], IsDecision(rows'[e][i])
               PROVE  Decided(e)' /\ RecordedDecision(e)' = rows'[e][i].decision
    OBVIOUS
  <2> DEFINE First(j) == /\ IsDecision(rows'[e][j])
                         /\ \A n \in DOMAIN rows'[e] : IsDecision(rows'[e][n]) => j <= n
  <2>1. DOMAIN rows'[e] \subseteq Int
    BY <1>2
  <2>2. \A n \in DOMAIN rows'[e] : IsDecision(rows'[e][n]) => n = i
    BY <1>7 DEF OneDecisionPerCall, DecisionAt
  <2>3. First(i)
    BY <2>1, <2>2
  <2>4. (CHOOSE j \in DOMAIN rows'[e] : First(j)) = i
    BY <2>2, <2>3
  <2> QED
    BY <2>4 DEF Decided, RecordedDecision
<1>9. \A e \in Calls : Decided(e) => RecordedDecision(e)' = RecordedDecision(e)
  <2> SUFFICES ASSUME NEW e \in Calls, Decided(e)
               PROVE  RecordedDecision(e)' = RecordedDecision(e)
    OBVIOUS
  <2>1. PICK i \in DOMAIN rows[e] : IsDecision(rows[e][i])
    BY DEF Decided
  <2>2. i \in DOMAIN rows'[e] /\ rows'[e][i] = rows[e][i]
    BY SMTT(30), <2>1, <1>3, <1>4
  <2>3. RecordedDecision(e) = rows[e][i].decision
    BY <2>1, RecordedIsTheDecision
  <2> QED
    BY <2>1, <2>2, <2>3, <1>8
<1>10. IsDecision(row) => Decided(c)' /\ RecordedDecision(c)' = row.decision
  BY <1>4, <1>8
<1> QED
  BY <1>2, <1>5, <1>6, <1>7, <1>9, <1>10

-----------------------------------------------------------------------------
(* What the two ways of appending do to the log *)

\* Recorded decisions stay, and the log keeps its type.
LogKept ==
  /\ rows' \in [Calls -> Seq(Row)]
  /\ unlogged \subseteq unlogged' /\ unlogged' \subseteq Calls
  /\ failures' \in 0..MaxFailures
  /\ OneDecisionPerCall'
  /\ \A e \in Calls : Decided(e) => Decided(e)' /\ RecordedDecision(e)' = RecordedDecision(e)

LEMMA UnchangedLogKept ==
  ASSUME TypeOK, OneDecisionPerCall, UNCHANGED logVars
  PROVE  LogKept
BY DEF TypeOK, OneDecisionPerCall, logVars, LogKept, DecisionAt, Decided, RecordedDecision

LEMMA FailureCounted ==
  ASSUME TypeOK, QueueAssumption, AppendFails
  PROVE  failures' \in 0..MaxFailures
BY DEF TypeOK, QueueAssumption, AppendFails

\* A request or attribution row decides nothing.
LEMMA AppendSoftKept ==
  ASSUME TypeOK, OneDecisionPerCall, QueueAssumption,
         NEW c \in Calls, NEW row \in Row, ~IsDecision(row), AppendSoft(c, row)
  PROVE  LogKept /\ \A e \in Calls : Decided(e)' <=> Decided(e)
<1>1. CASE Written(c, row) /\ UNCHANGED <<unlogged, failures>>
  <2>1. unlogged' = unlogged /\ failures' \in 0..MaxFailures /\ unlogged \subseteq Calls
    BY <1>1 DEF TypeOK
  <2>2. \A e \in Calls : ~Decided(e) => ~Decided(e)'
    BY <1>1, AppendKeepsDecisions
  <2> QED
    BY <1>1, <2>1, <2>2, AppendKeepsDecisions DEF LogKept
<1>2. CASE AppendFails /\ UNCHANGED <<rows, unlogged>>
  <2>1. unlogged' = unlogged /\ failures' \in 0..MaxFailures /\ unlogged \subseteq Calls
    BY <1>2, FailureCounted DEF TypeOK
  <2> QED
    BY <1>2, <2>1 DEF LogKept, TypeOK, OneDecisionPerCall, DecisionAt, Decided, RecordedDecision
<1> QED
  BY <1>1, <1>2 DEF AppendSoft

\* The decision that takes effect is the recorded one, or the call is counted
\* as unlogged; no other call is decided.
LEMMA RecordDecisionKept ==
  ASSUME TypeOK, OneDecisionPerCall, QueueAssumption,
         NEW c \in Calls, NEW d \in Decisions, NEW effective \in Decisions,
         RecordDecision(c, d, effective)
  PROVE  /\ LogKept
         /\ RecordedDecision(c)' = effective \/ c \in unlogged'
         /\ \A e \in Calls : e # c => (Decided(e)' <=> Decided(e))
         /\ c \in unlogged' \/ Decided(c)'
<1> DEFINE row == DecisionRow(d)
<1>0. row \in Row /\ IsDecision(row) /\ row.decision = d
  BY DEF DecisionRow, Row, IsDecision
<1>1. CASE ~Decided(c) /\ effective = d /\ Written(c, row) /\ unlogged' = unlogged
           /\ failures' \in 0..MaxFailures
  <2>1. unlogged \subseteq Calls
    BY DEF TypeOK
  <2>2. \A e \in Calls : ~Decided(e) /\ e # c => ~Decided(e)'
    BY <1>0, <1>1, AppendKeepsDecisions
  <2> QED
    BY <1>0, <1>1, <2>1, <2>2, AppendKeepsDecisions DEF LogKept
<1>2. CASE Decided(c) /\ effective = RecordedDecision(c) /\ UNCHANGED logVars
  <2>1. LogKept
    BY <1>2, UnchangedLogKept
  <2> QED
    BY <1>2, <2>1 DEF LogKept, logVars, Decided
<1>3. CASE /\ effective = d /\ AppendFails /\ unlogged' = unlogged \cup {c} /\ UNCHANGED rows
  <2>1. failures' \in 0..MaxFailures
    BY <1>3, FailureCounted
  <2> QED
    BY <1>3, <2>1 DEF LogKept, TypeOK, OneDecisionPerCall, DecisionAt, Decided, RecordedDecision
<1>4. failures \in 0..MaxFailures
  BY DEF TypeOK
<1> QED
  BY <1>1, <1>2, <1>3, <1>4, FailureCounted DEF RecordDecision

-----------------------------------------------------------------------------
(* The types, and one decision per call *)

LEMMA SettleTyped ==
  ASSUME TypeOK, NEW b \in Bridges, NEW c \in Calls, NEW effective \in Decisions,
         Settle(b, c, effective)
  PROVE  /\ entries' \in [Bridges -> [Calls -> {"absent", "owned", "restored"}]]
         /\ inflight' \in [Bridges -> [Keys -> Calls \cup {None}]]
         /\ recent' \in [Bridges -> [Calls -> Decisions \cup {None}]]
         /\ heard' \in [Callers -> Decisions \cup {None, "lost"}]
         /\ UNCHANGED <<phase, toRevive, toExpire, asked, call, due, crashes>>
BY DEF TypeOK, Settle

\* One action at a time: the log part from the lemmas above, the rest by type.
LEMMA TypeStep ==
  ASSUME QueueAssumption, TypeOK, OneDecisionPerCall, WaitersHaveEntry, [Next]_vars
  PROVE  TypeOK' /\ LogKept
<1> DEFINE Rest ==
      /\ call' \in [Calls -> CallInfo \cup {None}]
      /\ due' \subseteq Calls
      /\ phase' \in [Bridges -> {"down", "restoring", "up", "sweeping"}]
      /\ toRevive' \in [Bridges -> SUBSET Calls]
      /\ toExpire' \in [Bridges -> SUBSET Calls]
      /\ entries' \in [Bridges -> [Calls -> {"absent", "owned", "restored"}]]
      /\ inflight' \in [Bridges -> [Keys -> Calls \cup {None}]]
      /\ recent' \in [Bridges -> [Calls -> Decisions \cup {None}]]
      /\ credit' \in [Bridges -> SUBSET Calls]
      /\ asked' \in [Callers -> Calls \cup {None}]
      /\ heard' \in [Callers -> Decisions \cup {None, "lost"}]
      /\ aborted' \subseteq Callers
      /\ crashes' \in 0..MaxCrashes
<1> SUFFICES Rest /\ LogKept
  BY DEF TypeOK, LogKept
<1> RequestRow \in Row /\ ~IsDecision(RequestRow)
    /\ AttributionRow \in Row /\ ~IsDecision(AttributionRow)
  BY DEF RequestRow, AttributionRow, Row, IsDecision
<1> HumanDecisions \subseteq Decisions /\ "expired" \in Decisions /\ "cancelled" \in Decisions
  BY DEF Decisions
<1>1. ASSUME NEW b \in Bridges, NEW k \in Callers, NEW key \in Keys, Join(b, k, key)
      PROVE  Rest /\ LogKept
  <2>1. inflight[b][key] \in Calls
    BY <1>1 DEF Join, TypeOK
  <2> QED
    BY <1>1, <2>1, UnchangedLogKept DEF Join, TypeOK, bridgeVars
<1>2. ASSUME NEW b \in Bridges, NEW k \in Callers, NEW key \in Keys,
             NEW bounded \in BOOLEAN, NEW c \in Calls, Enqueue(b, k, key, bounded, c)
      PROVE  Rest /\ LogKept
  <2>1. LogKept
    BY <1>2, AppendSoftKept DEF Enqueue
  <2>2. [bridge |-> b, key |-> key, bounded |-> bounded, origin |-> k] \in CallInfo
    BY DEF CallInfo
  <2> QED
    BY <1>2, <2>1, <2>2 DEF Enqueue, TypeOK
<1>3. ASSUME NEW k \in Callers, Abort(k)
      PROVE  Rest /\ LogKept
  <2>1. asked[k] \in Calls
    BY <1>3 DEF Abort, Waiting, TypeOK
  <2>2. CASE call[asked[k]].origin = k
    <3> DEFINE b == call[asked[k]].bridge
    <3>1. b \in Bridges
      BY <1>3, <2>1 DEF Abort, WaitersHaveEntry, TypeOK, CallInfo
    <3>2. PICK effective \in Decisions :
             RecordDecision(asked[k], "cancelled", effective) /\ Settle(b, asked[k], effective)
      BY <1>3, <2>2 DEF Abort, ResolveEntry
    <3> HIDE DEF b
    <3>3. LogKept
      BY <2>1, <3>2, RecordDecisionKept
    <3> QED
      BY <1>3, <2>1, <3>1, <3>2, <3>3, SettleTyped DEF Abort, TypeOK
  <2>3. CASE call[asked[k]].origin # k
    <3>1. LogKept
      BY <1>3, <2>3, UnchangedLogKept DEF Abort
    <3>2. heard' = [heard EXCEPT ![k] = "cancelled"]
          /\ UNCHANGED <<phase, toRevive, toExpire, entries, inflight, recent, asked, call,
                         due, crashes, credit>>
          /\ aborted' = aborted \cup {k}
      BY <1>3, <2>3 DEF Abort
    <3> QED
      BY <3>1, <3>2 DEF TypeOK
  <2> QED
    BY <2>2, <2>3
<1>4. ASSUME NEW b \in Bridges, NEW c \in Calls, NEW d \in Decisions, ResolveEntry(b, c, d),
             credit' \in [Bridges -> SUBSET Calls], aborted' \subseteq Callers
      PROVE  Rest /\ LogKept
  <2>1. PICK effective \in Decisions : RecordDecision(c, d, effective) /\ Settle(b, c, effective)
    BY <1>4 DEF ResolveEntry
  <2>2. LogKept
    BY <2>1, RecordDecisionKept
  <2> QED
    BY <1>4, <2>1, <2>2, SettleTyped DEF TypeOK
<1>5. ASSUME NEW b \in Bridges, NEW c \in Calls, NEW d \in HumanDecisions, Decide(b, c, d)
      PROVE  Rest /\ LogKept
  <2>1. credit' \in [Bridges -> SUBSET Calls] /\ aborted' \subseteq Callers
    BY <1>5 DEF Decide, TypeOK
  <2> QED
    BY <1>4, <1>5, <2>1 DEF Decide
<1>6. ASSUME NEW b \in Bridges, NEW c \in Calls, Attribute(b, c)
      PROVE  Rest /\ LogKept
  <2>1. LogKept
    BY <1>6, AppendSoftKept, UnchangedLogKept DEF Attribute
  <2> QED
    BY <1>6, <2>1 DEF Attribute, TypeOK, callerVars
<1>7. ASSUME NEW b \in Bridges, NEW c \in Calls, ExpireOwned(b, c) \/ CancelOne(b, c)
      PROVE  Rest /\ LogKept
  <2>1. credit' \in [Bridges -> SUBSET Calls] /\ aborted' \subseteq Callers
    BY <1>7 DEF ExpireOwned, CancelOne, TypeOK
  <2> QED
    BY <1>4, <1>7, <2>1 DEF ExpireOwned, CancelOne
<1>8. ASSUME NEW b \in Bridges, NEW c \in Calls, ExpireRestored(b, c)
      PROVE  Rest /\ LogKept
  BY <1>8, SettleTyped, UnchangedLogKept DEF ExpireRestored, TypeOK
<1>9. ASSUME NEW b \in Bridges, NEW c \in Calls, RestoreOverdue(b, c)
      PROVE  Rest /\ LogKept
  <2>1. LogKept
    BY <1>9, RecordDecisionKept DEF RestoreOverdue
  <2> QED
    BY <1>9, <2>1 DEF RestoreOverdue, TypeOK, callerVars
<1>10. ASSUME NEW b \in Bridges, NEW c \in Calls, RestorePending(b, c)
       PROVE  Rest /\ LogKept
  BY <1>10, UnchangedLogKept DEF RestorePending, TypeOK, callerVars
<1>11. ASSUME NEW b \in Bridges, Start(b)
       PROVE  Rest /\ LogKept
  <2>1. LogKept
    BY <1>11, FailureCounted
       DEF Start, LogKept, TypeOK, OneDecisionPerCall, DecisionAt, Decided, RecordedDecision
  <2>2. Unresolved \ due \in SUBSET Calls /\ Unresolved \cap due \in SUBSET Calls
    BY DEF Unresolved
  <2>3. toRevive' \in [Bridges -> SUBSET Calls] /\ toExpire' \in [Bridges -> SUBSET Calls]
    <3> HIDE DEF Unresolved
    <3>1. toRevive \in [Bridges -> SUBSET Calls] /\ toExpire \in [Bridges -> SUBSET Calls]
      BY DEF TypeOK
    <3>2. CASE UNCHANGED <<toRevive, toExpire>>
      BY <3>1, <3>2
    <3>3. CASE /\ toRevive' = [toRevive EXCEPT ![b] = Unresolved \ due]
               /\ toExpire' = [toExpire EXCEPT ![b] = Unresolved \cap due]
      BY <2>2, <3>1, <3>3
    <3> QED
      BY <1>11, <3>2, <3>3 DEF Start
  <2>4. phase' \in [Bridges -> {"down", "restoring", "up", "sweeping"}]
    BY <1>11 DEF Start, TypeOK
  <2> QED
    BY <1>11, <2>1, <2>3, <2>4 DEF Start, TypeOK, callerVars
<1>12. ASSUME NEW b \in Bridges, Restored(b) \/ CancelAll(b) \/ CancelDone(b)
       PROVE  Rest /\ LogKept
  BY <1>12, UnchangedLogKept DEF Restored, CancelAll, CancelDone, TypeOK, callerVars
<1>13. ASSUME NEW b \in Bridges, Crash(b)
       PROVE  Rest /\ LogKept
  BY <1>13, UnchangedLogKept, QueueAssumption DEF Crash, TypeOK
<1>14. ASSUME NEW c \in Calls, Tick(c)
       PROVE  Rest /\ LogKept
  BY <1>14, UnchangedLogKept DEF Tick, TypeOK, bridgeVars, callerVars
<1>15. CASE UNCHANGED vars
  BY <1>15, UnchangedLogKept DEF vars, logVars, bridgeVars, callerVars, TypeOK
<1> QED
  BY <1>1, <1>2, <1>3, <1>5, <1>6, <1>7, <1>8, <1>9, <1>10, <1>11, <1>12, <1>13,
     <1>14, <1>15 DEF Next

LEMMA InitTyped ==
  ASSUME QueueAssumption, Init
  PROVE  TypeOK /\ OneDecisionPerCall
BY DEF QueueAssumption, Init, TypeOK, OneDecisionPerCall, DecisionAt


-----------------------------------------------------------------------------
(* The queue in memory *)

\* Owned entries live on the running bridge that enqueued the call, and
\* nobody has heard anything without asking.
Bookkeeping ==
  /\ \A k \in Callers : asked[k] = None => heard[k] = None
  /\ \A b \in Bridges, c \in Calls : entries[b][c] = "owned" =>
       phase[b] \in {"up", "sweeping"} /\ call[c] # None /\ call[c].bridge = b

Memory == Bookkeeping /\ WaitersHaveEntry /\ DedupIndexExact

LEMMA SettleKeepsMemory ==
  ASSUME QueueAssumption, TypeOK, Memory,
         NEW b \in Bridges, NEW c \in Calls, NEW effective \in Decisions,
         Settle(b, c, effective)
  PROVE  Memory'
<1> USE DEF Memory
<1>1. /\ UNCHANGED <<phase, asked, call>>
      /\ entries' = [entries EXCEPT ![b][c] = "absent"]
      /\ inflight' = [inflight EXCEPT ![b] =
           [key \in Keys |-> IF key = call[c].key /\ @[key] = c THEN None ELSE @[key]]]
      /\ heard' = [k \in Callers |->
           IF entries[b][c] = "owned" /\ k \in Waiters(c) THEN effective ELSE heard[k]]
  BY DEF Settle
<1>2. effective # None
  BY DEF QueueAssumption
<1>3. \A g \in Bridges, e \in Calls :
         entries'[g][e] = IF g = b /\ e = c THEN "absent" ELSE entries[g][e]
  BY <1>1 DEF TypeOK
<1>4. \A k \in Callers : Waiting(k)' =>
         Waiting(k) /\ ~(entries[b][c] = "owned" /\ asked[k] = c)
  BY <1>1, <1>2 DEF Waiting, Waiters
<1>5. Bookkeeping'
  <2>1. \A k \in Callers : asked'[k] = None => heard'[k] = None
    BY <1>1 DEF Bookkeeping, Waiters, Waiting
  <2> QED
    BY <1>1, <1>3, <2>1 DEF Bookkeeping
<1>6. WaitersHaveEntry'
  <2> SUFFICES ASSUME NEW k \in Callers, Waiting(k)'
               PROVE  /\ call'[asked'[k]] # None
                      /\ entries'[call'[asked'[k]].bridge][asked'[k]] = "owned"
                      /\ phase'[call'[asked'[k]].bridge] \in {"up", "sweeping"}
    BY DEF WaitersHaveEntry
  <2>1. asked[k] \in Calls /\ call[asked[k]] \in CallInfo
    BY <1>4 DEF WaitersHaveEntry, Waiting, TypeOK
  <2>2. call[asked[k]].bridge \in Bridges
    BY <2>1 DEF CallInfo
  <2>3. ~(call[asked[k]].bridge = b /\ asked[k] = c)
    BY <1>4 DEF WaitersHaveEntry
  <2> QED
    BY <1>1, <1>3, <1>4, <2>1, <2>2, <2>3 DEF WaitersHaveEntry
<1>7. DedupIndexExact'
  <2> SUFFICES ASSUME NEW g \in Bridges, NEW key \in Keys, NEW e \in Calls
               PROVE  inflight'[g][key] = e <=> entries'[g][e] = "owned" /\ call'[e].key = key
    BY DEF DedupIndexExact
  <2>1. inflight'[g][key] = IF g = b /\ key = call[c].key /\ inflight[b][key] = c
                            THEN None ELSE inflight[g][key]
    BY <1>1 DEF TypeOK
  <2>2. e # None
    BY DEF QueueAssumption
  <2>3. inflight[g][key] = e <=> entries[g][e] = "owned" /\ call[e].key = key
    BY DEF DedupIndexExact
  <2>4. CASE g = b /\ e = c
    BY <1>1, <1>3, <2>1, <2>2, <2>3, <2>4
  <2>5. CASE ~(g = b /\ e = c)
    BY <1>1, <1>3, <2>1, <2>2, <2>3, <2>5
  <2> QED
    BY <2>4, <2>5
<1> QED
  BY <1>5, <1>6, <1>7

\* Steps that leave the entries, the index, the calls and the callers alone,
\* and stop no bridge that runs.
LEMMA OthersKeepMemory ==
  ASSUME TypeOK, Memory,
         UNCHANGED <<entries, inflight, call, asked, heard>>,
         \A b \in Bridges : phase[b] \in {"up", "sweeping"} => phase'[b] \in {"up", "sweeping"}
  PROVE  Memory'
<1>1. Bookkeeping'
  BY DEF Memory, Bookkeeping, TypeOK
<1>2. DedupIndexExact'
  BY DEF Memory, DedupIndexExact
<1>3. WaitersHaveEntry'
  <2> SUFFICES ASSUME NEW k \in Callers, Waiting(k)
               PROVE  phase'[call[asked[k]].bridge] \in {"up", "sweeping"}
    BY DEF Memory, WaitersHaveEntry, Waiting
  <2>1. call[asked[k]].bridge \in Bridges
    BY DEF Memory, WaitersHaveEntry, Waiting, TypeOK, CallInfo
  <2> QED
    BY <2>1 DEF Memory, WaitersHaveEntry
<1> QED
  BY <1>1, <1>2, <1>3 DEF Memory

LEMMA MemoryStep ==
  ASSUME QueueAssumption, TypeOK, Memory, [Next]_vars
  PROVE  Memory'
<1> "expired" \in Decisions /\ "cancelled" \in Decisions /\ HumanDecisions \subseteq Decisions
  BY DEF Decisions
<1> None \notin Calls /\ None \notin Decisions
  BY DEF QueueAssumption
<1>1. ASSUME NEW b \in Bridges, NEW k \in Callers, NEW key \in Keys, Join(b, k, key)
      PROVE  Memory'
  <2> DEFINE c == inflight[b][key]
  <2>1. c \in Calls /\ entries[b][c] = "owned"
    BY <1>1 DEF Join, TypeOK
  <2>2. phase[b] = "up" /\ call[c] # None /\ call[c].bridge = b
    BY <2>1, <1>1 DEF Join, Memory, Bookkeeping
  <2>3. asked' = [asked EXCEPT ![k] = c] /\ UNCHANGED <<entries, inflight, call, heard, phase>>
    BY <1>1 DEF Join, bridgeVars
  <2> HIDE DEF c
  <2>4. Bookkeeping'
    BY <2>1, <2>3 DEF Memory, Bookkeeping, TypeOK
  <2>5. WaitersHaveEntry'
    BY <2>1, <2>2, <2>3 DEF Memory, WaitersHaveEntry, Waiting, TypeOK
  <2>6. DedupIndexExact'
    BY <2>3 DEF Memory, DedupIndexExact
  <2> QED
    BY <2>4, <2>5, <2>6 DEF Memory
<1>2. ASSUME NEW b \in Bridges, NEW k \in Callers, NEW key \in Keys,
             NEW bounded \in BOOLEAN, NEW c \in Calls, Enqueue(b, k, key, bounded, c)
      PROVE  Memory'
  <2> DEFINE info == [bridge |-> b, key |-> key, bounded |-> bounded, origin |-> k]
  <2>1. /\ phase[b] = "up" /\ call[c] = None /\ asked[k] = None
        /\ call' = [call EXCEPT ![c] = info]
        /\ entries' = [entries EXCEPT ![b][c] = "owned"]
        /\ inflight' = [inflight EXCEPT ![b][key] = c]
        /\ asked' = [asked EXCEPT ![k] = c]
        /\ UNCHANGED <<phase, heard>>
    BY <1>2 DEF Enqueue
  <2>2. info \in CallInfo /\ info.bridge = b /\ info.key = key
    BY DEF CallInfo
  <2>3. info # None
    BY <2>2, QueueAssumption
  <2> HIDE DEF info
  <2>4. /\ \A e \in Calls : call'[e] = IF e = c THEN info ELSE call[e]
        /\ \A g \in Bridges, e \in Calls :
             entries'[g][e] = IF g = b /\ e = c THEN "owned" ELSE entries[g][e]
        /\ \A g \in Bridges, i \in Keys :
             inflight'[g][i] = IF g = b /\ i = key THEN c ELSE inflight[g][i]
        /\ \A n \in Callers : asked'[n] = IF n = k THEN c ELSE asked[n]
    BY <2>1 DEF TypeOK
  <2>5. \A g \in Bridges : entries[g][c] # "owned"
    BY <2>1 DEF Memory, Bookkeeping
  <2>6. inflight[b][key] = None
    BY <1>2 DEF Enqueue, Memory, DedupIndexExact, TypeOK
  <2>7. Bookkeeping'
    BY <2>1, <2>2, <2>3, <2>4, <2>5 DEF Memory, Bookkeeping
  <2>8. WaitersHaveEntry'
    <3> SUFFICES ASSUME NEW n \in Callers, Waiting(n)'
                 PROVE  /\ call'[asked'[n]] # None
                        /\ entries'[call'[asked'[n]].bridge][asked'[n]] = "owned"
                        /\ phase'[call'[asked'[n]].bridge] \in {"up", "sweeping"}
      BY DEF WaitersHaveEntry
    <3>1. CASE n = k
      BY <3>1, <2>1, <2>2, <2>3, <2>4
    <3>2. CASE n # k
      <4>1. Waiting(n) /\ asked'[n] = asked[n]
        BY <3>2, <2>1, <2>4 DEF Waiting
      <4>2. asked[n] \in Calls /\ call[asked[n]] \in CallInfo /\ call[asked[n]] # None
        BY <4>1 DEF Memory, WaitersHaveEntry, Waiting, TypeOK
      <4>3. call[asked[n]].bridge \in Bridges /\ asked[n] # c
        BY <4>2, <2>1 DEF CallInfo
      <4> QED
        BY <4>1, <4>2, <4>3, <2>1, <2>4 DEF Memory, WaitersHaveEntry
    <3> QED
      BY <3>1, <3>2
  <2>9. DedupIndexExact'
    <3> SUFFICES ASSUME NEW g \in Bridges, NEW i \in Keys, NEW e \in Calls
                 PROVE  inflight'[g][i] = e <=> entries'[g][e] = "owned" /\ call'[e].key = i
      BY DEF DedupIndexExact
    <3>1. inflight[g][i] = e <=> entries[g][e] = "owned" /\ call[e].key = i
      BY DEF Memory, DedupIndexExact
    <3>2. CASE e = c
      BY <3>1, <3>2, <2>2, <2>4, <2>5
    <3>3. CASE e # c
      BY <3>1, <3>3, <2>4, <2>6
    <3> QED
      BY <3>2, <3>3
  <2> QED
    BY <2>7, <2>8, <2>9 DEF Memory
<1>3. ASSUME NEW b \in Bridges, NEW c \in Calls, NEW d \in Decisions, ResolveEntry(b, c, d)
      PROVE  Memory'
  BY <1>3, SettleKeepsMemory DEF ResolveEntry
<1>4. ASSUME NEW k \in Callers, Abort(k)
      PROVE  Memory'
  <2>1. asked[k] \in Calls /\ call[asked[k]].bridge \in Bridges
    BY <1>4 DEF Abort, Memory, WaitersHaveEntry, Waiting, TypeOK, CallInfo
  <2>2. CASE call[asked[k]].origin = k
    BY <1>3, <1>4, <2>1, <2>2 DEF Abort
  <2>3. CASE call[asked[k]].origin # k
    <3>1. heard' = [heard EXCEPT ![k] = "cancelled"]
          /\ UNCHANGED <<entries, inflight, call, asked, phase>>
      BY <1>4, <2>3 DEF Abort
    <3>2. \A n \in Callers : Waiting(n)' => Waiting(n)
      BY <3>1 DEF Waiting, TypeOK
    <3>3. Bookkeeping'
      BY <1>4, <3>1 DEF Memory, Bookkeeping, TypeOK, Abort, Waiting
    <3> QED
      BY <3>1, <3>2, <3>3 DEF Memory, WaitersHaveEntry, DedupIndexExact
  <2> QED
    BY <2>2, <2>3
<1>5. ASSUME NEW b \in Bridges, NEW c \in Calls,
             \/ \E d \in HumanDecisions : Decide(b, c, d)
             \/ ExpireOwned(b, c) \/ CancelOne(b, c)
      PROVE  Memory'
  BY <1>3, <1>5 DEF Decide, ExpireOwned, CancelOne
<1>6. ASSUME NEW b \in Bridges, NEW c \in Calls, ExpireRestored(b, c)
      PROVE  Memory'
  BY <1>6, SettleKeepsMemory DEF ExpireRestored
<1>7. ASSUME NEW b \in Bridges, NEW c \in Calls, Attribute(b, c) \/ RestoreOverdue(b, c)
      PROVE  Memory'
  BY <1>7, OthersKeepMemory DEF Attribute, RestoreOverdue, callerVars
<1>8. ASSUME NEW b \in Bridges, NEW c \in Calls, RestorePending(b, c)
      PROVE  Memory'
  <2>1. phase[b] = "restoring" /\ entries[b][c] # "owned"
    BY <1>8 DEF RestorePending, Memory, Bookkeeping
  <2>2. entries' = [entries EXCEPT ![b][c] = "restored"]
        /\ UNCHANGED <<inflight, call, asked, heard, phase>>
    BY <1>8 DEF RestorePending, callerVars
  <2>3. \A g \in Bridges, e \in Calls : entries'[g][e] = "owned" <=> entries[g][e] = "owned"
    BY <2>1, <2>2 DEF TypeOK
  <2>4. WaitersHaveEntry'
    BY <2>2, <2>3 DEF Memory, WaitersHaveEntry, Waiting, TypeOK, CallInfo
  <2> QED
    BY <2>2, <2>3, <2>4 DEF Memory, Bookkeeping, DedupIndexExact
<1>9. ASSUME NEW b \in Bridges, Start(b) \/ Restored(b) \/ CancelAll(b) \/ CancelDone(b)
      PROVE  Memory'
  <2>1. UNCHANGED <<entries, inflight, call, asked, heard>>
    BY <1>9 DEF Start, Restored, CancelAll, CancelDone, callerVars
  <2>2. \A g \in Bridges : phase[g] \in {"up", "sweeping"} => phase'[g] \in {"up", "sweeping"}
    BY <1>9 DEF Start, Restored, CancelAll, CancelDone, TypeOK
  <2> QED
    BY <2>1, <2>2, OthersKeepMemory
<1>10. ASSUME NEW b \in Bridges, Crash(b)
       PROVE  Memory'
  <2>1. /\ phase' = [phase EXCEPT ![b] = "down"]
        /\ entries' = [entries EXCEPT ![b] = [c \in Calls |-> "absent"]]
        /\ inflight' = [inflight EXCEPT ![b] = [key \in Keys |-> None]]
        /\ heard' = [k \in Callers |->
             IF Waiting(k) /\ OnBridge(k, b) THEN "lost" ELSE heard[k]]
        /\ UNCHANGED <<asked, call>>
    BY <1>10 DEF Crash
  <2>2. /\ \A g \in Bridges, e \in Calls :
             entries'[g][e] = IF g = b THEN "absent" ELSE entries[g][e]
        /\ \A g \in Bridges, i \in Keys :
             inflight'[g][i] = IF g = b THEN None ELSE inflight[g][i]
        /\ \A g \in Bridges : phase'[g] = IF g = b THEN "down" ELSE phase[g]
    BY <2>1 DEF TypeOK
  <2>3. \A k \in Callers : Waiting(k)' => Waiting(k) /\ ~OnBridge(k, b)
    BY <2>1, QueueAssumption DEF Waiting
  <2>4. Bookkeeping'
    BY <2>1, <2>2 DEF Memory, Bookkeeping, Waiting
  <2>5. WaitersHaveEntry'
    <3> SUFFICES ASSUME NEW k \in Callers, Waiting(k)'
                 PROVE  /\ call'[asked'[k]] # None
                        /\ entries'[call'[asked'[k]].bridge][asked'[k]] = "owned"
                        /\ phase'[call'[asked'[k]].bridge] \in {"up", "sweeping"}
      BY DEF WaitersHaveEntry
    <3>1. asked[k] \in Calls /\ call[asked[k]] \in CallInfo
      BY <2>3 DEF Memory, WaitersHaveEntry, Waiting, TypeOK
    <3>2. call[asked[k]].bridge \in Bridges /\ call[asked[k]].bridge # b
      BY <3>1, <2>3 DEF CallInfo, OnBridge, Waiting
    <3> QED
      BY <2>1, <2>2, <2>3, <3>1, <3>2 DEF Memory, WaitersHaveEntry
  <2>6. DedupIndexExact'
    BY <2>1, <2>2 DEF Memory, DedupIndexExact
  <2> QED
    BY <2>4, <2>5, <2>6 DEF Memory
<1>11. ASSUME NEW c \in Calls, Tick(c)
       PROVE  Memory'
  BY <1>11, OthersKeepMemory DEF Tick, bridgeVars, callerVars
<1>12. CASE UNCHANGED vars
  BY <1>12, OthersKeepMemory DEF vars, bridgeVars, callerVars
<1> QED
  BY <1>1, <1>2, <1>4, <1>5, <1>6, <1>7, <1>8, <1>9, <1>10, <1>11, <1>12 DEF Next

-----------------------------------------------------------------------------
(* What callers are told *)

LEMMA SettleTellsTheLog ==
  ASSUME QueueAssumption, TypeOK, Memory, ToldAgreesWithLog, LogKept,
         NEW b \in Bridges, NEW c \in Calls, NEW effective \in Decisions,
         Settle(b, c, effective), aborted \subseteq aborted',
         entries[b][c] = "owned" =>
           RecordedDecision(c)' = effective \/ c \in unlogged'
  PROVE  ToldAgreesWithLog'
<1> SUFFICES ASSUME NEW k \in Callers, heard'[k] \in Decisions, k \notin aborted'
             PROVE  asked'[k] \in unlogged' \/ heard'[k] = RecordedDecision(asked[k])'
  BY DEF ToldAgreesWithLog, Settle
<1>1. asked' = asked
      /\ heard'[k] = IF entries[b][c] = "owned" /\ k \in Waiters(c) THEN effective ELSE heard[k]
  BY DEF Settle
<1>2. CASE entries[b][c] = "owned" /\ k \in Waiters(c)
  BY <1>1, <1>2 DEF Waiters
<1>3. CASE ~(entries[b][c] = "owned" /\ k \in Waiters(c))
  <2>1. heard'[k] = heard[k] /\ (asked[k] \in unlogged \/ heard[k] = RecordedDecision(asked[k]))
    BY <1>1, <1>3 DEF ToldAgreesWithLog
  <2>2. asked[k] \in Calls
    BY <2>1, QueueAssumption DEF Memory, Bookkeeping, TypeOK
  <2>3. heard[k] = RecordedDecision(asked[k]) => Decided(asked[k])
    BY <2>1, <2>2, QueueAssumption DEF RecordedDecision
  <2> QED
    BY <1>1, <2>1, <2>2, <2>3 DEF LogKept
<1> QED
  BY <1>2, <1>3

\* Steps that answer nobody, or only with "lost" or to callers that gave up.
LEMMA OthersTellNothing ==
  ASSUME QueueAssumption, TypeOK, Memory, ToldAgreesWithLog, LogKept,
         aborted \subseteq aborted',
         \A k \in Callers : heard'[k] \in Decisions =>
            k \in aborted' \/ (heard'[k] = heard[k] /\ asked'[k] = asked[k])
  PROVE  ToldAgreesWithLog'
<1> SUFFICES ASSUME NEW k \in Callers, heard'[k] \in Decisions, k \notin aborted'
             PROVE  asked'[k] \in unlogged' \/ heard'[k] = RecordedDecision(asked[k])'
  BY DEF ToldAgreesWithLog
<1>1. heard'[k] = heard[k] /\ asked'[k] = asked[k]
      /\ (asked[k] \in unlogged \/ heard[k] = RecordedDecision(asked[k]))
  BY DEF ToldAgreesWithLog
<1>2. asked[k] \in Calls
  BY <1>1, QueueAssumption DEF Memory, Bookkeeping, TypeOK
<1>3. heard[k] = RecordedDecision(asked[k]) => Decided(asked[k])
  BY <1>1, <1>2, QueueAssumption DEF RecordedDecision
<1> QED
  BY <1>1, <1>2, <1>3 DEF LogKept

LEMMA ToldStep ==
  ASSUME QueueAssumption, TypeOK, OneDecisionPerCall, Memory, ToldAgreesWithLog, [Next]_vars
  PROVE  ToldAgreesWithLog'
<1>1. LogKept
  BY TypeStep DEF Memory
<1> "expired" \in Decisions /\ "cancelled" \in Decisions /\ HumanDecisions \subseteq Decisions
  BY DEF Decisions
<1>2. ASSUME NEW b \in Bridges, NEW c \in Calls, NEW d \in Decisions, ResolveEntry(b, c, d),
             aborted \subseteq aborted'
      PROVE  ToldAgreesWithLog'
  <2>1. PICK effective \in Decisions : RecordDecision(c, d, effective) /\ Settle(b, c, effective)
    BY <1>2 DEF ResolveEntry
  <2>2. RecordedDecision(c)' = effective \/ c \in unlogged'
    BY <2>1, RecordDecisionKept
  <2> QED
    BY <1>1, <1>2, <2>1, <2>2, SettleTellsTheLog
<1>3. ASSUME NEW k \in Callers, Abort(k)
      PROVE  ToldAgreesWithLog'
  <2>1. asked[k] \in Calls /\ call[asked[k]].bridge \in Bridges
    BY <1>3 DEF Abort, Memory, WaitersHaveEntry, Waiting, TypeOK, CallInfo
  <2>2. aborted' = aborted \cup {k}
    BY <1>3 DEF Abort
  <2>3. CASE call[asked[k]].origin = k
    BY <1>2, <1>3, <2>1, <2>2, <2>3 DEF Abort
  <2>4. CASE call[asked[k]].origin # k
    <3>1. heard' = [heard EXCEPT ![k] = "cancelled"] /\ asked' = asked
      BY <1>3, <2>4 DEF Abort
    <3>2. \A n \in Callers : n # k => heard'[n] = heard[n] /\ asked'[n] = asked[n]
      BY <3>1 DEF TypeOK
    <3> QED
      BY <1>1, <2>2, <3>2, OthersTellNothing
  <2> QED
    BY <2>3, <2>4
<1>4. ASSUME NEW b \in Bridges, NEW c \in Calls,
             \/ \E d \in HumanDecisions : Decide(b, c, d)
             \/ ExpireOwned(b, c) \/ CancelOne(b, c)
      PROVE  ToldAgreesWithLog'
  BY <1>2, <1>4 DEF Decide, ExpireOwned, CancelOne
<1>5. ASSUME NEW b \in Bridges, NEW c \in Calls, ExpireRestored(b, c)
      PROVE  ToldAgreesWithLog'
  <2>1. entries[b][c] # "owned" /\ aborted' = aborted
    BY <1>5 DEF ExpireRestored
  <2> QED
    BY <1>1, <1>5, <2>1, SettleTellsTheLog DEF ExpireRestored
<1>6. ASSUME NEW b \in Bridges, NEW k \in Callers, NEW key \in Keys,
             Join(b, k, key) \/ \E bounded \in BOOLEAN, c \in Calls : Enqueue(b, k, key, bounded, c)
      PROVE  ToldAgreesWithLog'
  <2>1. asked[k] = None /\ heard' = heard /\ aborted' = aborted
    BY <1>6 DEF Join, Enqueue
  <2>2. heard[k] = None /\ None \notin Decisions
    BY <2>1, QueueAssumption DEF Memory, Bookkeeping
  <2>3. \A n \in Callers : n # k => asked'[n] = asked[n]
    BY <1>6 DEF Join, Enqueue, TypeOK
  <2> QED
    BY <1>1, <2>1, <2>2, <2>3, OthersTellNothing
<1>7. ASSUME NEW b \in Bridges, NEW c \in Calls,
             Attribute(b, c) \/ RestoreOverdue(b, c) \/ RestorePending(b, c)
      PROVE  ToldAgreesWithLog'
  BY <1>1, <1>7, OthersTellNothing DEF Attribute, RestoreOverdue, RestorePending, callerVars
<1>8. ASSUME NEW b \in Bridges, Start(b) \/ Restored(b) \/ CancelAll(b) \/ CancelDone(b)
      PROVE  ToldAgreesWithLog'
  BY <1>1, <1>8, OthersTellNothing DEF Start, Restored, CancelAll, CancelDone, callerVars
<1>9. ASSUME NEW b \in Bridges, Crash(b)
      PROVE  ToldAgreesWithLog'
  <2>1. \A k \in Callers : heard'[k] \in {heard[k], "lost"}
    BY <1>9 DEF Crash
  <2>2. "lost" \notin Decisions
    BY DEF Decisions, HumanDecisions
  <2>3. asked' = asked /\ aborted' = aborted
    BY <1>9 DEF Crash
  <2> QED
    BY <1>1, <2>1, <2>2, <2>3, OthersTellNothing
<1>10. ASSUME NEW c \in Calls, Tick(c)
       PROVE  ToldAgreesWithLog'
  BY <1>1, <1>10, OthersTellNothing DEF Tick, callerVars
<1>11. CASE UNCHANGED vars
  BY <1>1, <1>11, OthersTellNothing DEF vars, callerVars
<1> QED
  BY <1>3, <1>4, <1>5, <1>6, <1>7, <1>8, <1>9, <1>10, <1>11 DEF Next

-----------------------------------------------------------------------------
(* The inductive invariant: no part is inductive without the others.  The   *)
(* abort of a caller is only well-typed because its entry exists, the index *)
(* is only exact because a restored entry is never owned, and a caller is   *)
(* only told the log's decision because the log holds at most one.          *)

QueueInv == TypeOK /\ OneDecisionPerCall /\ Memory /\ ToldAgreesWithLog

LEMMA QueueInvInit ==
  ASSUME QueueAssumption, Init
  PROVE  QueueInv
<1>1. None \notin Decisions /\ None \notin Calls
  BY DEF QueueAssumption
<1>2. TypeOK /\ OneDecisionPerCall
  BY InitTyped
<1>3. Memory
  BY <1>1 DEF Init, Memory, Bookkeeping, WaitersHaveEntry, Waiting, DedupIndexExact
<1>4. ToldAgreesWithLog
  BY <1>1 DEF Init, ToldAgreesWithLog
<1> QED
  BY <1>2, <1>3, <1>4 DEF QueueInv

THEOREM QueueInvariant == Spec => []QueueInv
<1>1. QueueInv /\ [Next]_vars => QueueInv'
  BY TypeStep, MemoryStep, ToldStep, QueueAssumption DEF QueueInv, LogKept, Memory
<1> QED
  BY <1>1, QueueInvInit, QueueAssumption, PTL DEF Spec

\* Every variable keeps its type.
THEOREM Typed == Spec => []TypeOK
<1>1. QueueInv => TypeOK
  BY DEF QueueInv
<1> QED
  BY <1>1, QueueInvariant, PTL

\* Whichever bridges race to decide a call, and whatever crashes and append
\* failures come between, the log never holds two decisions of one call.
THEOREM SingleDecision == Spec => []OneDecisionPerCall
<1>1. QueueInv => OneDecisionPerCall
  BY DEF QueueInv
<1> QED
  BY <1>1, QueueInvariant, PTL

\* No caller acts on a decision the log contradicts, unless a decision of its
\* call could not be logged.
THEOREM CallersFollowTheLog == Spec => []ToldAgreesWithLog
<1>1. QueueInv => ToldAgreesWithLog
  BY DEF QueueInv
<1> QED
  BY <1>1, QueueInvariant, PTL

\* The dedup index and the live owned entries stay one relation across
\* restarts, restored twins and resolutions.
THEOREM DedupExact == Spec => []DedupIndexExact
<1>1. QueueInv => DedupIndexExact
  BY DEF QueueInv, Memory
<1> QED
  BY <1>1, QueueInvariant, PTL

\* No waiting caller is ever without a live owned entry on a running bridge.
THEOREM NoOrphanedCaller == Spec => []WaitersHaveEntry
<1>1. QueueInv => WaitersHaveEntry
  BY DEF QueueInv, Memory
<1> QED
  BY <1>1, QueueInvariant, PTL

-----------------------------------------------------------------------------
(* Who is named as the one that decided *)

HumanDecided(c) == Decided(c) /\ RecordedDecision(c) \in HumanDecisions

\* A handler still resolving its approver has had its decision recorded.
CreditEarned ==
  \A b \in Bridges : \A c \in credit[b] : c \in unlogged \/ HumanDecided(c)

\* An attribution is appended where a human has decided.
LEMMA AttributionAppended ==
  ASSUME TypeOK, OneDecisionPerCall, AttributionNamesADecider, unlogged \subseteq unlogged',
         NEW c \in Calls, NEW row \in Row, Written(c, row),
         row.kind = "attribution" => c \in unlogged \/ HumanDecided(c)
  PROVE  AttributionNamesADecider'
<1> SUFFICES ASSUME NEW e \in Calls, NEW i \in DOMAIN rows'[e],
                    rows'[e][i].kind = "attribution", e \notin unlogged'
             PROVE  \E j \in 1..(i - 1) : /\ IsDecision(rows'[e][j])
                                          /\ rows'[e][j].decision \in HumanDecisions
  BY DEF AttributionNamesADecider
<1>1. rows \in [Calls -> Seq(Row)] /\ rows' = [rows EXCEPT ![c] = Append(@, row)]
  BY DEF TypeOK, Written
<1>2. e \notin unlogged
  OBVIOUS
<1>3. ASSUME i \in DOMAIN rows[e], \A j \in DOMAIN rows[e] : rows'[e][j] = rows[e][j]
      PROVE  \E j \in 1..(i - 1) : /\ IsDecision(rows'[e][j])
                                   /\ rows'[e][j].decision \in HumanDecisions
  <2>1. PICK j \in 1..(i - 1) : IsDecision(rows[e][j]) /\ rows[e][j].decision \in HumanDecisions
    BY <1>2, <1>3 DEF AttributionNamesADecider
  <2>2. DOMAIN rows[e] = 1..Len(rows[e]) /\ Len(rows[e]) \in Nat
    BY <1>1
  <2>3. j \in DOMAIN rows[e]
    BY <1>3, <2>2
  <2> QED
    BY <1>3, <2>1, <2>3
<1>4. CASE e # c
  BY <1>1, <1>3, <1>4
<1>5. CASE e = c
  <2>1. /\ DOMAIN rows[c] = 1..Len(rows[c]) /\ Len(rows[c]) \in Nat
        /\ DOMAIN rows'[c] = 1..(Len(rows[c]) + 1)
        /\ rows'[c][Len(rows[c]) + 1] = row
        /\ \A j \in DOMAIN rows[c] : rows'[c][j] = rows[c][j]
    <3>1. rows[c] \in Seq(Row) /\ rows'[c] = Append(rows[c], row)
      BY <1>1
    <3> QED
      BY <3>1, AppendProperties
  <2>2. CASE i \in DOMAIN rows[c]
    BY <1>3, <1>5, <2>1, <2>2
  <2>3. CASE i = Len(rows[c]) + 1
    <3>1. HumanDecided(c)
      BY <1>2, <1>5, <2>1, <2>3
    <3>2. PICK j \in DOMAIN rows[c] : IsDecision(rows[c][j])
      BY <3>1 DEF HumanDecided, Decided
    <3>3. rows[c][j].decision \in HumanDecisions
      BY <3>1, <3>2, RecordedIsTheDecision DEF HumanDecided
    <3>4. j \in 1..(i - 1) /\ rows'[c][j] = rows[c][j]
      BY <2>1, <2>3
    <3> QED
      BY <1>5, <3>2, <3>3, <3>4
  <2> QED
    BY <1>5, <2>1, <2>2, <2>3
<1> QED
  BY <1>4, <1>5

\* What a step appends, if it appends a row at all.
LEMMA AttributionStep ==
  ASSUME QueueAssumption, TypeOK, OneDecisionPerCall, Memory, AttributionNamesADecider,
         CreditEarned, [Next]_vars
  PROVE  AttributionNamesADecider' /\ CreditEarned'
<1>1. LogKept
  BY TypeStep DEF Memory
<1>2. unlogged \subseteq unlogged'
  BY <1>1 DEF LogKept
<1>3. ASSUME rows' = rows  PROVE AttributionNamesADecider'
  BY <1>2, <1>3 DEF AttributionNamesADecider
<1>4. ASSUME \A b \in Bridges : credit'[b] \subseteq credit[b]  PROVE CreditEarned'
  <2> SUFFICES ASSUME NEW b \in Bridges, NEW c \in credit'[b]
               PROVE  c \in unlogged' \/ HumanDecided(c)'
    BY DEF CreditEarned
  <2>1. c \in Calls /\ (c \in unlogged \/ HumanDecided(c))
    BY <1>4 DEF CreditEarned, TypeOK
  <2> QED
    BY <1>1, <2>1 DEF LogKept, HumanDecided
<1>5. ASSUME NEW c \in Calls, NEW row \in Row, AppendSoft(c, row),
             row.kind = "attribution" => c \in unlogged \/ HumanDecided(c)
      PROVE  AttributionNamesADecider'
  BY <1>2, <1>3, <1>5, AttributionAppended DEF AppendSoft
<1>6. ASSUME NEW c \in Calls, NEW d \in Decisions, NEW effective \in Decisions,
             RecordDecision(c, d, effective)
      PROVE  AttributionNamesADecider'
  <2>1. DecisionRow(d) \in Row /\ DecisionRow(d).kind = "decision"
    BY DEF DecisionRow, Row
  <2> QED
    BY <1>2, <1>3, <1>6, <2>1, AttributionAppended DEF RecordDecision, logVars
<1> "expired" \in Decisions /\ "cancelled" \in Decisions /\ HumanDecisions \subseteq Decisions
  BY DEF Decisions
<1>7. ASSUME NEW b \in Bridges, NEW c \in Calls, NEW d \in HumanDecisions, Decide(b, c, d)
      PROVE  AttributionNamesADecider' /\ CreditEarned'
  <2>1. PICK effective \in Decisions : RecordDecision(c, d, effective) /\ Settle(b, c, effective)
    BY <1>7 DEF Decide, ResolveEntry
  <2>2. AttributionNamesADecider'
    BY <1>6, <2>1
  <2>3. recent'[b][c] = effective
    BY <2>1 DEF Settle, TypeOK
  <2>4. credit' = [credit EXCEPT ![b] = IF effective = d THEN @ \cup {c} ELSE @]
    BY <1>7, <2>3 DEF Decide
  <2>5. (RecordedDecision(c)' = effective /\ Decided(c)') \/ c \in unlogged'
    BY <2>1, RecordDecisionKept
  <2>6. CreditEarned'
    <3> SUFFICES ASSUME NEW p \in Bridges, NEW e \in credit'[p]
                 PROVE  e \in unlogged' \/ HumanDecided(e)'
      BY DEF CreditEarned
    <3>1. e \in credit[p] \/ (e = c /\ effective = d)
      BY <2>4 DEF TypeOK
    <3>2. CASE e \in credit[p]
      <4>1. e \in Calls /\ (e \in unlogged \/ HumanDecided(e))
        BY <3>2 DEF CreditEarned, TypeOK
      <4> QED
        BY <1>1, <4>1 DEF LogKept, HumanDecided
    <3>3. CASE e = c /\ effective = d
      BY <2>5, <3>3 DEF HumanDecided
    <3> QED
      BY <3>1, <3>2, <3>3
  <2> QED
    BY <2>2, <2>6
<1>8. ASSUME NEW b \in Bridges, NEW c \in Calls, Attribute(b, c)
      PROVE  AttributionNamesADecider' /\ CreditEarned'
  <2>1. c \in unlogged \/ HumanDecided(c)
    BY <1>8 DEF Attribute, CreditEarned
  <2>2. AttributionRow \in Row
    BY DEF AttributionRow, Row
  <2>3. AttributionNamesADecider'
    BY <1>3, <1>5, <1>8, <2>1, <2>2 DEF Attribute, logVars
  <2>4. \A p \in Bridges : credit'[p] \subseteq credit[p]
    BY <1>8 DEF Attribute, TypeOK
  <2> QED
    BY <1>4, <2>3, <2>4
<1>9. ASSUME NEW b \in Bridges, NEW k \in Callers, NEW key \in Keys,
             Join(b, k, key) \/ \E bounded \in BOOLEAN, c \in Calls : Enqueue(b, k, key, bounded, c)
      PROVE  AttributionNamesADecider' /\ CreditEarned'
  <2>1. RequestRow \in Row /\ RequestRow.kind = "request"
    BY DEF RequestRow, Row
  <2>2. AttributionNamesADecider'
    BY <1>3, <1>5, <1>9, <2>1 DEF Join, Enqueue, logVars
  <2>3. credit' = credit
    BY <1>9 DEF Join, Enqueue, bridgeVars
  <2> QED
    BY <1>4, <2>2, <2>3
<1>10. ASSUME NEW b \in Bridges, NEW c \in Calls, NEW d \in Decisions, ResolveEntry(b, c, d)
       PROVE  AttributionNamesADecider'
  BY <1>6, <1>10 DEF ResolveEntry
<1>11. ASSUME NEW k \in Callers, Abort(k)
       PROVE  AttributionNamesADecider' /\ CreditEarned'
  <2>1. asked[k] \in Calls /\ call[asked[k]].bridge \in Bridges
    BY <1>11 DEF Abort, Memory, WaitersHaveEntry, Waiting, TypeOK, CallInfo
  <2> QED
    BY <1>3, <1>4, <1>10, <1>11, <2>1 DEF Abort, logVars
<1>12. ASSUME NEW b \in Bridges, NEW c \in Calls,
              \/ ExpireOwned(b, c) \/ CancelOne(b, c) \/ ExpireRestored(b, c)
              \/ RestoreOverdue(b, c) \/ RestorePending(b, c)
       PROVE  AttributionNamesADecider' /\ CreditEarned'
  <2>1. credit' = credit
    BY <1>12 DEF ExpireOwned, CancelOne, ExpireRestored, RestoreOverdue, RestorePending
  <2>2. AttributionNamesADecider'
    BY <1>3, <1>6, <1>10, <1>12 DEF ExpireOwned, CancelOne, ExpireRestored, RestoreOverdue,
                                    RestorePending, logVars
  <2> QED
    BY <1>4, <2>1, <2>2
<1>13. ASSUME NEW b \in Bridges, Start(b) \/ Restored(b) \/ CancelAll(b) \/ CancelDone(b) \/ Crash(b)
       PROVE  AttributionNamesADecider' /\ CreditEarned'
  <2>1. rows' = rows
    BY <1>13 DEF Start, Restored, CancelAll, CancelDone, Crash, logVars
  <2>2. credit' = credit \/ credit' = [credit EXCEPT ![b] = {}]
    BY <1>13 DEF Start, Restored, CancelAll, CancelDone, Crash
  <2>3. \A p \in Bridges : credit'[p] \subseteq credit[p]
    BY <2>2 DEF TypeOK
  <2> QED
    BY <1>3, <1>4, <2>1, <2>3
<1>14. ASSUME (\E c \in Calls : Tick(c)) \/ UNCHANGED vars
       PROVE  AttributionNamesADecider' /\ CreditEarned'
  BY <1>3, <1>4, <1>14 DEF Tick, vars, logVars, bridgeVars
<1> QED
  BY <1>7, <1>8, <1>9, <1>11, <1>12, <1>13, <1>14 DEF Next

\* A named person is only ever attached to a call that a human decided, whoever
\* lost the race for the decision.
THEOREM AttributionsAreEarned == Spec => []AttributionNamesADecider
<1>1. Init => AttributionNamesADecider /\ CreditEarned
  BY DEF Init, AttributionNamesADecider, CreditEarned
<1>2. QueueInv /\ AttributionNamesADecider /\ CreditEarned /\ [Next]_vars
        => (AttributionNamesADecider /\ CreditEarned)'
  BY AttributionStep, QueueAssumption DEF QueueInv
<1> QED
  BY <1>1, <1>2, QueueInvariant, PTL DEF Spec

\* An operator's cancelAll, the log, the caller itself or the first caller of its
\* call: nobody else's signal cancels a caller that waits.
THEOREM OthersAreNotCancelled == Spec => CancelReachesOnlyTheAbandoned
<1>1. ASSUME QueueInv, [Next]_vars, NEW k \in Callers, Waiting(k), heard'[k] = "cancelled"
      PROVE  \/ k \in aborted'
             \/ call[asked[k]].origin \in aborted'
             \/ phase[call[asked[k]].bridge] = "sweeping"
             \/ RecordedDecision(asked[k]) = "cancelled"
  <2>1. /\ TypeOK /\ Memory
        /\ heard[k] # "cancelled" /\ None \notin Decisions
    BY <1>1, QueueAssumption DEF QueueInv, Waiting, Decisions
  <2>2. ASSUME NEW b \in Bridges, NEW c \in Calls, NEW d \in Decisions, ResolveEntry(b, c, d)
        PROVE  /\ asked[k] = c /\ entries[b][c] = "owned"
               /\ d = "cancelled" \/ RecordedDecision(c) = "cancelled"
    <3>1. PICK effective \in Decisions : RecordDecision(c, d, effective) /\ Settle(b, c, effective)
      BY <2>2 DEF ResolveEntry
    <3>2. entries[b][c] = "owned" /\ k \in Waiters(c) /\ effective = "cancelled"
      BY <1>1, <2>1, <3>1 DEF Settle
    <3>3. effective = d \/ effective = RecordedDecision(c)
      BY <3>1 DEF RecordDecision
    <3> QED
      BY <3>2, <3>3 DEF Waiters
  <2> "expired" \in Decisions /\ "cancelled" \in Decisions /\ HumanDecisions \subseteq Decisions
      /\ "cancelled" \notin HumanDecisions
    BY DEF Decisions, HumanDecisions
  <2>3. ASSUME NEW n \in Callers, Abort(n)
        PROVE  \/ k \in aborted'
               \/ call[asked[k]].origin \in aborted'
               \/ RecordedDecision(asked[k]) = "cancelled"
    <3>1. asked[n] \in Calls /\ call[asked[n]].bridge \in Bridges
      BY <2>1, <2>3 DEF Abort, Memory, WaitersHaveEntry, Waiting, TypeOK, CallInfo
    <3>2. n \in aborted'
      BY <2>3 DEF Abort
    <3>3. CASE /\ call[asked[n]].origin = n
               /\ ResolveEntry(call[asked[n]].bridge, asked[n], "cancelled")
      <4>1. asked[k] = asked[n]
        BY <2>2, <3>1, <3>3
      <4> QED
        BY <3>2, <3>3, <4>1
    <3>4. CASE heard' = [heard EXCEPT ![n] = "cancelled"]
      <4>1. k = n
        BY <1>1, <2>1, <3>4
      <4> QED
        BY <3>2, <4>1
    <3> QED
      BY <2>3, <3>3, <3>4 DEF Abort
  <2>4. ASSUME NEW b \in Bridges, NEW c \in Calls,
               \/ \E d \in HumanDecisions : Decide(b, c, d)
               \/ ExpireOwned(b, c) \/ CancelOne(b, c)
        PROVE  \/ phase[call[asked[k]].bridge] = "sweeping"
               \/ RecordedDecision(asked[k]) = "cancelled"
    <3>1. ASSUME NEW d \in HumanDecisions, Decide(b, c, d)
          PROVE  RecordedDecision(asked[k]) = "cancelled"
      BY <2>2, <3>1 DEF Decide
    <3>2. ASSUME ExpireOwned(b, c)  PROVE RecordedDecision(asked[k]) = "cancelled"
      BY <2>2, <3>2 DEF ExpireOwned
    <3>3. ASSUME CancelOne(b, c)  PROVE phase[call[asked[k]].bridge] = "sweeping"
      <4>1. asked[k] = c /\ entries[b][c] = "owned" /\ phase[b] = "sweeping"
        BY <2>2, <3>3 DEF CancelOne
      <4>2. call[c].bridge = b
        BY <2>1, <4>1 DEF Memory, Bookkeeping
      <4> QED
        BY <4>1, <4>2
    <3> QED
      BY <2>4, <3>1, <3>2, <3>3
  <2>5. ASSUME NEW b \in Bridges, NEW c \in Calls, ExpireRestored(b, c)  PROVE FALSE
    BY <1>1, <2>1, <2>5 DEF ExpireRestored, Settle
  <2>6. ASSUME NEW b \in Bridges, Crash(b)  PROVE FALSE
    BY <1>1, <2>1, <2>6 DEF Crash
  <2>7. ASSUME heard' = heard  PROVE FALSE
    BY <1>1, <2>1, <2>7
  <2>8. ASSUME NEW b \in Bridges, NEW n \in Callers, NEW key \in Keys,
               Join(b, n, key) \/ \E bounded \in BOOLEAN, c \in Calls : Enqueue(b, n, key, bounded, c)
        PROVE  FALSE
    BY <2>7, <2>8 DEF Join, Enqueue
  <2>9. ASSUME NEW b \in Bridges, NEW c \in Calls,
               Attribute(b, c) \/ RestoreOverdue(b, c) \/ RestorePending(b, c)
        PROVE  FALSE
    BY <2>7, <2>9 DEF Attribute, RestoreOverdue, RestorePending, callerVars
  <2>10. ASSUME NEW b \in Bridges, Start(b) \/ Restored(b) \/ CancelAll(b) \/ CancelDone(b)
         PROVE  FALSE
    BY <2>7, <2>10 DEF Start, Restored, CancelAll, CancelDone, callerVars
  <2>11. ASSUME (\E c \in Calls : Tick(c)) \/ UNCHANGED vars  PROVE FALSE
    BY <2>7, <2>11 DEF Tick, vars, callerVars
  <2> QED
    BY <1>1, <2>3, <2>4, <2>5, <2>6, <2>8, <2>9, <2>10, <2>11 DEF Next
<1>2. QueueInv /\ [Next]_vars =>
        [\A k \in Callers :
           Waiting(k) /\ heard'[k] = "cancelled" =>
              \/ k \in aborted'
              \/ call[asked[k]].origin \in aborted'
              \/ phase[call[asked[k]].bridge] = "sweeping"
              \/ RecordedDecision(asked[k]) = "cancelled"]_vars
  BY <1>1
<1> QED
  BY <1>2, QueueInvariant, PTL DEF Spec, CancelReachesOnlyTheAbandoned

-----------------------------------------------------------------------------
(* The queues implement ApprovalVerdict *)

\* The verdict function of the refinement mapping
Log == [c \in Calls |-> RecordedDecision(c)]

LEMMA NothingDecided ==
  ASSUME LogKept, \A e \in Calls : Decided(e)' <=> Decided(e)
  PROVE  Log' = Log
<1>1. \A e \in Calls : RecordedDecision(e)' = RecordedDecision(e)
  BY DEF LogKept, RecordedDecision
<1> QED
  BY <1>1 DEF Log

\* One attempt to record a decision is a step of the abstract verdict, told
\* to whichever waiting callers of the call.
LEMMA RecordImplements ==
  ASSUME QueueAssumption, TypeOK, OneDecisionPerCall, TypeOK',
         NEW c \in Calls, NEW d \in Decisions, NEW effective \in Decisions,
         RecordDecision(c, d, effective),
         asked' = asked,
         \A k \in Callers : heard'[k] # heard[k] =>
            Waiting(k) /\ asked[k] = c /\ heard'[k] = effective
  PROVE  Verdict!Decide(c) \/ \E e \in Decisions : Verdict!DecideUnrecorded(c, e)
<1> DEFINE row == DecisionRow(d)
<1>0. row \in Row /\ IsDecision(row) /\ row.decision = d
  BY DEF DecisionRow, Row, IsDecision
<1>1. heard' \in [Callers -> Decisions \cup {None, "lost"}]
  BY DEF TypeOK
<1>2. LogKept
  BY RecordDecisionKept
<1>3. CASE ~Decided(c) /\ effective = d /\ Written(c, row) /\ unlogged' = unlogged
  <2>1. Log[c] = None
    BY <1>3 DEF Log, RecordedDecision
  <2>2. RecordedDecision(c)' = d
    BY <1>0, <1>3, AppendKeepsDecisions
  <2>3. \A e \in Calls : e # c => RecordedDecision(e)' = RecordedDecision(e)
    <3>1. \A e \in Calls : ~Decided(e) /\ e # c => ~Decided(e)'
      BY <1>0, <1>3, AppendKeepsDecisions
    <3> QED
      BY <3>1, <1>2 DEF LogKept, RecordedDecision
  <2>4. Log' = [Log EXCEPT ![c] = d]
    BY <2>2, <2>3 DEF Log
  <2> QED
    BY <1>1, <1>3, <2>1, <2>4
       DEF Verdict!Decide, Verdict!AnswerShape, Verdict!Tell, Verdict!Open, Waiting, Log
<1>4. CASE Decided(c) /\ effective = RecordedDecision(c) /\ UNCHANGED logVars
  <2>1. Log' = Log
    BY <1>2, <1>4, NothingDecided DEF logVars, Decided
  <2>2. Log[c] = effective /\ effective # None /\ unlogged' = unlogged
    BY <1>4, QueueAssumption DEF Log, logVars
  <2> QED
    BY <1>1, <2>1, <2>2
       DEF Verdict!Decide, Verdict!AnswerShape, Verdict!Tell, Verdict!Open, Waiting, Log
<1>5. CASE effective = d /\ unlogged' = unlogged \cup {c} /\ UNCHANGED rows
  <2>1. Log' = Log
    BY <1>2, <1>5, NothingDecided DEF Decided
  <2> QED
    BY <1>1, <1>5, <2>1
       DEF Verdict!DecideUnrecorded, Verdict!AnswerShape, Verdict!Tell, Verdict!Open, Waiting, Log
<1> QED
  BY <1>3, <1>4, <1>5 DEF RecordDecision

LEMMA SettleTellsWaiters ==
  ASSUME TypeOK, NEW b \in Bridges, NEW c \in Calls, NEW effective, Settle(b, c, effective)
  PROVE  /\ asked' = asked
         /\ \A k \in Callers : heard'[k] # heard[k] =>
              Waiting(k) /\ asked[k] = c /\ heard'[k] = effective
         /\ entries[b][c] # "owned" => heard' = heard
BY DEF Settle, Waiters, TypeOK

\* Steps that neither decide nor answer nor ask.
LEMMA StutterImplements ==
  ASSUME LogKept, \A e \in Calls : Decided(e)' <=> Decided(e),
         UNCHANGED <<asked, heard, unlogged>>
  PROVE  UNCHANGED Verdict!vars
<1>1. Log' = Log
  BY NothingDecided
<1> QED
  BY <1>1 DEF Verdict!vars, Log

LEMMA StepImplements ==
  ASSUME QueueAssumption, QueueInv, [Next]_vars
  PROVE  [Verdict!Next]_(Verdict!vars)
<1> USE DEF QueueInv
<1>1. TypeOK' /\ LogKept
  BY TypeStep DEF Memory
<1> "expired" \in Decisions /\ "cancelled" \in Decisions /\ HumanDecisions \subseteq Decisions
  BY DEF Decisions
<1> RequestRow \in Row /\ ~IsDecision(RequestRow)
    /\ AttributionRow \in Row /\ ~IsDecision(AttributionRow)
  BY DEF RequestRow, AttributionRow, Row, IsDecision
<1>2. ASSUME NEW b \in Bridges, NEW c \in Calls, NEW d \in Decisions, ResolveEntry(b, c, d)
      PROVE  Verdict!Next
  <2>1. PICK effective \in Decisions : RecordDecision(c, d, effective) /\ Settle(b, c, effective)
    BY <1>2 DEF ResolveEntry
  <2>2. Verdict!Decide(c) \/ \E e \in Decisions : Verdict!DecideUnrecorded(c, e)
    BY <1>1, <2>1, SettleTellsWaiters, RecordImplements
  <2> QED
    BY <2>2 DEF Verdict!Next
<1>3. ASSUME NEW k \in Callers, Abort(k)
      PROVE  Verdict!Next
  <2>1. asked[k] \in Calls /\ call[asked[k]].bridge \in Bridges
    BY <1>3 DEF Abort, Memory, WaitersHaveEntry, Waiting, TypeOK, CallInfo
  <2>2. CASE call[asked[k]].origin = k
    BY <1>2, <1>3, <2>1, <2>2 DEF Abort
  <2>3. CASE call[asked[k]].origin # k
    <3>1. /\ heard' = [heard EXCEPT ![k] = "cancelled"]
          /\ asked' = asked /\ UNCHANGED logVars /\ Waiting(k)
      BY <1>3, <2>3 DEF Abort
    <3>2. Log' = Log
      BY <1>1, <3>1, NothingDecided DEF logVars, Decided
    <3>3. Verdict!GiveUp(k)
      BY <3>1, <3>2 DEF Verdict!GiveUp, Verdict!Open, Waiting, Log, logVars
    <3> QED
      BY <3>3 DEF Verdict!Next
  <2> QED
    BY <2>2, <2>3
<1>4. ASSUME NEW b \in Bridges, NEW c \in Calls,
             \/ \E d \in HumanDecisions : Decide(b, c, d)
             \/ ExpireOwned(b, c) \/ CancelOne(b, c)
      PROVE  Verdict!Next
  BY <1>2, <1>4 DEF Decide, ExpireOwned, CancelOne
<1>5. ASSUME NEW b \in Bridges, NEW c \in Calls, ExpireRestored(b, c)
      PROVE  UNCHANGED Verdict!vars
  <2>1. heard' = heard /\ asked' = asked /\ UNCHANGED logVars
    BY <1>5, SettleTellsWaiters DEF ExpireRestored
  <2> QED
    BY <1>1, <2>1, StutterImplements DEF logVars, Decided
<1>6. ASSUME NEW b \in Bridges, NEW k \in Callers, NEW key \in Keys, Join(b, k, key)
      PROVE  Verdict!Next
  <2>1. /\ inflight[b][key] \in Calls /\ asked[k] = None
        /\ asked' = [asked EXCEPT ![k] = inflight[b][key]]
        /\ UNCHANGED logVars /\ heard' = heard
    BY <1>6 DEF Join, TypeOK
  <2>2. Log' = Log
    BY <1>1, <2>1, NothingDecided DEF logVars, Decided
  <2>3. Verdict!Ask(k, inflight[b][key])
    BY <2>1, <2>2 DEF Verdict!Ask, Log, logVars
  <2> QED
    BY <2>1, <2>3 DEF Verdict!Next
<1>7. ASSUME NEW b \in Bridges, NEW k \in Callers, NEW key \in Keys,
             NEW bounded \in BOOLEAN, NEW c \in Calls, Enqueue(b, k, key, bounded, c)
      PROVE  Verdict!Next
  <2>1. /\ asked[k] = None /\ asked' = [asked EXCEPT ![k] = c]
        /\ heard' = heard /\ AppendSoft(c, RequestRow)
    BY <1>7 DEF Enqueue
  <2>2. Log' = Log
    BY <1>1, <2>1, AppendSoftKept, NothingDecided
  <2>3. unlogged' = unlogged
    BY <2>1 DEF AppendSoft
  <2>4. Verdict!Ask(k, c)
    BY <2>1, <2>2, <2>3 DEF Verdict!Ask, Log
  <2> QED
    BY <2>4 DEF Verdict!Next
<1>8. ASSUME NEW b \in Bridges, NEW c \in Calls, Attribute(b, c)
      PROVE  UNCHANGED Verdict!vars
  <2>1. AppendSoft(c, AttributionRow) \/ UNCHANGED logVars
    BY <1>8 DEF Attribute
  <2>2. \A e \in Calls : Decided(e)' <=> Decided(e)
    BY <2>1, AppendSoftKept DEF logVars, Decided
  <2>3. UNCHANGED <<asked, heard, unlogged>>
    BY <1>8, <2>1 DEF Attribute, callerVars, AppendSoft, logVars
  <2> QED
    BY <1>1, <2>2, <2>3, StutterImplements
<1>9. ASSUME NEW b \in Bridges, NEW c \in Calls, RestoreOverdue(b, c)
      PROVE  Verdict!Next
  <2>1. PICK effective \in Decisions : RecordDecision(c, "expired", effective)
    BY <1>9 DEF RestoreOverdue
  <2>2. asked' = asked /\ heard' = heard
    BY <1>9 DEF RestoreOverdue, callerVars
  <2>3. Verdict!Decide(c) \/ \E e \in Decisions : Verdict!DecideUnrecorded(c, e)
    BY <1>1, <2>1, <2>2, RecordImplements
  <2> QED
    BY <2>3 DEF Verdict!Next
<1>10. ASSUME NEW b \in Bridges, Crash(b)
       PROVE  Verdict!Next
  <2>1. /\ heard' = [k \in Callers |->
             IF Waiting(k) /\ OnBridge(k, b) THEN "lost" ELSE heard[k]]
        /\ asked' = asked /\ UNCHANGED logVars
    BY <1>10 DEF Crash
  <2>2. Log' = Log
    BY <1>1, <2>1, NothingDecided DEF logVars, Decided
  <2>3. heard' \in [Callers -> Decisions \cup {None, "lost"}]
    BY <1>1 DEF TypeOK
  <2>4. Verdict!Exit
    BY <2>1, <2>2, <2>3
       DEF Verdict!Exit, Verdict!AnswerShape, Verdict!Open, Waiting, Log, logVars
  <2> QED
    BY <2>4 DEF Verdict!Next
<1>11. ASSUME UNCHANGED <<asked, heard, unlogged, rows>>
       PROVE  UNCHANGED Verdict!vars
  BY <1>1, <1>11, StutterImplements DEF Decided
<1>12. ASSUME NEW b \in Bridges, NEW c \in Calls, RestorePending(b, c)
       PROVE  UNCHANGED Verdict!vars
  BY <1>11, <1>12 DEF RestorePending, logVars, callerVars
<1>13. ASSUME NEW b \in Bridges, Start(b) \/ Restored(b) \/ CancelAll(b) \/ CancelDone(b)
       PROVE  UNCHANGED Verdict!vars
  BY <1>11, <1>13 DEF Start, Restored, CancelAll, CancelDone, logVars, callerVars
<1>14. ASSUME NEW c \in Calls, Tick(c)
       PROVE  UNCHANGED Verdict!vars
  BY <1>11, <1>14 DEF Tick, logVars, callerVars
<1>15. CASE UNCHANGED vars
  BY <1>11, <1>15 DEF vars, logVars, callerVars
<1> QED
  BY <1>3, <1>4, <1>5, <1>6, <1>7, <1>8, <1>9, <1>10, <1>12, <1>13, <1>14, <1>15 DEF Next

LEMMA InitImplements ==
  ASSUME QueueAssumption, Init
  PROVE  Verdict!Init
<1>1. \A c \in Calls : ~Decided(c)
  BY DEF Init, Decided
<1> QED
  BY <1>1 DEF Init, Verdict!Init, RecordedDecision

\* All the queues over one shared log behave as one verdict per call.
THEOREM VerdictImplemented == Spec => ImplementsVerdict
<1>1. QueueInv /\ [Next]_vars => [Verdict!Next]_(Verdict!vars)
  BY StepImplements, QueueAssumption
<1>2. Init => Verdict!Init
  BY InitImplements, QueueAssumption
<1> QED
  BY <1>1, <1>2, QueueInvariant, PTL DEF Spec, ImplementsVerdict, Verdict!Spec
=============================================================================
