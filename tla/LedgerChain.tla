----------------------------- MODULE LedgerChain -----------------------------
(***************************************************************************)
(* appendChained and verifyLedgerChain (src/src/ledgerChain.ts): the one   *)
(* way a row reaches a ledger that several bridge processes share, and the *)
(* reader that says whether the file is what those writers wrote.          *)
(*                                                                         *)
(* A writer's action is one file operation, so that a writer may be killed *)
(* or fail between any two of them, or in the middle of an append.  Writers*)
(* exclude one another with withFileLockSync (module FileLockSync); the    *)
(* write-failure counter is the one file touched outside that lock.        *)
(*                                                                         *)
(* A line is a record; the hash of its bytes is a number no other line has.*)
(* Sizes are counted in lines: the file is over its cap beyond Cap lines   *)
(* and a rotation keeps the newest Target.                                 *)
(***************************************************************************)
EXTENDS Integers, Sequences, FiniteSets

CONSTANTS
    Writer,         \* the processes that append to the ledger
    Nobody,         \* the lock is free
    LegacyRows,     \* how many rows the file may hold before its first chained append
    Cap, Target,    \* rotate beyond Cap lines, keep the newest Target
    MaxHash,        \* bound: lines and markers stamped in one behaviour
    MaxCrashes,     \* bound: writers killed
    MaxFailures,    \* bound: appends that throw
    MaxTears        \* bound: kills and failures that leave half a line

ASSUME LedgerAssumption ==
    /\ Nobody \notin Writer
    /\ LegacyRows \subseteq Nat
    /\ Cap \in Nat /\ Target \in 1..Cap
    /\ {MaxHash, MaxCrashes, MaxFailures, MaxTears} \subseteq Nat

VARIABLES
    file,       \* the lines of the ledger
    torn,       \* its last line has no newline
    head,       \* the .head sidecar: iseq and hash, iseq 0 when there is none
    failed,     \* the number of lines of the .write_failed sidecar
    lock,       \* who is in the critical section
    pc,         \* where each writer is in appendChained
    stamped,    \* the row each writer is appending, as it stamped it
    nextHash,   \* the hash of the next line to be written
    acked,      \* history: iseq and hash of each row whose append returned
    landed,     \* history: rows that reached the file
    counted,    \* history: failures that reached the .write_failed sidecar
    raced,      \* history: one did so while a row with an earlier count was written
    crashes, failures, tears   \* history: the bounded events

ledger == <<file, torn, head>>
history == <<acked, landed, counted, raced, crashes, failures, tears>>
vars == <<ledger, failed, lock, pc, stamped, nextHash, history>>

Kinds == {"legacy", "garbage", "start", "rotation", "row"}

\* A row has iseq, prev and sealed (writeFailed); a chain-start marker covers
\* the hashes of the lines before it; a rotation marker has the cumulative
\* counts, lastDroppedIseq in iseq and lastDroppedHash in prev.
Line == [kind : Kinds, hash : Nat, iseq : Nat, prev : Nat, sealed : Nat,
         covers : Seq(Nat), dropped : Nat, droppedLegacy : Nat]

Plain(kind, hash) ==
    [kind |-> kind, hash |-> hash, iseq |-> 0, prev |-> 0, sealed |-> 0,
     covers |-> <<>>, dropped |-> 0, droppedLegacy |-> 0]

NoHead == [iseq |-> 0, hash |-> 0]

Places == {"idle", "locked", "ready", "started", "stamped", "appended",
           "headed", "failing"}

Latest(S) == CHOOSE i \in S : \A j \in S : j <= i
Indices(f, kinds) == {i \in DOMAIN f : f[i].kind \in kinds}

Init ==
    /\ \E n \in LegacyRows : file = [i \in 1..n |-> Plain("legacy", i)]
    /\ torn \in IF file = <<>> THEN {FALSE} ELSE BOOLEAN
    /\ head = NoHead
    /\ failed = 0
    /\ lock = Nobody
    /\ pc = [w \in Writer |-> "idle"]
    /\ stamped = [w \in Writer |-> Plain("row", 0)]
    /\ nextHash = Len(file) + 1
    /\ acked = {}
    /\ landed = 0 /\ counted = 0 /\ raced = FALSE
    /\ crashes = 0 /\ failures = 0 /\ tears = 0

(***************************************************************************)
(* What the writer computes from the file it read under the lock.          *)
(***************************************************************************)

Chained == {"row", "start", "rotation"}

\* readTail: no line of the file belongs to a chain.
Unchained(f) == Indices(f, Chained) = {}

\* A mutant: rows are numbered by how many the file holds.
NextIseqCounting(f) == Cardinality(Indices(f, {"row"})) + 1

\* readTail: the next row follows the last line that parses, by number, and the
\* last line of any kind, by hash.
NextIseq(f) == f[Latest(Indices(f, Chained))].iseq + 1
Prev(f) == f[Len(f)].hash

\* Two mutants of rotate: without a marker, and with a marker that counts what
\* this rotation alone dropped.
RotatedUnmarked(f, hash) ==
    IF Len(f) > Target THEN SubSeq(f, Len(f) - Target + 1, Len(f)) ELSE f

RotatedForgetful(f, hash) ==
    LET body == IF f[1].kind = "rotation" THEN Tail(f) ELSE f
        cut == IF Len(body) > Target THEN Len(body) - Target ELSE 0
        rows == Indices(SubSeq(body, 1, cut), {"row"})
    IN  <<[Plain("rotation", hash) EXCEPT
            !.dropped = Cardinality(rows),
            !.iseq = IF rows = {} THEN f[1].iseq ELSE body[Latest(rows)].iseq,
            !.prev = IF cut = 0 THEN f[1].prev ELSE body[cut].hash]>>
        \o SubSeq(body, cut + 1, Len(body))

\* rotate: the newest Target lines, behind one marker that accounts for every
\* line ever dropped and re-anchors the chain to the last of them.
Rotated(f, hash) ==
    LET prior == IF f[1].kind = "rotation" THEN f[1] ELSE Plain("rotation", 0)
        body == IF f[1].kind = "rotation" THEN Tail(f) ELSE f
        cut == IF Len(body) > Target THEN Len(body) - Target ELSE 0
        gone == SubSeq(body, 1, cut)
        rows == Indices(gone, {"row"})
        starts == Indices(gone, {"start"})
        legacy == {i \in Indices(gone, {"legacy", "garbage"}) :
                    \A s \in starts : i < s}
        marker ==
          [prior EXCEPT
            !.hash = hash,
            !.dropped = @ + Cardinality(rows),
            !.droppedLegacy = @ + Cardinality(legacy),
            !.iseq = IF rows = {} THEN @ ELSE gone[Latest(rows)].iseq,
            !.prev = IF gone = <<>> THEN @ ELSE gone[cut].hash]
    IN  <<marker>> \o SubSeq(body, cut + 1, Len(body))

\* appendFileSync of a line: after a line without a newline it lands on that
\* line, which then is no JSON.
Glue(line) ==
    IF torn THEN [file EXCEPT ![Len(file)] = Plain("garbage", line.hash)]
            ELSE Append(file, line)

(***************************************************************************)
(* appendChained, one file operation at a time.                            *)
(***************************************************************************)
Goto(w, place) == pc' = [pc EXCEPT ![w] = place]

\* A mutant: appends are not serialised.
AcquireUnlocked(w) ==
    /\ pc[w] = "idle"
    /\ nextHash + 2 <= MaxHash
    /\ lock' = w
    /\ Goto(w, "locked")
    /\ UNCHANGED <<ledger, failed, stamped, nextHash, history>>

\* withFileLockSync grants the lock and the file is read.
Acquire(w) ==
    /\ pc[w] = "idle"
    /\ lock = Nobody
    /\ nextHash + 2 <= MaxHash
    /\ lock' = w
    /\ Goto(w, "locked")
    /\ UNCHANGED <<ledger, failed, stamped, nextHash, history>>

\* skipIf declines: nothing is written.
Skip(w) ==
    /\ pc[w] = "locked"
    /\ lock' = Nobody
    /\ Goto(w, "idle")
    /\ UNCHANGED <<ledger, failed, stamped, nextHash, history>>

\* Over the cap: the file is rewritten, whole, by a rename.
Rotate(w) ==
    /\ pc[w] = "locked"
    /\ Len(file) > Cap
    /\ file' = Rotated(file, nextHash)
    /\ torn' = FALSE
    /\ nextHash' = nextHash + 1
    /\ Goto(w, "ready")
    /\ UNCHANGED <<head, failed, lock, stamped, history>>

WithinCap(w) ==
    /\ pc[w] = "locked"
    /\ Len(file) <= Cap
    /\ Goto(w, "ready")
    /\ UNCHANGED <<ledger, failed, lock, stamped, nextHash, history>>

\* A file without a chain whose last line has no newline: it is given one.
Terminate(w) ==
    /\ pc[w] = "ready"
    /\ Unchained(file)
    /\ torn
    /\ torn' = FALSE
    /\ UNCHANGED <<file, head, failed, lock, pc, stamped, nextHash, history>>

\* A file without a chain gets the marker that commits to what precedes it.
StartMarker ==
    [Plain("start", nextHash) EXCEPT
        !.covers = [i \in DOMAIN file |-> file[i].hash]]

AppendStart(w) ==
    /\ pc[w] = "ready"
    /\ Unchained(file)
    /\ ~torn
    /\ file' = Append(file, StartMarker)
    /\ nextHash' = nextHash + 1
    /\ Goto(w, "started")
    /\ UNCHANGED <<torn, head, failed, lock, stamped, history>>

\* A mutant: the counter is removed as soon as it is read.
StampClearing(w) ==
    /\ pc[w] \in {"ready", "started"}
    /\ ~Unchained(file)
    /\ stamped' = [stamped EXCEPT ![w] =
         [Plain("row", nextHash) EXCEPT
            !.iseq = NextIseq(file), !.prev = Prev(file), !.sealed = failed]]
    /\ nextHash' = nextHash + 1
    /\ failed' = 0
    /\ Goto(w, "stamped")
    /\ UNCHANGED <<ledger, lock, history>>

\* The failure counter is read and the row is stamped.
Stamp(w) ==
    /\ pc[w] \in {"ready", "started"}
    /\ ~Unchained(file)
    /\ stamped' = [stamped EXCEPT ![w] =
         [Plain("row", nextHash) EXCEPT
            !.iseq = NextIseq(file), !.prev = Prev(file), !.sealed = failed]]
    /\ nextHash' = nextHash + 1
    /\ Goto(w, "stamped")
    /\ UNCHANGED <<ledger, failed, lock, history>>

AppendRow(w) ==
    /\ pc[w] = "stamped"
    /\ file' = Glue(stamped[w])
    /\ torn' = FALSE
    /\ landed' = landed + 1
    /\ Goto(w, "appended")
    /\ UNCHANGED <<head, failed, lock, stamped, nextHash,
                   acked, counted, raced, crashes, failures, tears>>

\* The head sidecar is replaced by a rename.
WriteHead(w) ==
    /\ pc[w] = "appended"
    /\ head' = [iseq |-> stamped[w].iseq, hash |-> stamped[w].hash]
    /\ Goto(w, "headed")
    /\ UNCHANGED <<file, torn, failed, lock, stamped, nextHash, history>>

\* The counter that was sealed into the row is removed, the lock released, and
\* the caller told that the row is written.
Finish(w) ==
    /\ pc[w] = "headed"
    /\ failed' = IF stamped[w].sealed > 0 THEN 0 ELSE failed
    /\ lock' = Nobody
    /\ acked' = acked \cup
         {[iseq |-> stamped[w].iseq, hash |-> stamped[w].hash]}
    /\ Goto(w, "idle")
    /\ UNCHANGED <<ledger, stamped, nextHash,
                   landed, counted, raced, crashes, failures, tears>>

(***************************************************************************)
(* What goes wrong.                                                        *)
(***************************************************************************)

\* The line a writer is about to append, if that is what it does next.
Appending(w) ==
    CASE pc[w] = "stamped" -> {stamped[w]}
      [] pc[w] = "ready" /\ Unchained(file) /\ ~torn -> {StartMarker}
      [] OTHER -> {}

\* The operation under way has no effect; or, when it appends a line, part of
\* the line reaches the file, or all of it but its newline.
Interrupted(w) ==
    \/ UNCHANGED <<file, torn, nextHash, tears>>
    \/ /\ tears < MaxTears
       /\ \E line \in Appending(w) :
            file' \in {Glue(line), Glue(Plain("garbage", line.hash))}
       /\ torn' = TRUE
       /\ tears' = tears + 1
       /\ nextHash' = nextHash + 1

\* A file operation throws: the lock is released and the error rethrown.
Fail(w) ==
    /\ failures < MaxFailures
    /\ lock = w
    /\ Interrupted(w)
    /\ failures' = failures + 1
    /\ lock' = Nobody
    /\ Goto(w, "failing")
    /\ UNCHANGED <<head, failed, stamped, acked, landed, counted, raced, crashes>>

\* The directory cannot be made, or the lock is not granted within its timeout:
\* that throws too.
Refused(w) ==
    /\ failures < MaxFailures
    /\ pc[w] = "idle"
    /\ failures' = failures + 1
    /\ Goto(w, "failing")
    /\ UNCHANGED <<ledger, failed, lock, stamped, nextHash,
                   acked, landed, counted, raced, crashes, tears>>

\* recordWriteFailure, outside the lock: one more line in the sidecar, unless
\* that cannot be written either.
RecordWriteFailure(w) ==
    /\ pc[w] = "failing"
    /\ \/ /\ failed' = failed + 1
          /\ counted' = counted + 1
          /\ raced' = (raced \/ \E v \in Writer :
                            pc[v] \in {"stamped", "appended", "headed"})
       \/ UNCHANGED <<failed, counted, raced>>
    /\ Goto(w, "idle")
    /\ UNCHANGED <<ledger, lock, stamped, nextHash,
                   acked, landed, crashes, failures, tears>>

\* The process is killed.  Its lock file is removed once it is stale.
Crash(w) ==
    /\ crashes < MaxCrashes
    /\ pc[w] # "idle"
    /\ Interrupted(w)
    /\ crashes' = crashes + 1
    /\ lock' = IF lock = w THEN Nobody ELSE lock
    /\ Goto(w, "idle")
    /\ UNCHANGED <<head, failed, stamped, acked, landed, counted, raced, failures>>

Next ==
    \E w \in Writer :
        \/ Acquire(w) \/ Skip(w) \/ Rotate(w) \/ WithinCap(w)
        \/ Terminate(w) \/ AppendStart(w) \/ Stamp(w)
        \/ AppendRow(w) \/ WriteHead(w) \/ Finish(w)
        \/ Fail(w) \/ Refused(w) \/ RecordWriteFailure(w) \/ Crash(w)

Spec == Init /\ [][Next]_vars

(***************************************************************************)
(* verifyLedgerChain, over the file f and the head sidecar h.              *)
(***************************************************************************)
Opens(f, i) == f[i].kind = "start" \/ (i = 1 /\ f[i].kind = "rotation")
InChain(f, i) == \E j \in 1..i : Opens(f, j)

\* The line the reader expects line i to follow, and the hash and the number it
\* derives from it: a rotation marker stands for the last line it dropped.
Anchor(f, i) == f[Latest({j \in 1..(i - 1) : f[j].kind = "row" \/ Opens(f, j)})]
ExpectedPrev(f, i) ==
    LET a == Anchor(f, i) IN IF a.kind = "rotation" THEN a.prev ELSE a.hash
ExpectedIseq(f, i) == Anchor(f, i).iseq + 1

\* "sequence" stands for gap, duplicate and order.
Breaks(f) ==
    LET lines(kind) == {i \in DOMAIN f : f[i].kind = kind /\ InChain(f, i)}
        misplaced == {i \in DOMAIN f : \E j \in 1..(i - 1) :
                        f[i].kind = "rotation"
                        \/ (f[i].kind = "start" /\ f[j].kind = "start")}
    IN  {<<"malformed-marker", i>> : i \in misplaced}
        \cup {<<"malformed-row", i>> : i \in lines("garbage")}
        \cup {<<"unchained", i>> : i \in lines("legacy")}
        \cup {<<"hash", i>> :
                i \in {j \in lines("row") : f[j].prev # ExpectedPrev(f, j)}}
        \cup {<<"sequence", i>> :
                i \in {j \in lines("row") : f[j].iseq # ExpectedIseq(f, j)}}

\* The chain-start marker commits to the lines before it, unless a rotation
\* dropped some of them.
PrefixMismatch(f) ==
    \E i \in Indices(f, {"start"}) :
        /\ ~(f[1].kind = "rotation" /\ f[1].droppedLegacy > 0)
        /\ f[i].covers # [j \in 1..(i - 1) |-> f[j].hash]

HeadState(f, h) ==
    LET rows == {i \in DOMAIN f : f[i].kind = "row" /\ InChain(f, i)}
        last == f[Latest(rows)]
    IN  CASE ~\E i \in DOMAIN f : InChain(f, i) -> "n/a"
          [] OTHER ->
             CASE h = NoHead -> "missing"
               [] h # NoHead /\ rows = {} -> "truncated"
               [] h # NoHead /\ rows # {} ->
                  IF h.iseq > last.iseq THEN "truncated"
                  ELSE IF h.iseq < last.iseq THEN "stale"
                  ELSE IF h.hash # last.hash THEN "mismatch" ELSE "ok"

\* A mutant: the head sidecar is not consulted.
VerifiedInside(f, h) == Breaks(f) = {} /\ ~PrefixMismatch(f)

\* ChainVerification.ok.
Verified(f, h) ==
    /\ Breaks(f) = {}
    /\ ~PrefixMismatch(f)
    /\ HeadState(f, h) \notin {"missing", "truncated", "mismatch"}

(***************************************************************************)
(* Properties                                                              *)
(***************************************************************************)

TypeOK ==
    /\ file \in Seq(Line)
    /\ torn \in BOOLEAN
    /\ head \in [iseq : Nat, hash : Nat]
    /\ failed \in Nat
    /\ lock \in Writer \cup {Nobody}
    /\ pc \in [Writer -> Places]
    /\ stamped \in [Writer -> Line]
    /\ nextHash \in Nat
    /\ acked \subseteq [iseq : Nat, hash : Nat]
    /\ {landed, counted, crashes, failures, tears} \subseteq Nat
    /\ raced \in BOOLEAN

\* A rotation kept part of the legacy prefix behind its marker.
LegacySplit(f) == f # <<>> /\ f[1].kind = "rotation" /\ Indices(f, {"legacy"}) # {}

\* Whatever writers are killed or fail between two operations, and however often
\* the file is rotated, the reader finds no break, at any moment.  Only a head
\* sidecar that was never written can be missing.
ChainVerifies ==
    tears = 0 /\ ~LegacySplit(file) =>
        /\ Breaks(file) = {}
        /\ ~PrefixMismatch(file)
        /\ HeadState(file, head) \notin {"truncated", "mismatch"}

\* "v.chainedRows + v.droppedByRotation" is the number of rows ever written:
\* rotations account for every row they drop, and iseq counts no row twice.
RowsAccounted ==
    tears = 0 /\ file # <<>> =>
        LET dropped == IF file[1].kind = "rotation" THEN file[1].dropped ELSE 0
            rows == Indices(file, {"row"})
        IN  /\ Cardinality(rows) + dropped = landed
            /\ rows # {} => file[Latest(rows)].iseq = landed

Kept(row) ==
    \/ \E i \in Indices(file, {"row"}) : file[i].hash = row.hash
    \/ file # <<>> /\ file[1].kind = "rotation" /\ row.iseq <= file[1].iseq

\* A row whose append returned normally is a line every reader can parse, until
\* a rotation drops it, if no writer ever left half a line.
AckedRowsKept == tears = 0 => \A row \in acked : Kept(row)

\* The head sidecar only moves to later rows: what a reader finds stale or
\* truncated is so against the last row any append completed.
HeadAdvances == [][tears = 0 => head' = head \/ head'.iseq > head.iseq]_vars

\* ledgerChain.ts:44-48: nobody can change one row and leave the rest standing,
\* or shorten the file, unnoticed.  Rows only, and while the head is current.
Without(f, i) == SubSeq(f, 1, i - 1) \o SubSeq(f, i + 1, Len(f))
RowChangeNoticed ==
    HeadState(file, head) = "ok" =>
        \A i \in {j \in Indices(file, {"row"}) : InChain(file, j)} :
            /\ ~Verified(Without(file, i), head)
            /\ ~Verified([file EXCEPT ![i].hash = nextHash], head)

\* approvalPersistence.ts:372-375: a writer killed in the middle of an append
\* leaves a torn line that readers skip; the rows written after it are kept.
TornLineIsSkipped == \A row \in acked : Kept(row)

\* ledgerChain.ts:37-42: a failure is counted, the next row seals the count, and
\* until then it is pending: no counted failure is neither sealed nor pending.
\* Not so for a failure recorded, outside the lock, between the stamp of a row
\* that seals earlier ones and the removal of the counter (raced).
Sealed ==
    LET upTo[i \in 0..Len(file)] ==
            IF i = 0 THEN 0 ELSE upTo[i - 1] + file[i].sealed
    IN  upTo[Len(file)]
FailuresSealedOrPending ==
    tears = 0 /\ ~raced /\ Indices(file, {"rotation"}) = {} =>
        Sealed + failed >= counted

\* docs/adr/0027-tamper-evident-ledgers.md:73-76: after a rotation has dropped
\* legacy rows the prefix is reported unverifiable, "rather than reporting it
\* verified or broken": a rotation alone never makes the reader find a break.
RotatedPrefixNotBroken ==
    file # <<>> /\ file[1].kind = "rotation" => Breaks(file) = {}
=============================================================================
