-------------------------- MODULE LedgerChainProofs --------------------------
(***************************************************************************)
(* Theorems about LedgerChain: what a file that any number of writers      *)
(* append to, and rotate, contains whatever writer dies or fails in        *)
(* between, and what its reader finds.                                     *)
(*                                                                         *)
(* There are two inductive invariants.  Inv holds of every file, also of   *)
(* one with torn lines: markers are where a chain needs them and each row  *)
(* counts one more than what it follows.  That is all RowChangeNoticed     *)
(* needs.  UntornInv says, of a file that nobody tore, what is in each     *)
(* line: the rows up to the last one written, behind what accounts for the *)
(* rest.  ChainVerifies, RowsAccounted, AckedRowsKept and HeadAdvances     *)
(* follow from it.  SealsInv, beside both, is about the failure counter.   *)
(*                                                                         *)
(* Where an induction over lines is needed, it is an argument about the    *)
(* least or the greatest of a set of them (Least, Greatest).               *)
(***************************************************************************)
EXTENDS LedgerChain, FiniteSetTheorems, SequenceTheorems,
        WellFoundedInduction, TLAPS

(***************************************************************************)
(* Lemmas about numbers and sequences.                                     *)
(***************************************************************************)

\* A set of numbers up to n that is not empty has a greatest element.
LEMMA Greatest ==
    ASSUME NEW n \in Nat, NEW S \in SUBSET (1..n), S # {}
    PROVE  \E i \in S : \A j \in S : j <= i
<1> DEFINE above(i) == S \cap (i..n)
           T == {above(i) : i \in S}
<1>1. IsFiniteSet(1..n)
  BY FS_Interval
<1>2. FiniteSubsetsOf(1..n) = SUBSET (1..n)
  BY <1>1, FS_FiniteSubsetsOfFinite
<1>3. IsWellFoundedOn(StrictSubsetOrdering(1..n), SUBSET (1..n))
  BY <1>2, FS_StrictSubsetOrderingWellFounded
<1>4. T \subseteq SUBSET (1..n) /\ T # {}
  OBVIOUS
<1>5. PICK x \in T : \A y \in T : <<y, x>> \notin StrictSubsetOrdering(1..n)
  <2> HIDE DEF T
  <2> QED  BY <1>3, <1>4, WFMin
<1>6. PICK i \in S : x = above(i)
  BY <1>5
<1>7. ASSUME NEW j \in S, j > i  PROVE FALSE
  <2>1. above(j) \in T /\ above(j) \in SUBSET (1..n) /\ x \in SUBSET (1..n)
    BY <1>6
  <2>2. above(j) \subseteq x /\ above(j) # x
    BY <1>6, <1>7
  <2>3. <<above(j), x>> \in StrictSubsetOrdering(1..n)
    BY <2>1, <2>2 DEF StrictSubsetOrdering
  <2> QED  BY <1>5, <2>1, <2>3
<1> QED  BY <1>7

LEMMA LatestIsGreatest ==
    ASSUME NEW n \in Nat, NEW S \in SUBSET (1..n), S # {}
    PROVE  Latest(S) \in S /\ \A j \in S : j <= Latest(S)
BY Greatest DEF Latest

\* Latest is determined by what it is.
LEMMA LatestUnique ==
    ASSUME NEW n \in Nat, NEW S \in SUBSET (1..n),
           NEW i \in S, \A j \in S : j <= i
    PROVE  Latest(S) = i
<1>1. S # {} /\ S \subseteq Nat
  OBVIOUS
<1>2. Latest(S) \in S /\ i <= Latest(S)
  BY <1>1, LatestIsGreatest
<1>3. Latest(S) <= i
  BY <1>2
<1>4. i \in Nat /\ Latest(S) \in Nat
  BY <1>1, <1>2
<1> QED
  <2> HIDE DEF Latest
  <2> QED  BY <1>2, <1>3, <1>4

LEMMA Least ==
    ASSUME NEW n \in Nat, NEW S \in SUBSET (1..n), S # {}
    PROVE  \E i \in S : \A j \in S : i <= j
<1> DEFINE T == {n + 1 - i : i \in S}
<1>1. T \in SUBSET (1..n) /\ T # {}
  <2>1. \A i \in S : i \in 1..n /\ n + 1 - i \in 1..n
    OBVIOUS
  <2> QED  BY <2>1
<1>2. PICK k \in T : \A j \in T : j <= k
  <2> HIDE DEF T
  <2> QED  BY <1>1, Greatest
<1>3. PICK i \in S : k = n + 1 - i
  BY <1>2
<1>4. \A j \in S : n + 1 - j <= k
  BY <1>2
<1> QED  BY <1>3, <1>4

(***************************************************************************)
(* What holds of the file whatever was torn.                               *)
(***************************************************************************)

Inside == {"locked", "ready", "started", "stamped", "appended", "headed"}

\* A writer is inside withFileLockSync exactly when it has the lock.
Exclusive == \A w \in Writer : lock = w <=> pc[w] \in Inside

\* Line m is the last line of a chain before line i.
Precedes(f, m, i) ==
    /\ f[m].kind \in Chained
    /\ \A k \in (m + 1)..(i - 1) : f[k].kind \notin Chained

\* A rotation marker is the first line; a chain-start marker is before every row.
Rotations(f) == \A i \in DOMAIN f : f[i].kind = "rotation" => i = 1

Starts(f) ==
    \A i \in DOMAIN f : f[i].kind = "start" =>
        /\ f[i].iseq = 0
        /\ \A j \in 1..(i - 1) : f[j].kind # "row"
        /\ f[1].kind = "rotation" => f[1].iseq = 0

\* A row counts one more than the line of a chain before it.
Numbered(f) ==
    \A i \in DOMAIN f : f[i].kind = "row" =>
        \E m \in 1..(i - 1) : Precedes(f, m, i) /\ f[i].iseq = f[m].iseq + 1

Sound(f) == Rotations(f) /\ Starts(f) /\ Numbered(f)

Chain == Sound(file) /\ (torn => file # <<>>)

\* The next line gets a hash that no line has or follows.
HashesBelow(f, n) == \A i \in DOMAIN f : f[i].hash < n /\ f[i].prev < n

Hashes ==
    /\ HashesBelow(file, nextHash)
    /\ \A w \in Writer : stamped[w].hash < nextHash /\ stamped[w].prev < nextHash

\* A line that may come next.
Fits(f, line) ==
    \/ line.kind = "garbage"
    \/ line.kind = "start" /\ line.iseq = 0 /\ Unchained(f)
    \/ /\ line.kind = "row"
       /\ \E m \in DOMAIN f :
            Precedes(f, m, Len(f) + 1) /\ line.iseq = f[m].iseq + 1

\* The row about to be appended counts one more than the last line of a chain.
Stamps ==
    \A w \in Writer :
        /\ stamped[w].kind = "row"
        /\ pc[w] = "stamped" => Fits(file, stamped[w])

Inv == TypeOK /\ Exclusive /\ Chain /\ Hashes /\ Stamps

(***************************************************************************)
(* What holds of it while no line was torn.                                *)
(***************************************************************************)

\* The number of the last row that rotations dropped.
Base(f) == IF f[1].kind = "rotation" THEN f[1].iseq ELSE 0

\* The lines after line b are the rows, and the last of them has number n.
RowsFrom(f, b, n) ==
    /\ \A i \in DOMAIN f : f[i].kind = "row" <=> i > b
    /\ n = Base(f) + Len(f) - b

\* Each row is numbered back from n and names the hash of what it follows.
RowAt(f, i, n) ==
    /\ f[i].iseq = n - (Len(f) - i)
    /\ f[i].prev = IF i = 2 /\ f[1].kind = "rotation" THEN f[1].prev
                                                      ELSE f[i - 1].hash

\* Rows follow the chain-start marker, which commits to what it follows.
StartAt(f, i) ==
    /\ \A j \in (i + 1)..Len(f) : f[j].kind = "row"
    /\ IF f[1].kind = "rotation"
       THEN f[1].droppedLegacy > 0
       ELSE f[i].covers = [j \in 1..(i - 1) |-> f[j].hash]

\* A file after n rows, none of them torn.
Whole(f, n) ==
    /\ f = <<>> => n = 0
    /\ f # <<>> => \E b \in DOMAIN f : RowsFrom(f, b, n)
    /\ n > 0 => f # <<>> /\ f[Len(f)].kind = "row"
    /\ \A i \in DOMAIN f :
        /\ f[i].kind # "garbage"
        /\ f[i].kind = "row" => RowAt(f, i, n)
        /\ f[i].kind = "start" => StartAt(f, i)
        /\ f[i].kind = "rotation" => Len(f) > 1 /\ f[1].dropped = f[1].iseq

\* The head sidecar is of some row, and of the last only with its hash.
HeadOf(f, n, h) ==
    h = NoHead \/ /\ h.iseq \in 1..n
                  /\ h.iseq = n => h.hash = f[Len(f)].hash

\* Row r was dropped or is where its number says.
RowKept(f, n, r) ==
    /\ r.iseq \in 1..n
    /\ r.iseq > Base(f) =>
         LET i == Len(f) - (n - r.iseq) IN
         i \in DOMAIN f /\ f[i].kind = "row" /\ f[i].hash = r.hash

\* The row of a writer between its stamp and its return is the next or the last.
AtWork(w) ==
    /\ pc[w] = "stamped" =>
         stamped[w].iseq = landed + 1 /\ stamped[w].prev = Prev(file)
    /\ pc[w] \in {"appended", "headed"} =>
         landed > 0 /\ stamped[w].iseq = landed /\ file[Len(file)] = stamped[w]
    /\ pc[w] = "appended" => head.iseq < landed
    /\ pc[w] = "headed" => head = [iseq |-> landed, hash |-> stamped[w].hash]

Untorn ==
    /\ torn => \A i \in DOMAIN file : file[i].kind = "legacy"
    /\ Whole(file, landed)
    /\ HeadOf(file, landed, head)
    /\ \A r \in acked : RowKept(file, landed, r)
    /\ \A w \in Writer : AtWork(w)

UntornInv == tears = 0 => Untorn

(***************************************************************************)
(* What a rotation leaves.                                                 *)
(***************************************************************************)

\* How many lines of f a rotation drops, its old marker among them.
Gone(f) == Len(f) - Target

\* The marker that stands for the lines of f up to line e.
PriorOf(f) == IF f[1].kind = "rotation" THEN f[1] ELSE Plain("rotation", 0)

LEMMA PlainTyped ==
    ASSUME NEW k \in Kinds, NEW h \in Nat
    PROVE  /\ Plain(k, h) \in Line
           /\ Plain(k, h).kind = k /\ Plain(k, h).hash = h
           /\ Plain(k, h).iseq = 0 /\ Plain(k, h).prev = 0
           /\ Plain(k, h).dropped = 0
BY DEF Plain, Line

LEMMA RotatedLines ==
    ASSUME NEW f \in Seq(Line), NEW h \in Nat, Len(f) > Target
    PROVE  LET g == Rotated(f, h)
               e == Gone(f)
               p == PriorOf(f)
           IN  /\ g \in Seq(Line)
               /\ Len(g) = Target + 1 /\ e \in Nat /\ e \in 1..(Len(f) - 1)
               /\ \A k \in 2..Len(g) : k + e - 1 \in DOMAIN f /\ g[k] = f[k + e - 1]
               /\ g[1].kind = "rotation" /\ g[1].hash = h
               /\ g[1].prev = IF e = 1 /\ f[1].kind = "rotation" THEN f[1].prev
                                                                ELSE f[e].hash
               /\ (\A i \in 1..e : f[i].kind # "row") =>
                    g[1].iseq = p.iseq /\ g[1].dropped = p.dropped
               /\ \A m \in 1..e :
                    f[m].kind = "row" /\ (\A i \in (m + 1)..e : f[i].kind # "row")
                      => g[1].iseq = f[m].iseq
               /\ \A b \in 1..e :
                    (\A i \in 1..e : f[i].kind = "row" <=> i > b)
                      => g[1].dropped = p.dropped + (e - b)
               /\ g[1].droppedLegacy >= p.droppedLegacy
               /\ f[1].kind # "rotation" /\ (\A i \in 1..e : f[i].kind = "legacy")
                    => g[1].droppedLegacy > 0
<1> DEFINE g == Rotated(f, h)
           e == Gone(f)
           o == IF f[1].kind = "rotation" THEN 1 ELSE 0
           prior == PriorOf(f)
           body == IF f[1].kind = "rotation" THEN Tail(f) ELSE f
           cut == IF Len(body) > Target THEN Len(body) - Target ELSE 0
           gone == SubSeq(body, 1, cut)
           rows == Indices(gone, {"row"})
           starts == Indices(gone, {"start"})
           legacy == {i \in Indices(gone, {"legacy", "garbage"}) :
                        \A s \in starts : i < s}
           count == prior.dropped + Cardinality(rows)
           countLegacy == prior.droppedLegacy + Cardinality(legacy)
           number == IF rows = {} THEN prior.iseq ELSE gone[Latest(rows)].iseq
           last == IF gone = <<>> THEN prior.prev ELSE gone[cut].hash
           rest == SubSeq(body, cut + 1, Len(body))
           marker == [prior EXCEPT !.hash = h, !.dropped = count,
                        !.droppedLegacy = countLegacy, !.iseq = number,
                        !.prev = last]
<1>0. Target \in Nat /\ Target >= 1
  BY LedgerAssumption
<1>1. /\ Len(f) \in Nat /\ f # <<>> /\ DOMAIN f = 1..Len(f)
      /\ \A i \in 1..Len(f) : f[i] \in Line
  BY <1>0, LenProperties, ElementOfSeq, EmptySeq
<1>2. g = <<marker>> \o rest
  BY DEF Rotated, PriorOf
<1>3. o \in {0, 1} /\ e \in Nat /\ e \in 1..(Len(f) - 1)
  BY <1>0, <1>1 DEF Gone
<1>4. /\ body \in Seq(Line) /\ Len(body) = Len(f) - o
      /\ \A i \in 1..Len(body) : body[i] = f[i + o]
  <2>1. CASE f[1].kind = "rotation"
    <3>1. Tail(f) \in Seq(Line) /\ Len(Tail(f)) = Len(f) - 1
      BY <1>1, HeadTailProperties
    <3>2. Tail(f) = SubSeq(f, 2, Len(f))
      BY <1>1, TailIsSubSeq
    <3>3. \A i \in 1..(Len(f) - 1) : SubSeq(f, 2, Len(f))[i] = f[2 + i - 1]
      BY <1>1, SubSeqProperties
    <3> QED  BY <1>1, <2>1, <3>1, <3>2, <3>3
  <2>2. CASE f[1].kind # "rotation"
    BY <1>1, <2>2
  <2> QED  BY <2>1, <2>2
<1> HIDE DEF body
<1>5. cut = e - o /\ cut \in Nat /\ Len(body) \in Nat /\ cut + 1 <= Len(body)
  <2>1. e = Len(f) - Target
    BY DEF Gone
  <2> HIDE DEF o, e
  <2>2. Len(body) \in Nat /\ Len(body) = e + Target - o /\ e >= 1
    BY <1>0, <1>1, <1>3, <1>4, <2>1
  <2>3. Len(body) - Target = e - o /\ e - o \in Nat
    BY <1>0, <1>3, <2>2
  <2>4. cut = e - o
    BY <1>0, <1>3, <2>2, <2>3
  <2> HIDE DEF cut
  <2> QED  BY <1>0, <1>3, <2>2, <2>3, <2>4
<1> HIDE DEF cut
<1>6. /\ gone \in Seq(Line) /\ Len(gone) = cut /\ DOMAIN gone = 1..cut
      /\ \A i \in 1..cut : gone[i] = f[i + o]
  <2>1. \A i \in 1..Len(body) : body[i] \in Line
    BY <1>4, ElementOfSeq
  <2>2. /\ gone \in Seq(Line) /\ Len(gone) = IF 1 <= cut THEN cut - 1 + 1 ELSE 0
        /\ \A i \in 1..(cut - 1 + 1) : gone[i] = body[1 + i - 1]
    <3>1. \A i \in 1..cut : body[i] \in Line
      BY <1>5, <2>1
    <3> QED  BY <1>5, <3>1, SubSeqProperties
  <2>3. DOMAIN gone = 1..Len(gone)
    BY <2>2, LenProperties
  <2>4. \A i \in 1..cut : gone[i] = body[i] /\ i \in 1..Len(body)
    BY <2>2, <1>5
  <2>5. Len(gone) = cut
    BY <2>2, <1>5
  <2> HIDE DEF gone
  <2> QED  BY <2>2, <2>3, <2>4, <2>5, <1>4
<1> HIDE DEF gone, g, e, o
<1>7. /\ rest \in Seq(Line)
      /\ Len(rest) = Target
      /\ \A i \in 1..Target : rest[i] = f[i + e]
  <2>1. \A i \in 1..Len(body) : body[i] \in Line
    BY <1>4, ElementOfSeq
  <2>2. \A i \in (cut + 1)..Len(body) : body[i] \in Line
    BY <1>5, <2>1
  <2>3. Len(body) - (cut + 1) + 1 = Target
    BY <1>0, <1>1, <1>3, <1>4, <1>5 DEF e, Gone
  <2>4. /\ rest \in Seq(Line)
        /\ Len(rest) =
              IF cut + 1 <= Len(body) THEN Len(body) - (cut + 1) + 1 ELSE 0
        /\ \A i \in 1..(Len(body) - (cut + 1) + 1) :
              rest[i] = body[cut + 1 + i - 1]
    BY <1>5, <2>2, SubSeqProperties
  <2>5. \A i \in 1..Target : cut + 1 + i - 1 \in 1..Len(body) /\ cut + 1 + i - 1 + o = i + e
    BY <1>0, <1>3, <1>5, <2>3
  <2>6. \A i \in 1..Target : rest[i] = body[cut + 1 + i - 1]
    BY <2>3, <2>4
  <2>7. \A i \in 1..Target : body[cut + 1 + i - 1] = f[i + e]
    BY <2>5, <1>4
  <2>8. rest \in Seq(Line) /\ Len(rest) = Target
    BY <2>3, <2>4, <1>5
  <2> HIDE DEF rest
  <2> QED  BY <2>6, <2>7, <2>8
<1> HIDE DEF rest
<1>8. /\ prior \in Line /\ prior.kind = "rotation"
      /\ f[1].kind = "rotation" => prior = f[1]
  BY <1>1, PlainTyped DEF PriorOf, Kinds
<1>9. prior = PriorOf(f)
  OBVIOUS
<1> HIDE DEF prior
<1>10. /\ rows \in SUBSET (1..cut) /\ legacy \in SUBSET (1..cut)
       /\ IsFiniteSet(rows) /\ IsFiniteSet(legacy)
       /\ Cardinality(rows) \in Nat /\ Cardinality(legacy) \in Nat
  <2>1. rows \in SUBSET (1..cut) /\ legacy \in SUBSET (1..cut)
    BY <1>6 DEF Indices
  <2>2. IsFiniteSet(1..cut)
    BY <1>5, FS_Interval
  <2> HIDE DEF rows, legacy
  <2> QED  BY <2>1, <2>2, FS_Subset, FS_CardinalityType
<1>11. /\ \A i \in 1..cut : i \in rows <=> f[i + o].kind = "row"
       /\ \A i \in 1..cut : i \in starts <=> f[i + o].kind = "start"
       /\ \A i \in legacy : f[i + o].kind \in {"legacy", "garbage"}
       /\ (\A i \in 1..cut : f[i + o].kind = "legacy") => legacy = 1..cut
  <2>1. \A k \in Kinds : \A i \in 1..cut : i \in Indices(gone, {k}) <=> f[i + o].kind = k
    BY <1>6 DEF Indices
  <2>2. \A i \in 1..cut : i \in Indices(gone, {"legacy", "garbage"}) <=>
            f[i + o].kind \in {"legacy", "garbage"}
    BY <1>6 DEF Indices
  <2>3. starts \subseteq 1..cut /\ Indices(gone, {"legacy", "garbage"}) \subseteq 1..cut
    BY <1>6 DEF Indices
  <2>4. (\A i \in 1..cut : f[i + o].kind = "legacy") =>
            starts = {} /\ Indices(gone, {"legacy", "garbage"}) = 1..cut
    BY <2>1, <2>2, <2>3 DEF Kinds
  <2> QED  BY <2>1, <2>2, <2>3, <2>4 DEF Kinds
<1> HIDE DEF rows, legacy, starts
<1>12. number \in Nat /\ (rows # {} => Latest(rows) \in rows)
  <2>1. rows # {} => Latest(rows) \in rows
    BY <1>5, <1>10, LatestIsGreatest
  <2>2. prior.iseq \in Nat /\ \A i \in 1..cut : gone[i].iseq \in Nat
    <3>1. \A i \in 1..cut : gone[i] \in Line
      BY <1>6, ElementOfSeq
    <3> QED  BY <1>8, <3>1 DEF Line
  <2> QED  BY <1>10, <2>1, <2>2
<1>13. /\ last = IF cut = 0 THEN prior.prev ELSE f[e].hash
       /\ last \in Nat
  <2>1. gone = <<>> <=> cut = 0
    BY <1>5, <1>6, EmptySeq
  <2>2. cut # 0 => gone[cut] = f[cut + o] /\ cut + o = e
    BY <1>3, <1>5, <1>6
  <2>3. prior.prev \in Nat /\ f[e].hash \in Nat
    BY <1>1, <1>3, <1>8 DEF Line
  <2> QED  BY <2>1, <2>2, <2>3
<1>14. prior.dropped \in Nat /\ prior.droppedLegacy \in Nat
       /\ count \in Nat /\ countLegacy \in Nat
  <2>1. prior.dropped \in Nat /\ prior.droppedLegacy \in Nat
    BY <1>8 DEF Line
  <2> QED  BY <1>10, <2>1
<1>15. count = prior.dropped + Cardinality(rows)
       /\ countLegacy = prior.droppedLegacy + Cardinality(legacy)
       /\ number = IF rows = {} THEN prior.iseq ELSE gone[Latest(rows)].iseq
  OBVIOUS
<1> HIDE DEF count, countLegacy, number, last
<1>16. /\ marker \in Line
       /\ marker.kind = "rotation" /\ marker.hash = h /\ marker.dropped = count
       /\ marker.droppedLegacy = countLegacy /\ marker.iseq = number
       /\ marker.prev = last
  <2>1. prior \in Line /\ h \in Nat /\ count \in Nat /\ countLegacy \in Nat
        /\ number \in Nat /\ last \in Nat /\ prior.kind = "rotation"
    BY <1>8, <1>12, <1>13, <1>14
  <2>2. /\ marker \in Line
        /\ marker.kind = prior.kind /\ marker.hash = h /\ marker.dropped = count
        /\ marker.droppedLegacy = countLegacy /\ marker.iseq = number
        /\ marker.prev = last
    <3>1. marker \in Line
      BY <2>1 DEF Line
    <3> QED  BY <2>1, <3>1 DEF Line
  <2> HIDE DEF marker
  <2> QED  BY <2>1, <2>2
<1> HIDE DEF marker
<1>17. /\ g \in Seq(Line) /\ Len(g) = Target + 1 /\ g[1] = marker
       /\ \A k \in 2..Len(g) : g[k] = f[k - 1 + e] /\ k - 1 + e = k + e - 1
                                /\ k + e - 1 \in DOMAIN f
  <2>1. <<marker>> \in Seq(Line) /\ Len(<<marker>>) = 1 /\ <<marker>>[1] = marker
    BY <1>16
  <2>2. /\ g \in Seq(Line) /\ Len(g) = 1 + Target
        /\ \A k \in 1..(1 + Target) : g[k] = IF k <= 1 THEN <<marker>>[k] ELSE rest[k - 1]
    BY <1>2, <1>7, <2>1, ConcatProperties
  <2>3. e + Target = Len(f)
    BY <1>0, <1>1 DEF e, Gone
  <2>4. \A k \in 2..(1 + Target) : k - 1 \in 1..Target /\ k - 1 + e = k + e - 1
                                  /\ k + e - 1 \in 1..Len(f)
    BY <1>0, <1>1, <1>3, <2>3
  <2>5. \A k \in 2..(1 + Target) : g[k] = f[k - 1 + e]
    BY <2>2, <2>4, <1>7
  <2> QED  BY <1>0, <1>1, <2>1, <2>2, <2>4, <2>5
<1>18. last = IF e = 1 /\ f[1].kind = "rotation" THEN f[1].prev ELSE f[e].hash
  <2>1. cut = 0 <=> e = 1 /\ f[1].kind = "rotation"
    BY <1>3, <1>5 DEF o
  <2> QED  BY <1>8, <1>13, <2>1
<1>19. \A i \in 1..cut : i + o \in 1..e
  BY <1>3, <1>5
<1>20. \A i \in 1..e : f[i].kind = "row" => i - o \in rows
  <2>1. \A i \in 1..e : f[i].kind = "row" => i - o \in 1..cut
    BY <1>3, <1>5 DEF o
  <2>2. \A i \in 1..e : i - o + o = i
    BY <1>3
  <2> QED  BY <1>11, <2>1, <2>2
<1>21. (\A i \in 1..e : f[i].kind # "row") => number = prior.iseq /\ count = prior.dropped
  <2> SUFFICES ASSUME \A i \in 1..e : f[i].kind # "row"
               PROVE  number = prior.iseq /\ count = prior.dropped
    OBVIOUS
  <2>1. rows = {}
    BY <1>10, <1>11, <1>19
  <2>2. Cardinality(rows) = 0
    BY <2>1, FS_EmptySet
  <2> QED  BY <1>14, <1>15, <2>1, <2>2
<1>22. ASSUME NEW m \in 1..e, f[m].kind = "row", \A i \in (m + 1)..e : f[i].kind # "row"
       PROVE  number = f[m].iseq
  <2>1. m - o \in rows
    BY <1>20, <1>22
  <2>2. \A i \in rows : i <= m - o
    <3> SUFFICES ASSUME NEW i \in rows  PROVE i <= m - o
      OBVIOUS
    <3>1. i \in 1..cut /\ f[i + o].kind = "row" /\ i + o \in 1..e
      BY <1>10, <1>11, <1>19
    <3>2. ~(i + o \in (m + 1)..e)
      BY <1>22, <3>1
    <3> QED  BY <1>3, <1>5, <3>1, <3>2
  <2>3. Latest(rows) = m - o
    BY <1>5, <1>10, <2>1, <2>2, LatestUnique
  <2>4. m - o \in 1..cut /\ m - o + o = m
    BY <1>3, <1>10, <2>1
  <2> QED  BY <1>6, <1>15, <2>1, <2>3, <2>4
<1>23. ASSUME NEW b \in 1..e, \A i \in 1..e : f[i].kind = "row" <=> i > b
       PROVE  count = prior.dropped + (e - b)
  <2>1. b - o \in Int /\ cut \in Int /\ b + 1 - o >= 1
    BY <1>3, <1>5
  <2>2. rows = (b + 1 - o)..cut
    <3>1. \A i \in 1..cut : i \in rows <=> i + o > b
      BY <1>11, <1>19, <1>23
    <3>2. \A i \in 1..cut : i + o > b <=> i \in (b + 1 - o)..cut
      BY <1>3, <1>5
    <3>3. (b + 1 - o)..cut \subseteq 1..cut
      BY <1>3, <1>5, <2>1
    <3> QED  BY <1>10, <3>1, <3>2, <3>3
  <2>3. Cardinality((b + 1 - o)..cut) = IF b + 1 - o > cut THEN 0 ELSE cut - (b + 1 - o) + 1
    BY <2>1, <1>3, FS_Interval
  <2>4. Cardinality(rows) = e - b
    BY <1>3, <1>5, <2>2, <2>3
  <2> QED  BY <1>15, <2>4
<1>24. countLegacy >= prior.droppedLegacy
  BY <1>10, <1>14, <1>15
<1>25. f[1].kind # "rotation" /\ (\A i \in 1..e : f[i].kind = "legacy") => countLegacy > 0
  <2> SUFFICES ASSUME f[1].kind # "rotation", \A i \in 1..e : f[i].kind = "legacy"
               PROVE  Cardinality(legacy) > 0
    BY <1>10, <1>14, <1>15
  <2>1. o = 0 /\ cut >= 1
    BY <1>3, <1>5 DEF o
  <2>2. legacy = 1..cut
    BY <1>11, <1>19
  <2>3. Cardinality(1..cut) = IF 1 > cut THEN 0 ELSE cut - 1 + 1
    <3>1. 1 \in Int /\ cut \in Int
      BY <1>5
    <3> QED  BY <3>1, FS_Interval
  <2> QED  BY <1>5, <2>1, <2>2, <2>3
<1> QED
  <2> USE DEF g, e
  <2> HIDE DEF Rotated, Gone
  <2> QED  BY <1>3, <1>9, <1>16, <1>17, <1>18, <1>21, <1>22, <1>23, <1>24, <1>25

LEMMA BaseIsPrior ==
    ASSUME NEW f \in Seq(Line)
    PROVE  PriorOf(f).iseq = Base(f)
BY PlainTyped DEF PriorOf, Base, Kinds

\* A rotation leaves a sound file sound: its marker has the number of the last
\* line of a chain that it dropped.
LEMMA RotatedSound ==
    ASSUME NEW f \in Seq(Line), NEW h \in Nat, Len(f) > Target,
           Sound(f), HashesBelow(f, h)
    PROVE  Sound(Rotated(f, h)) /\ HashesBelow(Rotated(f, h), h + 1)
<1> DEFINE g == Rotated(f, h)
           e == Gone(f)
           p == PriorOf(f)
<1>0. /\ g \in Seq(Line)
      /\ Len(g) = Target + 1 /\ e \in Nat /\ e \in 1..(Len(f) - 1)
      /\ \A k \in 2..Len(g) : k + e - 1 \in DOMAIN f /\ g[k] = f[k + e - 1]
      /\ g[1].kind = "rotation" /\ g[1].hash = h
      /\ g[1].prev = IF e = 1 /\ f[1].kind = "rotation" THEN f[1].prev
                                                       ELSE f[e].hash
      /\ (\A i \in 1..e : f[i].kind # "row") =>
           g[1].iseq = p.iseq /\ g[1].dropped = p.dropped
      /\ \A m \in 1..e :
           f[m].kind = "row" /\ (\A i \in (m + 1)..e : f[i].kind # "row")
             => g[1].iseq = f[m].iseq
  BY RotatedLines
<1> HIDE DEF g, e
<1>1. /\ Len(f) \in Nat /\ DOMAIN f = 1..Len(f) /\ Len(g) \in Nat /\ DOMAIN g = 1..Len(g)
      /\ \A i \in DOMAIN f : f[i] \in Line
      /\ Len(g) > 1 /\ f # <<>>
  BY <1>0, LenProperties, ElementOfSeq, EmptySeq, LedgerAssumption
<1>2. \A i \in DOMAIN g : i = 1 \/ i \in 2..Len(g)
  BY <1>1
<1>3. p.iseq = Base(f)
  BY BaseIsPrior
<1> HIDE DEF p
<1>4. HashesBelow(g, h + 1)
  <2>1. \A i \in DOMAIN f : f[i].hash < h /\ f[i].prev < h /\ f[i].hash \in Nat /\ f[i].prev \in Nat
    BY <1>1 DEF HashesBelow, Line
  <2>2. g[1].hash < h + 1 /\ g[1].prev < h + 1
    <3>1. 1 \in DOMAIN f /\ e \in DOMAIN f
      BY <1>0, <1>1
    <3>2. f[1].prev < h + 1 /\ f[e].hash < h + 1
      BY <2>1, <3>1
    <3> QED  BY <1>0, <3>2
  <2>3. \A i \in 2..Len(g) : g[i].hash < h + 1 /\ g[i].prev < h + 1
    BY <1>0, <2>1
  <2> QED  BY <1>2, <2>2, <2>3 DEF HashesBelow
<1>5. Rotations(g)
  <2>1. \A i \in 2..Len(g) : g[i].kind # "rotation"
    BY <1>0 DEF Sound, Rotations
  <2> QED  BY <1>2, <2>1 DEF Rotations
<1>6. \A i \in 2..Len(g) : g[i].kind = "start" =>
           /\ g[i].iseq = 0 /\ g[1].iseq = 0
           /\ \A j \in 1..(i - 1) : g[j].kind # "row"
  <2> SUFFICES ASSUME NEW i \in 2..Len(g), g[i].kind = "start"
               PROVE  /\ g[i].iseq = 0 /\ g[1].iseq = 0
                      /\ \A j \in 1..(i - 1) : g[j].kind # "row"
    OBVIOUS
  <2>1. /\ f[i + e - 1].iseq = 0 /\ g[i] = f[i + e - 1]
        /\ \A j \in 1..(i + e - 2) : f[j].kind # "row"
        /\ f[1].kind = "rotation" => f[1].iseq = 0
    <3> DEFINE y == i + e - 1
    <3>1. y \in DOMAIN f /\ f[y].kind = "start" /\ g[i] = f[y]
      BY <1>0
    <3>2. \A x \in DOMAIN f : f[x].kind = "start" =>
             /\ f[x].iseq = 0
             /\ \A j \in 1..(x - 1) : f[j].kind # "row"
             /\ f[1].kind = "rotation" => f[1].iseq = 0
      BY DEF Sound, Starts
    <3>3. \A j \in 1..(i + e - 2) : j \in 1..(y - 1)
      BY <1>0
    <3>4. y = i + e - 1
      OBVIOUS
    <3> HIDE DEF y
    <3>5. /\ f[y].iseq = 0 /\ \A j \in 1..(y - 1) : f[j].kind # "row"
          /\ f[1].kind = "rotation" => f[1].iseq = 0
      BY <3>1, <3>2
    <3> QED  BY <3>1, <3>3, <3>4, <3>5
  <2>2. \A j \in 1..e : j \in 1..(i + e - 2)
    BY <1>0
  <2>3. g[1].iseq = 0
    BY <1>0, <1>3, <2>1, <2>2 DEF Base
  <2>4. \A j \in 2..(i - 1) : g[j].kind # "row"
    <3>1. \A j \in 2..(i - 1) : j \in 2..Len(g) /\ j + e - 1 \in 1..(i + e - 2)
      BY <1>0, <1>1
    <3> QED  BY <1>0, <2>1, <3>1
  <2>5. \A j \in 1..(i - 1) : j = 1 \/ j \in 2..(i - 1)
    OBVIOUS
  <2> QED  BY <1>0, <2>1, <2>3, <2>4, <2>5
<1>7. Starts(g)
  BY <1>0, <1>2, <1>6 DEF Starts
<1>8. ASSUME NEW i \in 2..Len(g), g[i].kind = "row"
      PROVE  \E m \in 1..(i - 1) : Precedes(g, m, i) /\ g[i].iseq = g[m].iseq + 1
  <2> DEFINE x == i + e - 1
  <2>1. x \in DOMAIN f /\ g[i] = f[x] /\ f[x].kind = "row" /\ x \in Nat /\ i \in Nat
    BY <1>0, <1>1, <1>8
  <2>2. PICK m \in 1..(x - 1) : Precedes(f, m, x) /\ f[x].iseq = f[m].iseq + 1
    BY <2>1 DEF Sound, Numbered
  <2>3. m \in DOMAIN f /\ f[m].kind \in Chained /\ \A k \in (m + 1)..(x - 1) : f[k].kind \notin Chained
    BY <1>1, <2>1, <2>2 DEF Precedes
  <2>4. \A k \in 2..(i - 1) : k \in 2..Len(g) /\ k + e - 1 \in 1..(x - 1) /\ g[k] = f[k + e - 1]
    <3>1. \A k \in 2..(i - 1) : k \in 2..Len(g) /\ k + e - 1 \in 1..(x - 1)
      BY <1>0, <1>1
    <3> QED  BY <1>0, <3>1
  <2>5. CASE m > e
    <3>1. m - e + 1 \in 2..(i - 1) /\ m - e + 1 + e - 1 = m /\ m - e + 1 \in 1..(i - 1)
      BY <1>0, <2>1, <2>5
    <3>2. g[m - e + 1] = f[m]
      BY <2>4, <3>1
    <3>3. \A k \in (m - e + 1 + 1)..(i - 1) : k \in 2..(i - 1) /\ k + e - 1 \in (m + 1)..(x - 1)
      BY <1>0, <2>1, <2>5
    <3>4. \A k \in (m - e + 1 + 1)..(i - 1) : g[k].kind \notin Chained
      BY <2>3, <2>4, <3>3
    <3>5. Precedes(g, m - e + 1, i)
      BY <2>3, <3>2, <3>4 DEF Precedes
    <3> QED  BY <2>1, <2>2, <3>1, <3>2, <3>5
  <2>6. CASE m <= e
    <3>1. \A k \in 2..(i - 1) : k + e - 1 \in (m + 1)..(x - 1)
      BY <1>0, <2>1, <2>3, <2>6
    <3>2. \A k \in 2..(i - 1) : g[k].kind \notin Chained
      BY <2>3, <2>4, <3>1
    <3>3. Precedes(g, 1, i)
      BY <1>0, <3>2 DEF Precedes, Chained
    <3>4. \A k \in (m + 1)..e : f[k].kind \notin Chained
      <4>1. \A k \in (m + 1)..e : k \in (m + 1)..(x - 1)
        BY <1>0, <2>1
      <4> QED  BY <2>3, <4>1
    <3>5. g[1].iseq = f[m].iseq
      <4>1. CASE f[m].kind = "row"
        <5>1. m \in 1..e
          BY <1>0, <1>1, <2>3, <2>6
        <5>2. \A k \in (m + 1)..e : f[k].kind # "row"
          BY <3>4 DEF Chained
        <5> QED  BY <1>0, <4>1, <5>1, <5>2
      <4>2. CASE f[m].kind = "start"
        <5>1. /\ f[m].iseq = 0 /\ \A j \in 1..(m - 1) : f[j].kind # "row"
              /\ f[1].kind = "rotation" => f[1].iseq = 0
          BY <2>3, <4>2 DEF Sound, Starts
        <5>2. \A k \in 1..e : k \in 1..(m - 1) \/ k = m \/ k \in (m + 1)..e
          BY <1>0, <2>3
        <5>3. \A k \in 1..e : f[k].kind # "row"
          BY <3>4, <4>2, <5>1, <5>2 DEF Chained
        <5> QED  BY <1>0, <1>3, <5>1, <5>3 DEF Base
      <4>3. CASE f[m].kind = "rotation"
        <5>1. m = 1
          BY <2>3, <4>3 DEF Sound, Rotations
        <5>2. \A k \in 1..e : k = 1 \/ k \in (m + 1)..e
          BY <1>0, <5>1
        <5>3. \A k \in 1..e : f[k].kind # "row"
          BY <3>4, <4>3, <5>1, <5>2 DEF Chained
        <5> QED  BY <1>0, <1>3, <4>3, <5>1, <5>3 DEF Base
      <4> QED  BY <2>3, <4>1, <4>2, <4>3 DEF Chained
    <3>6. 1 \in 1..(i - 1)
      OBVIOUS
    <3> QED  BY <2>1, <2>2, <3>3, <3>5, <3>6
  <2> QED  BY <1>0, <2>3, <2>5, <2>6, <1>1
<1>9. Numbered(g)
  BY <1>0, <1>2, <1>8 DEF Numbered
<1> QED  BY <1>4, <1>5, <1>7, <1>9 DEF g, Sound

(***************************************************************************)
(* What an append leaves.                                                  *)
(***************************************************************************)

LEMMA AppendedLine ==
    ASSUME NEW f \in Seq(Line), NEW line \in Line
    PROVE  LET g == Append(f, line)
           IN  /\ g \in Seq(Line) /\ Len(f) \in Nat /\ Len(g) = Len(f) + 1
               /\ DOMAIN f = 1..Len(f) /\ DOMAIN g = 1..(Len(f) + 1)
               /\ \A i \in DOMAIN f : g[i] = f[i] /\ i \in DOMAIN g
               /\ g[Len(f) + 1] = line
               /\ \A i \in DOMAIN g : i \in DOMAIN f \/ i = Len(f) + 1
<1> DEFINE g == Append(f, line)
<1>1. /\ g \in Seq(Line) /\ Len(g) = Len(f) + 1
      /\ \A i \in 1..Len(f) : g[i] = f[i]
      /\ g[Len(f) + 1] = line
  BY AppendProperties
<1>2. Len(f) \in Nat /\ DOMAIN f = 1..Len(f) /\ DOMAIN g = 1..Len(g)
  BY <1>1, LenProperties
<1> HIDE DEF g
<1>3. \A i \in 1..(Len(f) + 1) : i \in 1..Len(f) \/ i = Len(f) + 1
  BY <1>2
<1>4. \A i \in 1..Len(f) : i \in 1..(Len(f) + 1)
  BY <1>2
<1>5. DOMAIN g = 1..(Len(f) + 1)
  BY <1>1, <1>2
<1> QED  BY <1>1, <1>2, <1>3, <1>4, <1>5 DEF g

\* A line that fits leaves a sound file sound.
LEMMA AppendedSound ==
    ASSUME NEW f \in Seq(Line), NEW line \in Line, NEW n \in Nat,
           Sound(f), HashesBelow(f, n), Fits(f, line),
           line.hash < n, line.prev < n
    PROVE  Sound(Append(f, line)) /\ HashesBelow(Append(f, line), n)
<1> DEFINE g == Append(f, line)
           last == Len(f) + 1
<1>1. /\ g \in Seq(Line) /\ Len(f) \in Nat /\ Len(g) = last
      /\ DOMAIN f = 1..Len(f) /\ DOMAIN g = 1..last
      /\ \A i \in DOMAIN f : g[i] = f[i] /\ i \in DOMAIN g
      /\ g[last] = line
      /\ \A i \in DOMAIN g : i \in DOMAIN f \/ i = last
  BY AppendedLine
<1> HIDE DEF g
<1>2. HashesBelow(g, n)
  BY <1>1 DEF HashesBelow
<1>3. Rotations(g)
  BY <1>1 DEF Sound, Rotations, Fits
<1>4. \A i \in DOMAIN f : \A j \in 1..i : g[j] = f[j] /\ j \in DOMAIN f
  BY <1>1
<1>5. ASSUME NEW i \in DOMAIN g, g[i].kind = "start"
      PROVE  /\ g[i].iseq = 0
             /\ \A j \in 1..(i - 1) : g[j].kind # "row"
             /\ g[1].kind = "rotation" => g[1].iseq = 0
  <2>1. CASE i \in DOMAIN f
    <3>1. 1 \in DOMAIN f /\ \A j \in 1..(i - 1) : j \in 1..i
      BY <1>1, <2>1
    <3>2. g[1] = f[1] /\ g[i] = f[i] /\ \A j \in 1..(i - 1) : g[j] = f[j]
      BY <1>1, <1>4, <2>1, <3>1
    <3> QED  BY <1>5, <2>1, <3>2 DEF Sound, Starts
  <2>2. CASE i = last
    <3>1. line.iseq = 0 /\ \A j \in DOMAIN f : f[j].kind \notin Chained
      BY <1>1, <1>5, <2>2 DEF Fits, Unchained, Indices
    <3>2. \A j \in 1..(last - 1) : g[j].kind \notin Chained
      BY <1>1, <3>1
    <3>3. g[1].kind # "rotation"
      <4>1. last = 1 \/ 1 \in 1..(last - 1)
        BY <1>1
      <4> QED  BY <1>1, <1>5, <2>2, <3>2, <4>1 DEF Chained
    <3> QED  BY <1>1, <2>2, <3>1, <3>2, <3>3 DEF Chained
  <2> QED  BY <1>1, <2>1, <2>2
<1>6. ASSUME NEW i \in DOMAIN g, g[i].kind = "row"
      PROVE  \E m \in 1..(i - 1) : Precedes(g, m, i) /\ g[i].iseq = g[m].iseq + 1
  <2>1. PICK m \in 1..(i - 1) : Precedes(f, m, i) /\ g[i].iseq = f[m].iseq + 1
    <3>1. CASE i \in DOMAIN f
      BY <1>1, <1>6, <3>1 DEF Sound, Numbered
    <3>2. CASE i = last
      <4>1. DOMAIN f = 1..(last - 1)
        BY <1>1
      <4> QED  BY <1>1, <1>6, <3>2, <4>1 DEF Fits
    <3> QED  BY <1>1, <3>1, <3>2
  <2>2. \A k \in 1..(i - 1) : k \in DOMAIN f /\ g[k] = f[k]
    BY <1>1
  <2>3. \A k \in (m + 1)..(i - 1) : k \in 1..(i - 1)
    BY <1>1
  <2> QED  BY <2>1, <2>2, <2>3 DEF Precedes
<1> QED  BY <1>2, <1>3, <1>5, <1>6 DEF g, Sound, Starts, Numbered

\* A line that becomes garbage leaves a sound file sound when it was the last.
LEMMA GarbledSound ==
    ASSUME NEW f \in Seq(Line), f # <<>>, NEW h \in Nat, NEW n \in Nat, h < n,
           Sound(f), HashesBelow(f, n)
    PROVE  LET g == [f EXCEPT ![Len(f)] = Plain("garbage", h)]
           IN  g \in Seq(Line) /\ g # <<>> /\ Sound(g) /\ HashesBelow(g, n)
<1> DEFINE line == Plain("garbage", h)
           last == Len(f)
           g == [f EXCEPT ![last] = line]
<1>1. line \in Line /\ line.kind = "garbage" /\ line.hash = h /\ line.prev = 0
  BY PlainTyped DEF Kinds
<1> HIDE DEF line
<1>2. last \in Nat /\ last \in 1..last /\ DOMAIN f = 1..last
  BY LenProperties, EmptySeq
<1>3. /\ g \in Seq(Line) /\ Len(g) = last
      /\ \A i \in 1..last : g[i] = IF i = last THEN line ELSE f[i]
  BY <1>1, <1>2, ExceptSeq
<1>4. DOMAIN g = 1..last /\ g # <<>>
  BY <1>2, <1>3, LenProperties, EmptySeq
<1> HIDE DEF g, last
<1>5. HashesBelow(g, n)
  BY <1>1, <1>2, <1>3, <1>4 DEF HashesBelow
<1>6. Rotations(g)
  BY <1>1, <1>2, <1>3, <1>4 DEF Sound, Rotations
<1>7. \A i \in 1..last : g[i].kind # "garbage" =>
            g[i] = f[i] /\ i \in DOMAIN f /\ \A j \in 1..(i - 1) : g[j] = f[j]
  BY <1>1, <1>2, <1>3
<1>8. ASSUME NEW i \in DOMAIN g, g[i].kind = "start"
      PROVE  /\ g[i].iseq = 0
             /\ \A j \in 1..(i - 1) : g[j].kind # "row"
             /\ g[1].kind = "rotation" => g[1].iseq = 0
  <2>1. g[i] = f[i] /\ i \in DOMAIN f /\ \A j \in 1..(i - 1) : g[j] = f[j]
    BY <1>4, <1>7, <1>8
  <2>2. g[1].kind = "rotation" => g[1] = f[1]
    BY <1>2, <1>7
  <2> QED  BY <1>8, <2>1, <2>2 DEF Sound, Starts
<1>9. ASSUME NEW i \in DOMAIN g, g[i].kind = "row"
      PROVE  \E m \in 1..(i - 1) : Precedes(g, m, i) /\ g[i].iseq = g[m].iseq + 1
  <2>1. g[i] = f[i] /\ i \in DOMAIN f /\ \A j \in 1..(i - 1) : g[j] = f[j]
    BY <1>4, <1>7, <1>9
  <2>2. PICK m \in 1..(i - 1) : Precedes(f, m, i) /\ g[i].iseq = f[m].iseq + 1
    BY <1>9, <2>1 DEF Sound, Numbered
  <2>3. \A k \in (m + 1)..(i - 1) : k \in 1..(i - 1)
    BY <1>2, <1>4
  <2> QED  BY <2>1, <2>2, <2>3 DEF Precedes
<1> QED  BY <1>3, <1>4, <1>5, <1>6, <1>8, <1>9 DEF g, line, last, Sound, Starts, Numbered

(***************************************************************************)
(* What a step does to the file.                                           *)
(***************************************************************************)

FileSame == file' = file /\ (torn' => torn) /\ nextHash' >= nextHash

FileRotated ==
    /\ Len(file) > Cap
    /\ file' = Rotated(file, nextHash)
    /\ ~torn'
    /\ nextHash' = nextHash + 1

FileGlued ==
    \E line \in Line :
        /\ Fits(file, line)
        /\ line.hash < nextHash' /\ line.prev < nextHash'
        /\ file' = Glue(line)
        /\ nextHash' >= nextHash

LEMMA StartMarkerTyped ==
    ASSUME TypeOK
    PROVE  /\ StartMarker \in Line
           /\ StartMarker.kind = "start" /\ StartMarker.iseq = 0
           /\ StartMarker.hash = nextHash /\ StartMarker.prev = 0
           /\ StartMarker.sealed = 0
           /\ StartMarker.covers = [i \in DOMAIN file |-> file[i].hash]
<1> DEFINE cover == [i \in DOMAIN file |-> file[i].hash]
<1>1. /\ Len(file) \in Nat /\ DOMAIN file = 1..Len(file)
      /\ \A i \in DOMAIN file : file[i] \in Line
  BY LenProperties, ElementOfSeq DEF TypeOK
<1>2. cover \in [1..Len(file) -> Nat]
  BY <1>1 DEF Line
<1>3. cover \in Seq(Nat)
  <2> HIDE DEF cover
  <2> QED  BY <1>1, <1>2, SeqDef
<1>4. nextHash \in Nat
  BY DEF TypeOK
<1> HIDE DEF cover
<1>5. StartMarker = [Plain("start", nextHash) EXCEPT !.covers = cover]
  BY DEF StartMarker, cover
<1> QED  BY <1>3, <1>4, <1>5 DEF Plain, Line, Kinds, cover

\* What a writer appends fits, whether all of the line reaches the file or not.
LEMMA AppendingFits ==
    ASSUME Inv, NEW w \in Writer, NEW line \in Appending(w)
    PROVE  /\ line \in Line /\ Fits(file, line)
           /\ line.hash < nextHash + 1 /\ line.prev < nextHash + 1
<1>1. stamped[w] \in Line /\ nextHash \in Nat
  BY DEF Inv, TypeOK
<1>2. CASE pc[w] = "stamped" /\ line = stamped[w]
  BY <1>1, <1>2 DEF Inv, Stamps, Hashes, Line
<1>3. CASE Unchained(file) /\ line = StartMarker
  BY <1>1, <1>3, StartMarkerTyped DEF Inv, Fits
<1> QED  BY <1>2, <1>3 DEF Appending

LEMMA InterruptedSteps ==
    ASSUME Inv, NEW w \in Writer, Interrupted(w)
    PROVE  /\ FileSame \/ FileGlued
           /\ torn' \in BOOLEAN /\ nextHash' \in Nat /\ tears' \in Nat
           /\ tears' = 0 => tears = 0 /\ file' = file /\ torn' = torn
           /\ torn' => file' # <<>>
<1>1. /\ nextHash \in Nat /\ tears \in Nat /\ torn \in BOOLEAN /\ file \in Seq(Line)
      /\ torn => file # <<>>
  BY DEF Inv, TypeOK, Chain
<1>2. CASE UNCHANGED <<file, torn, nextHash, tears>>
  BY <1>1, <1>2 DEF FileSame
<1>3. ASSUME NEW line \in Appending(w), NEW next \in {line, Plain("garbage", line.hash)},
             file' = Glue(next), torn' = TRUE, tears' = tears + 1,
             nextHash' = nextHash + 1
      PROVE  FileGlued /\ file' # <<>>
  <2>1. /\ line \in Line /\ Fits(file, line)
        /\ line.hash < nextHash + 1 /\ line.prev < nextHash + 1
    BY AppendingFits
  <2>2. line.hash \in Nat
    BY <2>1 DEF Line
  <2>3. LET g == Plain("garbage", line.hash)
        IN  g \in Line /\ g.kind = "garbage" /\ g.hash = line.hash /\ g.prev = 0
    BY <2>2, PlainTyped DEF Kinds
  <2>4. next \in Line /\ Fits(file, next) /\ next.hash < nextHash' /\ next.prev < nextHash'
    BY <1>1, <1>3, <2>1, <2>3 DEF Fits
  <2>5. FileGlued
    BY <1>1, <1>3, <2>4 DEF FileGlued
  <2>6. file' # <<>>
    <3>1. torn => Len(file) \in DOMAIN file
      BY <1>1, LenProperties, EmptySeq
    <3>2. torn => DOMAIN [file EXCEPT ![Len(file)] = Plain("garbage", next.hash)] = DOMAIN file
      OBVIOUS
    <3>3. Len(Append(file, next)) > 0 /\ Append(file, next) \in Seq(Line)
      BY <1>1, <2>4, AppendedLine
    <3>4. Append(file, next) # <<>>
      BY <3>3, EmptySeq
    <3> QED  BY <1>3, <3>1, <3>2, <3>4 DEF Glue
  <2> QED  BY <2>5, <2>6
<1>4. CASE /\ \E line \in Appending(w) :
               file' \in {Glue(line), Glue(Plain("garbage", line.hash))}
           /\ torn' = TRUE /\ tears' = tears + 1 /\ nextHash' = nextHash + 1
  <2>1. PICK line \in Appending(w) :
            file' \in {Glue(line), Glue(Plain("garbage", line.hash))}
    BY <1>4
  <2>2. PICK next \in {line, Plain("garbage", line.hash)} : file' = Glue(next)
    BY <2>1
  <2>3. FileGlued /\ file' # <<>>
    BY <1>3, <1>4, <2>2
  <2>4. nextHash' \in Nat /\ tears' \in Nat /\ tears' # 0
    BY <1>1, <1>4
  <2>5. torn' \in BOOLEAN
    BY <1>4
  <2> QED  BY <2>3, <2>4, <2>5
<1> QED  BY <1>2, <1>4 DEF Interrupted

\* Whatever a step does, the file stays sound.
LEMMA FileStaysSound ==
    ASSUME Inv, nextHash' \in Nat, FileSame \/ FileRotated \/ FileGlued
    PROVE  file' \in Seq(Line) /\ Sound(file)' /\ HashesBelow(file, nextHash)'
<1>1. /\ nextHash \in Nat /\ file \in Seq(Line) /\ Sound(file)
      /\ HashesBelow(file, nextHash)
  BY DEF Inv, TypeOK, Chain, Hashes
<1>0. torn => file # <<>>
  BY DEF Inv, Chain
<1>2. ASSUME NEW n \in Nat, n >= nextHash  PROVE HashesBelow(file, n)
  <2>1. \A i \in DOMAIN file : file[i] \in Line
    BY <1>1, LenProperties, ElementOfSeq
  <2>2. \A i \in DOMAIN file : file[i].hash \in Nat /\ file[i].prev \in Nat
    BY <2>1 DEF Line
  <2>3. \A i \in DOMAIN file : file[i].hash < nextHash /\ file[i].prev < nextHash
    BY <1>1 DEF HashesBelow
  <2> QED
    <3>1. nextHash \in Nat
      BY <1>1
    <3> QED  BY <1>2, <2>2, <2>3, <3>1 DEF HashesBelow
<1>3. CASE FileSame
  BY <1>1, <1>2, <1>3 DEF FileSame
<1>4. CASE FileRotated
  <2>1. Len(file) > Target
    BY <1>1, <1>4, LedgerAssumption, LenProperties DEF FileRotated
  <2>2. LET g == Rotated(file, nextHash)
        IN  g \in Seq(Line) /\ Sound(g) /\ HashesBelow(g, nextHash + 1)
    <3>1. file \in Seq(Line) /\ nextHash \in Nat /\ Sound(file)
          /\ HashesBelow(file, nextHash)
      BY <1>1
    <3>2. Rotated(file, nextHash) \in Seq(Line)
      BY <2>1, <3>1, RotatedLines
    <3> QED  BY <2>1, <3>1, <3>2, RotatedSound
  <2> QED  BY <1>4, <2>2 DEF FileRotated
<1>5. CASE FileGlued
  <2>1. PICK line \in Line :
          /\ Fits(file, line)
          /\ line.hash < nextHash' /\ line.prev < nextHash'
          /\ file' = Glue(line)
          /\ nextHash' >= nextHash
    BY <1>5 DEF FileGlued
  <2>2. HashesBelow(file, nextHash')
    BY <1>2, <2>1
  <2>3. CASE ~torn
    <3>1. LET g == Append(file, line)
          IN  g \in Seq(Line) /\ Sound(g) /\ HashesBelow(g, nextHash')
      BY <1>1, <2>1, <2>2, AppendedSound, AppendedLine
    <3> QED  BY <2>1, <2>3, <3>1 DEF Glue
  <2>4. CASE torn
    <3>1. line.hash \in Nat
      BY DEF Line
    <3>2. LET g == [file EXCEPT ![Len(file)] = Plain("garbage", line.hash)]
          IN  g \in Seq(Line) /\ g # <<>> /\ Sound(g) /\ HashesBelow(g, nextHash')
      <4>1. file # <<>>
        BY <1>0, <2>4
      <4>2. file \in Seq(Line) /\ Sound(file)
        BY <1>1
      <4> QED  BY <2>1, <2>2, <3>1, <4>1, <4>2, GarbledSound
    <3> QED  BY <2>1, <2>4, <3>2 DEF Glue
  <2> QED  BY <2>3, <2>4
<1> QED  BY <1>3, <1>4, <1>5

\* A step changes the file in one of three ways.
LEMMA FileSteps ==
    ASSUME Inv, [Next]_vars
    PROVE  /\ nextHash' \in Nat
           /\ FileSame \/ FileRotated \/ FileGlued
           /\ torn' \in BOOLEAN
           /\ torn' => file' # <<>>
<1>1. /\ nextHash \in Nat /\ torn \in BOOLEAN /\ file \in Seq(Line)
      /\ torn => file # <<>>
  BY DEF Inv, TypeOK, Chain
<1>2. ASSUME NEW w \in Writer, Acquire(w) \/ Skip(w) \/ WithinCap(w) \/ Terminate(w)
                  \/ Stamp(w) \/ WriteHead(w) \/ Finish(w) \/ Refused(w)
                  \/ RecordWriteFailure(w)
      PROVE  FileSame /\ nextHash' \in Nat /\ torn' \in BOOLEAN /\ (torn' => file' # <<>>)
  <2>1. file' = file /\ (torn' = torn \/ torn' = FALSE)
        /\ (nextHash' = nextHash \/ nextHash' = nextHash + 1)
    BY <1>2 DEF Acquire, Skip, WithinCap, Terminate, Stamp, WriteHead, Finish,
                Refused, RecordWriteFailure, ledger
  <2>2. nextHash' \in Nat /\ nextHash' >= nextHash
    <3>1. nextHash \in Nat
      BY <1>1
    <3> QED  BY <2>1, <3>1
  <2>3. torn' \in BOOLEAN /\ (torn' => torn) /\ (torn' => file' # <<>>)
    <3>1. CASE torn' = torn
      BY <1>1, <2>1, <3>1, Zenon
    <3>2. CASE torn' = FALSE
      BY <3>2
    <3> QED  BY <2>1, <3>1, <3>2
  <2> QED  BY <2>1, <2>2, <2>3 DEF FileSame
<1>3. ASSUME NEW w \in Writer, Rotate(w)
      PROVE  FileRotated /\ nextHash' \in Nat /\ torn' \in BOOLEAN /\ ~torn'
  <2>1. FileRotated /\ torn' = FALSE /\ nextHash' = nextHash + 1
    BY <1>3 DEF Rotate, FileRotated
  <2>2. nextHash' \in Nat
    <3>1. nextHash \in Nat
      BY <1>1
    <3> QED  BY <2>1, <3>1
  <2> QED  BY <2>1, <2>2
<1>4. ASSUME NEW w \in Writer, AppendStart(w)
      PROVE  FileGlued /\ nextHash' \in Nat /\ torn' \in BOOLEAN /\ ~torn'
  <2>1. pc[w] = "ready" /\ Unchained(file) /\ ~torn /\ file' = Append(file, StartMarker)
        /\ nextHash' = nextHash + 1 /\ torn' = torn
    BY <1>4 DEF AppendStart
  <2>2. StartMarker \in Appending(w)
    BY <2>1 DEF Appending
  <2>3. /\ StartMarker \in Line /\ Fits(file, StartMarker)
        /\ StartMarker.hash < nextHash + 1 /\ StartMarker.prev < nextHash + 1
    BY <2>2, AppendingFits
  <2> QED  BY <1>1, <2>1, <2>3 DEF FileGlued, Glue
<1>5. ASSUME NEW w \in Writer, AppendRow(w)
      PROVE  FileGlued /\ nextHash' \in Nat /\ torn' \in BOOLEAN /\ ~torn'
  <2>1. pc[w] = "stamped" /\ file' = Glue(stamped[w]) /\ ~torn' /\ torn' = FALSE
        /\ nextHash' = nextHash
    BY <1>5 DEF AppendRow
  <2>2. stamped[w] \in Line /\ Fits(file, stamped[w])
        /\ stamped[w].hash < nextHash /\ stamped[w].prev < nextHash
    BY <2>1 DEF Inv, TypeOK, Stamps, Hashes
  <2>3. nextHash' >= nextHash /\ nextHash' \in Nat
    <3>1. nextHash \in Nat
      BY <1>1
    <3> QED  BY <2>1, <3>1
  <2> QED  BY <2>1, <2>2, <2>3 DEF FileGlued
<1>6. ASSUME NEW w \in Writer, Fail(w) \/ Crash(w)
      PROVE  /\ FileSame \/ FileGlued
             /\ nextHash' \in Nat /\ torn' \in BOOLEAN /\ (torn' => file' # <<>>)
  <2>1. Interrupted(w)
    BY <1>6 DEF Fail, Crash
  <2> QED  BY <2>1, InterruptedSteps
<1>7. CASE UNCHANGED vars
  BY <1>1, <1>7 DEF vars, ledger, FileSame
<1> QED  BY <1>2, <1>3, <1>4, <1>5, <1>6, <1>7 DEF Next

(***************************************************************************)
(* The inductive invariant of every file.                                  *)
(***************************************************************************)

\* The row that a writer stamps now.
NextRow ==
    [Plain("row", nextHash) EXCEPT
        !.iseq = NextIseq(file), !.prev = Prev(file), !.sealed = failed]

\* There is a last line of a chain, and the row to be stamped follows it.
LEMMA NextRowFits ==
    ASSUME Inv, ~Unchained(file)
    PROVE  /\ file # <<>> /\ Len(file) \in DOMAIN file
           /\ NextRow \in Line /\ NextRow.kind = "row" /\ Fits(file, NextRow)
           /\ NextRow.hash = nextHash /\ NextRow.prev = Prev(file)
           /\ NextRow.sealed = failed /\ Prev(file) < nextHash
           /\ \E m \in DOMAIN file :
                /\ Precedes(file, m, Len(file) + 1)
                /\ NextRow.iseq = file[m].iseq + 1
<1> DEFINE S == Indices(file, Chained)
           m == Latest(S)
<1>1. /\ Len(file) \in Nat /\ DOMAIN file = 1..Len(file)
      /\ \A i \in DOMAIN file : file[i] \in Line
      /\ nextHash \in Nat /\ failed \in Nat
  BY LenProperties, ElementOfSeq DEF Inv, TypeOK
<1>2. S \in SUBSET (1..Len(file)) /\ S # {}
  BY <1>1 DEF Unchained, Indices
<1>3. m \in S /\ \A j \in S : j <= m
  <2> HIDE DEF S
  <2> QED  BY <1>1, <1>2, LatestIsGreatest
<1>4. /\ m \in DOMAIN file /\ file[m].kind \in Chained
      /\ \A j \in DOMAIN file : file[j].kind \in Chained => j <= m
  BY <1>3 DEF Indices
<1>5. NextIseq(file) = file[m].iseq + 1
  BY DEF NextIseq
<1> HIDE DEF m, S
<1>6. Len(file) \in DOMAIN file /\ file # <<>>
  BY <1>1, <1>4
<1>7. Precedes(file, m, Len(file) + 1)
  <2>1. \A k \in (m + 1)..(Len(file) + 1 - 1) : k \in DOMAIN file /\ ~(k <= m)
    BY <1>1, <1>4
  <2> QED  BY <1>4, <2>1 DEF Precedes
<1>8. NextIseq(file) \in Nat /\ Prev(file) \in Nat
  <2>1. file[m] \in Line /\ file[Len(file)] \in Line
    BY <1>1, <1>4, <1>6
  <2>2. file[m].iseq \in Nat /\ file[Len(file)].hash \in Nat
    BY <2>1 DEF Line
  <2> QED  BY <1>5, <2>2 DEF Prev
<1>9. Prev(file) < nextHash
  BY <1>6 DEF Inv, Hashes, HashesBelow, Prev
<1>10. /\ NextRow \in Line /\ NextRow.kind = "row" /\ NextRow.hash = nextHash
       /\ NextRow.prev = Prev(file) /\ NextRow.sealed = failed
       /\ NextRow.iseq = NextIseq(file)
  <2> DEFINE iseq == NextIseq(file)
             prev == Prev(file)
             p == Plain("row", nextHash)
  <2>1. p \in Line /\ p.kind = "row" /\ p.hash = nextHash
    BY <1>1, PlainTyped DEF Kinds
  <2>2. iseq \in Nat /\ prev \in Nat /\ failed \in Nat
    BY <1>1, <1>8
  <2>3. NextRow = [p EXCEPT !.iseq = iseq, !.prev = prev, !.sealed = failed]
    BY DEF NextRow
  <2> HIDE DEF iseq, prev, p
  <2>4. /\ NextRow \in Line /\ NextRow.kind = "row" /\ NextRow.hash = nextHash
        /\ NextRow.prev = prev /\ NextRow.sealed = failed /\ NextRow.iseq = iseq
    BY <2>1, <2>2, <2>3 DEF Line
  <2> QED  BY <2>4 DEF iseq, prev
<1> QED  BY <1>4, <1>5, <1>6, <1>7, <1>9, <1>10 DEF Fits

LEMMA InitInv == Init => Inv
<1> SUFFICES ASSUME Init  PROVE Inv
  OBVIOUS
<1>1. PICK n \in Nat : file = [i \in 1..n |-> Plain("legacy", i)]
  BY LedgerAssumption DEF Init
<1>2. \A i \in 1..n : /\ Plain("legacy", i) \in Line /\ Plain("legacy", i).kind = "legacy"
                      /\ Plain("legacy", i).hash = i /\ Plain("legacy", i).prev = 0
  BY PlainTyped DEF Kinds
<1>3. file \in [1..n -> Line] /\ DOMAIN file = 1..n /\ \A i \in 1..n : file[i] = Plain("legacy", i)
  BY <1>1, <1>2
<1>4. file \in Seq(Line)
  BY <1>3, SeqDef
<1>5. Len(file) = n
  BY <1>3, <1>4, LenProperties
<1>6. /\ Plain("row", 0) \in Line /\ Plain("row", 0).kind = "row"
      /\ Plain("row", 0).hash = 0 /\ Plain("row", 0).prev = 0
  BY PlainTyped DEF Kinds
<1>7. nextHash = n + 1 /\ nextHash \in Nat
  <2>1. nextHash = Len(file) + 1
    BY DEF Init
  <2> QED  BY <1>5, <2>1
<1>8. /\ torn \in BOOLEAN /\ raced \in BOOLEAN
      /\ torn => file # <<>>
  BY DEF Init
<1>9. TypeOK
  <2>1. /\ head \in [iseq : Nat, hash : Nat] /\ failed \in Nat
        /\ lock \in Writer \cup {Nobody} /\ pc \in [Writer -> Places]
        /\ stamped \in [Writer -> Line]
        /\ acked \subseteq [iseq : Nat, hash : Nat]
        /\ {landed, counted, crashes, failures, tears} \subseteq Nat
    BY <1>6 DEF Init, NoHead, Places
  <2> QED  BY <1>4, <1>7, <1>8, <2>1 DEF TypeOK
<1>10. Exclusive
  BY LedgerAssumption DEF Init, Exclusive, Inside
<1>11. Chain
  <2>1. \A i \in DOMAIN file : file[i].kind = "legacy"
    BY <1>2, <1>3
  <2> QED  BY <1>8, <2>1 DEF Chain, Sound, Rotations, Starts, Numbered
<1>12. Hashes
  <2>1. HashesBelow(file, nextHash)
    BY <1>2, <1>3, <1>7 DEF HashesBelow
  <2>2. \A w \in Writer : stamped[w] = Plain("row", 0)
    BY DEF Init
  <2> QED  BY <1>6, <1>7, <2>1, <2>2 DEF Hashes
<1>13. Stamps
  BY <1>6 DEF Stamps, Init
<1> QED  BY <1>9, <1>10, <1>11, <1>12, <1>13 DEF Inv

LEMMA TypeStep ==
    ASSUME Inv, [Next]_vars
    PROVE  TypeOK'
<1> DEFINE Books ==
        /\ head \in [iseq : Nat, hash : Nat]
        /\ failed \in Nat
        /\ lock \in Writer \cup {Nobody}
        /\ pc \in [Writer -> Places]
        /\ stamped \in [Writer -> Line]
        /\ acked \subseteq [iseq : Nat, hash : Nat]
        /\ {landed, counted, crashes, failures, tears} \subseteq Nat
<1>1. file' \in Seq(Line) /\ nextHash' \in Nat /\ torn' \in BOOLEAN
  BY FileSteps, FileStaysSound
<1>2. Books
  BY DEF Inv, TypeOK
<1>3. ASSUME NEW w \in Writer, Acquire(w) \/ Skip(w) \/ Rotate(w) \/ WithinCap(w)
                  \/ Terminate(w) \/ AppendStart(w) \/ Refused(w)
      PROVE  Books'
  BY <1>2, <1>3 DEF Acquire, Skip, Rotate, WithinCap, Terminate, AppendStart, Refused,
                    Goto, Places, ledger, history
<1>4. ASSUME NEW w \in Writer, Stamp(w)  PROVE Books'
  <2>1. stamped' = [stamped EXCEPT ![w] = NextRow] /\ ~Unchained(file)
    BY <1>4 DEF Stamp, NextRow
  <2>2. NextRow \in Line
    BY <2>1, NextRowFits
  <2>3. stamped' \in [Writer -> Line]
    BY <1>2, <2>1, <2>2
  <2> QED  BY <1>2, <1>4, <2>3 DEF Stamp, Goto, Places, ledger, history
<1>5. ASSUME NEW w \in Writer, AppendRow(w) \/ WriteHead(w) \/ Finish(w)  PROVE Books'
  <2>1. stamped[w].iseq \in Nat /\ stamped[w].hash \in Nat
    BY <1>2 DEF Line
  <2> QED  BY <1>2, <1>5, <2>1 DEF AppendRow, WriteHead, Finish, Goto, Places, ledger, history
<1>6. ASSUME NEW w \in Writer, Fail(w) \/ Crash(w)  PROVE Books'
  <2>1. tears' \in Nat
    BY <1>6, InterruptedSteps DEF Fail, Crash
  <2> QED  BY <1>2, <1>6, <2>1 DEF Fail, Crash, Goto, Places
<1>7. ASSUME NEW w \in Writer, RecordWriteFailure(w)  PROVE Books'
  <2>1. failed' \in Nat /\ counted' \in Nat
    BY <1>2, <1>7 DEF RecordWriteFailure
  <2> QED  BY <1>2, <1>7, <2>1 DEF RecordWriteFailure, Goto, Places, ledger
<1>8. ASSUME UNCHANGED vars  PROVE Books'
  <2>1. UNCHANGED <<head, failed, lock, pc, stamped, acked, landed, counted,
                    crashes, failures, tears>>
    BY <1>8 DEF vars, ledger, history
  <2> QED  BY <1>2, <2>1
<1>9. raced' \in BOOLEAN
  <2>1. raced \in BOOLEAN
    BY DEF Inv, TypeOK
  <2>2. raced' = raced \/ raced' = (raced \/ \E v \in Writer :
                            pc[v] \in {"stamped", "appended", "headed"})
    BY DEF Next, vars, ledger, history, Acquire, Skip, Rotate, WithinCap, Terminate,
           AppendStart, Stamp, AppendRow, WriteHead, Finish, Fail, Refused,
           RecordWriteFailure, Crash
  <2> QED  BY <2>1, <2>2
<1> HIDE DEF Books
<1>10. Books'
  <2>1. CASE Next
    BY <1>3, <1>4, <1>5, <1>6, <1>7, <2>1 DEF Next
  <2> QED  BY <1>8, <2>1
<1> USE DEF Books
<1> QED  BY <1>1, <1>9, <1>10 DEF TypeOK

LEMMA ExclusiveStep ==
    ASSUME Inv, [Next]_vars
    PROVE  Exclusive'
<1>1. /\ Exclusive /\ lock \in Writer \cup {Nobody} /\ pc \in [Writer -> Places]
      /\ Nobody \notin Writer
  BY LedgerAssumption DEF Inv, TypeOK
<1>2. ASSUME NEW w \in Writer, Acquire(w) \/ Refused(w) \/ RecordWriteFailure(w)
      PROVE  Exclusive'
  <2>1. \/ pc[w] = "idle" /\ lock = Nobody /\ lock' = w /\ pc' = [pc EXCEPT ![w] = "locked"]
        \/ /\ pc[w] \in {"idle", "failing"} /\ lock' = lock
           /\ \E place \in {"idle", "failing"} : pc' = [pc EXCEPT ![w] = place]
    BY <1>2 DEF Acquire, Refused, RecordWriteFailure, Goto
  <2> QED  BY <1>1, <2>1 DEF Exclusive, Inside
<1>3. ASSUME NEW w \in Writer, Rotate(w) \/ WithinCap(w) \/ Terminate(w) \/ AppendStart(w)
                  \/ Stamp(w) \/ AppendRow(w) \/ WriteHead(w)
      PROVE  Exclusive'
  <2>1. /\ pc[w] \in Inside /\ lock' = lock
        /\ \E place \in Inside : pc' = [pc EXCEPT ![w] = place]
    <3>1. Terminate(w) => pc' = [pc EXCEPT ![w] = pc[w]] /\ pc[w] \in Inside /\ lock' = lock
      BY <1>1 DEF Terminate, Inside
    <3> QED  BY <1>3, <3>1 DEF Rotate, WithinCap, AppendStart, Stamp, AppendRow,
                              WriteHead, Goto, Inside
  <2> QED  BY <1>1, <2>1 DEF Exclusive
<1>4. ASSUME NEW w \in Writer, Skip(w) \/ Finish(w) \/ Fail(w) \/ Crash(w)
      PROVE  Exclusive'
  <2>1. /\ lock' = (IF lock = w THEN Nobody ELSE lock)
        /\ \E place \in {"idle", "failing"} : pc' = [pc EXCEPT ![w] = place]
    <3>1. Skip(w) \/ Finish(w) => lock = w
      BY <1>1 DEF Skip, Finish, Exclusive, Inside
    <3> QED  BY <1>4, <3>1 DEF Skip, Finish, Fail, Crash, Goto
  <2> QED  BY <1>1, <2>1 DEF Exclusive, Inside
<1>5. CASE UNCHANGED vars
  BY <1>1, <1>5 DEF vars, Exclusive
<1> QED  BY <1>2, <1>3, <1>4, <1>5 DEF Next

LEMMA HashesStep ==
    ASSUME Inv, [Next]_vars
    PROVE  Hashes'
<1>1. /\ nextHash \in Nat /\ stamped \in [Writer -> Line]
      /\ \A w \in Writer : stamped[w].hash < nextHash /\ stamped[w].prev < nextHash
  BY DEF Inv, TypeOK, Hashes
<1>2. HashesBelow(file, nextHash)' /\ nextHash' \in Nat
  BY FileSteps, FileStaysSound
<1>3. \A w \in Writer : stamped[w].hash \in Nat /\ stamped[w].prev \in Nat
  BY <1>1 DEF Line
<1>4. nextHash' >= nextHash
  <2>1. FileSame \/ FileRotated \/ FileGlued
    BY FileSteps
  <2>2. FileRotated => nextHash' = nextHash + 1
    BY DEF FileRotated
  <2>3. FileSame \/ FileGlued => nextHash' >= nextHash
    BY DEF FileSame, FileGlued
  <2>4. nextHash + 1 >= nextHash
    BY <1>1
  <2> QED  BY <2>1, <2>2, <2>3, <2>4
<1>5. CASE stamped' = stamped
  BY <1>1, <1>2, <1>3, <1>4, <1>5 DEF Hashes
<1>6. ASSUME NEW w \in Writer, Stamp(w)  PROVE Hashes'
  <2>1. /\ stamped' = [stamped EXCEPT ![w] = NextRow] /\ nextHash' = nextHash + 1
        /\ ~Unchained(file)
    BY <1>6 DEF Stamp, NextRow
  <2>2. NextRow.hash = nextHash /\ NextRow.prev < nextHash /\ NextRow.prev \in Nat
    <3>1. NextRow.hash = nextHash /\ NextRow.prev = Prev(file) /\ Prev(file) < nextHash
          /\ NextRow \in Line
      BY <2>1, NextRowFits
    <3> QED  BY <3>1 DEF Line
  <2>3. \A v \in Writer : stamped'[v].hash < nextHash + 1 /\ stamped'[v].prev < nextHash + 1
    BY <1>1, <1>3, <2>1, <2>2
  <2> QED  BY <1>2, <2>1, <2>3 DEF Hashes
<1>7. stamped' = stamped \/ \E w \in Writer : Stamp(w)
  BY DEF Next, vars, ledger, history, Acquire, Skip, Rotate, WithinCap, Terminate,
         AppendStart, AppendRow, WriteHead, Finish, Fail, Refused,
         RecordWriteFailure, Crash
<1> QED  BY <1>5, <1>6, <1>7

\* The row stamped by the writer in the critical section still fits: nobody else
\* changes the file.
LEMMA StampsStep ==
    ASSUME Inv, [Next]_vars
    PROVE  Stamps'
<1>1. Exclusive /\ Stamps /\ stamped \in [Writer -> Line] /\ pc \in [Writer -> Places]
  BY DEF Inv, TypeOK
<1>2. ASSUME NEW w \in Writer, Stamp(w)  PROVE Stamps'
  <2>1. /\ stamped' = [stamped EXCEPT ![w] = NextRow] /\ file' = file
        /\ pc' = [pc EXCEPT ![w] = "stamped"] /\ ~Unchained(file)
    BY <1>2 DEF Stamp, NextRow, Goto, ledger
  <2>2. NextRow.kind = "row" /\ Fits(file, NextRow)
    BY <2>1, NextRowFits
  <2>3. ASSUME NEW v \in Writer
        PROVE  stamped'[v].kind = "row" /\ (pc'[v] = "stamped" => Fits(file, stamped'[v]))
    BY <1>1, <2>1, <2>2 DEF Stamps
  <2> QED  BY <2>1, <2>3 DEF Stamps
<1>3. ASSUME stamped' = stamped,
             \A v \in Writer : pc'[v] = "stamped" => pc[v] = "stamped" /\ file' = file
      PROVE  Stamps'
  <2>1. ASSUME NEW v \in Writer
        PROVE  stamped'[v].kind = "row" /\ (pc'[v] = "stamped" => Fits(file', stamped'[v]))
    BY <1>1, <1>3 DEF Stamps
  <2> QED  BY <2>1 DEF Stamps
<1>4. ASSUME NEW w \in Writer, Acquire(w) \/ Skip(w) \/ WithinCap(w) \/ Terminate(w)
                  \/ WriteHead(w) \/ Finish(w) \/ Refused(w) \/ RecordWriteFailure(w)
      PROVE  Stamps'
  <2>1. /\ stamped' = stamped /\ file' = file
        /\ pc' = pc \/ \E place \in Places \ {"stamped"} : pc' = [pc EXCEPT ![w] = place]
    BY <1>4 DEF Acquire, Skip, WithinCap, Terminate, WriteHead, Finish, Refused,
                RecordWriteFailure, Goto, Places, ledger, history
  <2> QED  BY <1>1, <1>3, <2>1
<1>5. ASSUME NEW w \in Writer, Rotate(w) \/ AppendStart(w) \/ AppendRow(w)
      PROVE  Stamps'
  <2>1. /\ stamped' = stamped /\ lock = w
        /\ \E place \in Places \ {"stamped"} : pc' = [pc EXCEPT ![w] = place]
    BY <1>1, <1>5 DEF Rotate, AppendStart, AppendRow, Goto, Places, history,
                      Exclusive, Inside
  <2>2. \A v \in Writer : v # w => pc[v] # "stamped"
    BY <1>1, <2>1 DEF Exclusive, Inside
  <2> QED  BY <1>1, <1>3, <2>1, <2>2
<1>6. ASSUME NEW w \in Writer, Fail(w) \/ Crash(w)  PROVE Stamps'
  <2>1. /\ stamped' = stamped /\ Interrupted(w)
        /\ \E place \in {"failing", "idle"} : pc' = [pc EXCEPT ![w] = place]
    BY <1>6 DEF Fail, Crash, Goto
  <2>2. file' = file \/ Appending(w) # {}
    BY <2>1 DEF Interrupted
  <2>3. file' = file \/ lock = w
    BY <1>1, <2>2 DEF Appending, Exclusive, Inside
  <2>4. \A v \in Writer : v # w /\ lock = w => pc[v] # "stamped"
    BY <1>1 DEF Exclusive, Inside
  <2> QED  BY <1>1, <1>3, <2>1, <2>3, <2>4
<1>7. CASE UNCHANGED vars
  BY <1>3, <1>7 DEF vars, ledger
<1> QED  BY <1>2, <1>4, <1>5, <1>6, <1>7 DEF Next

LEMMA InvStep == Inv /\ [Next]_vars => Inv'
<1> SUFFICES ASSUME Inv, [Next]_vars  PROVE Inv'
  OBVIOUS
<1>1. TypeOK' /\ Exclusive' /\ Hashes' /\ Stamps'
  BY TypeStep, ExclusiveStep, HashesStep, StampsStep
<1>2. Chain'
  BY FileSteps, FileStaysSound DEF Chain
<1> QED  BY <1>1, <1>2 DEF Inv

\* Whatever writers are killed or fail, at any moment and however much of a line
\* reaches the file: one writer at a time is inside, the rows that parse are
\* numbered one after the other, and the next line gets a hash no line has or names.
THEOREM LedgerInvariant == Spec => []Inv
BY InitInv, InvStep, PTL DEF Spec

\* The types of the variables of LedgerChain.
THEOREM LedgerTyped == Spec => []TypeOK
<1>1. Inv => TypeOK
  BY DEF Inv
<1> QED  BY LedgerInvariant, <1>1, PTL

(***************************************************************************)
(* A file of whole lines: what a rotation and an append leave.             *)
(***************************************************************************)

\* Of lf lines those after b are rows, numbered to n; the first e go, and lg - 1
\* stay behind a marker with number G.
Cut(lf, lg, b, e, n, B, G) ==
    /\ lf = lg + e - 1 /\ b <= lf /\ n = B + lf - b
    /\ b >= e => G = B
    /\ b < e => G = n - (lf - e)

Left(lf, lg, b, e, n, B, G) ==
    /\ b >= e + 1 => n = G + lg - (b - e + 1)
    /\ b <= e => n = G + lg - 1
    /\ b < e => G = B + (e - b)
    /\ G >= B
    /\ \A q \in Nat : q > G /\ b < e => q > B /\ lf - (n - q) > e

LEMMA CutNumbers ==
    \A lf, lg, b, e, n, B, G \in Nat :
        Cut(lf, lg, b, e, n, B, G) => Left(lf, lg, b, e, n, B, G)
BY DEF Cut, Left

LEMMA RotatedWhole ==
    ASSUME NEW f \in Seq(Line), NEW h \in Nat, NEW n \in Nat, Len(f) > Target,
           Sound(f), Whole(f, n)
    PROVE  LET g == Rotated(f, h)
           IN  /\ Whole(g, n) /\ g[Len(g)] = f[Len(f)]
               /\ \A r \in [iseq : Nat, hash : Nat] : RowKept(f, n, r) => RowKept(g, n, r)
<1> DEFINE g == Rotated(f, h)
           e == Gone(f)
           p == PriorOf(f)
<1>0. /\ g \in Seq(Line)
      /\ Len(g) = Target + 1 /\ e \in Nat /\ e \in 1..(Len(f) - 1)
      /\ \A k \in 2..Len(g) : k + e - 1 \in DOMAIN f /\ g[k] = f[k + e - 1]
      /\ g[1].kind = "rotation" /\ g[1].hash = h
      /\ g[1].prev = IF e = 1 /\ f[1].kind = "rotation" THEN f[1].prev
                                                       ELSE f[e].hash
      /\ (\A i \in 1..e : f[i].kind # "row") =>
           g[1].iseq = p.iseq /\ g[1].dropped = p.dropped
      /\ \A m \in 1..e :
           f[m].kind = "row" /\ (\A i \in (m + 1)..e : f[i].kind # "row")
             => g[1].iseq = f[m].iseq
      /\ \A b \in 1..e :
           (\A i \in 1..e : f[i].kind = "row" <=> i > b)
             => g[1].dropped = p.dropped + (e - b)
      /\ g[1].droppedLegacy >= p.droppedLegacy
      /\ f[1].kind # "rotation" /\ (\A i \in 1..e : f[i].kind = "legacy")
           => g[1].droppedLegacy > 0
  BY RotatedLines
<1>1. e = Len(f) - Target
  BY DEF Gone
<1>2. /\ Target \in Nat /\ Target >= 1
      /\ Len(f) \in Nat /\ DOMAIN f = 1..Len(f) /\ Len(g) \in Nat /\ DOMAIN g = 1..Len(g)
      /\ \A i \in DOMAIN f : f[i] \in Line
      /\ \A i \in DOMAIN g : g[i] \in Line
      /\ f # <<>> /\ g # <<>>
  <2> HIDE DEF g, e, p
  <2>1. Target \in Nat /\ Target >= 1
    BY LedgerAssumption
  <2> QED  BY <1>0, <2>1, LenProperties, ElementOfSeq, EmptySeq
<1>3. /\ p.iseq = Base(f) /\ p.dropped = Base(f) /\ Base(f) \in Nat /\ p.droppedLegacy \in Nat
      /\ f[1].kind = "rotation" => p.droppedLegacy = f[1].droppedLegacy
  <2>1. 1 \in DOMAIN f /\ f[1] \in Line
    BY <1>0, <1>2
  <2>2. CASE f[1].kind = "rotation"
    <3>1. f[1].dropped = f[1].iseq
      BY <1>2, <2>1, <2>2 DEF Whole
    <3> QED  BY <2>1, <2>2, <3>1 DEF PriorOf, Base, Line
  <2>3. CASE f[1].kind # "rotation"
    BY <2>3 DEF PriorOf, Base, Plain
  <2> QED  BY <2>2, <2>3
<1> HIDE DEF g, e, p
<1>4. PICK b \in DOMAIN f : RowsFrom(f, b, n)
  BY <1>2 DEF Whole
<1>5. b \in Nat /\ b >= 1 /\ b <= Len(f) /\ n = Base(f) + Len(f) - b
      /\ \A i \in DOMAIN f : f[i].kind = "row" <=> i > b
  BY <1>2, <1>4 DEF RowsFrom
<1>6. \A i \in 1..e : i \in DOMAIN f
  BY <1>0, <1>2
<1>17. /\ e \in Nat /\ e >= 1 /\ Len(f) \in Nat /\ Len(g) \in Nat
       /\ Len(f) = Len(g) + e - 1 /\ Len(g) >= 2
       /\ b \in Nat /\ b >= 1 /\ b <= Len(f)
  <2>1. Len(g) = Target + 1 /\ e \in 1..(Len(f) - 1)
    BY <1>0
  <2> QED  BY <1>1, <1>2, <1>3, <1>5, <2>1
<1>7. Base(g) = g[1].iseq /\ Base(g) \in Nat
  <2>1. 1 \in DOMAIN g
    BY <1>0, <1>2
  <2>2. g[1].iseq \in Nat
    BY <1>2, <2>1 DEF Line
  <2> QED  BY <1>0, <2>2 DEF Base
<1>8. b >= e => Base(g) = Base(f) /\ g[1].dropped = Base(f)
  <2> SUFFICES ASSUME b >= e  PROVE \A i \in 1..e : f[i].kind # "row"
    <3>1. (\A i \in 1..e : f[i].kind # "row") =>
            g[1].iseq = p.iseq /\ g[1].dropped = p.dropped
      BY <1>0
    <3> QED  BY <1>3, <1>7, <3>1
  <2> QED  BY SMTT(30), <1>5, <1>6, <1>17
<1>9. b < e => Base(g) = n - (Len(f) - e) /\ g[1].dropped = Base(f) + (e - b)
  <2> SUFFICES ASSUME b < e
               PROVE  Base(g) = n - (Len(f) - e) /\ g[1].dropped = Base(f) + (e - b)
    OBVIOUS
  <2>1. e \in 1..e /\ e \in DOMAIN f /\ f[e].kind = "row" /\ b \in 1..e
    BY <1>0, <1>5, <1>6
  <2>2. f[e].iseq = n - (Len(f) - e)
    BY <2>1 DEF Whole, RowAt
  <2>3. \A i \in (e + 1)..e : f[i].kind # "row"
    BY <1>0
  <2>4. \A i \in 1..e : f[i].kind = "row" <=> i > b
    BY <1>5, <1>6
  <2>5. g[1].iseq = f[e].iseq
    BY <1>0, <2>1, <2>3
  <2>6. g[1].dropped = p.dropped + (e - b)
    BY <1>0, <2>1, <2>4
  <2> QED  BY <1>3, <1>7, <2>2, <2>5, <2>6
<1>18. PICK B \in Nat : B = Base(f)
  BY <1>3
<1>19. PICK G \in Nat : G = Base(g)
  BY <1>7
<1>23. B \in Nat /\ G \in Nat
  BY <1>18, <1>19
<1>20. n = B + Len(f) - b
  BY <1>5, <1>18
<1>21. b >= e => G = B
  BY <1>8, <1>18, <1>19
<1>22. b < e => G = n - (Len(f) - e)
  BY <1>9, <1>19
<1>24. /\ b >= e + 1 => n = G + Len(g) - (b - e + 1)
       /\ b <= e => n = G + Len(g) - 1
       /\ b < e => G = B + (e - b)
       /\ G >= B
       /\ \A q \in Nat : q > G /\ b < e => q > B /\ Len(f) - (n - q) > e
  <2>1. Len(f) \in Nat /\ Len(g) \in Nat /\ b \in Nat /\ e \in Nat
    BY <1>17
  <2>2. Len(f) = Len(g) + e - 1 /\ b <= Len(f)
    BY <1>17
  <2>3. Cut(Len(f), Len(g), b, e, n, B, G)
    BY <1>20, <1>21, <1>22, <2>2 DEF Cut
  <2>4. Left(Len(f), Len(g), b, e, n, B, G)
    BY <1>23, <2>1, <2>3, CutNumbers
  <2> QED  BY <2>4 DEF Left
<1>10. g[Len(g)] = f[Len(f)]
  <2>1. Len(g) \in 2..Len(g) /\ Len(g) + e - 1 = Len(f)
    BY <1>0, <1>1, <1>2
  <2> QED  BY <1>0, <2>1
<1>11. \E c \in DOMAIN g : RowsFrom(g, c, n)
  <2>1. CASE b >= e + 1
    <3> DEFINE c == b - e + 1
    <3>1. c \in DOMAIN g /\ c >= 2 /\ c \in Nat
      BY <1>2, <1>17, <2>1
    <3>2. n = Base(g) + Len(g) - c
      <4>1. n = G + Len(g) - c
        BY <1>24, <2>1
      <4> QED  BY <1>19, <4>1
    <3>3. \A i \in 2..Len(g) : g[i].kind = "row" <=> i > c
      <4>1. \A i \in 2..Len(g) : i + e - 1 > b <=> i > c
        BY SMTT(30), <1>17
      <4> QED  BY SMTT(30), <1>0, <1>5, <4>1
    <3>4. \A i \in DOMAIN g : i = 1 \/ i \in 2..Len(g)
      BY <1>2
    <3>5. \A i \in DOMAIN g : g[i].kind = "row" <=> i > c
      <4> HIDE DEF c
      <4>1. g[1].kind # "row" /\ ~(1 > c)
        BY <1>0, <3>1
      <4> QED  BY <3>3, <3>4, <4>1
    <3> QED  BY <3>1, <3>2, <3>5 DEF RowsFrom
  <2>2. CASE b <= e
    <3>1. 1 \in DOMAIN g
      BY <1>0, <1>2
    <3>2. n = Base(g) + Len(g) - 1
      BY <1>19, <1>24, <2>2
    <3>3. \A i \in 2..Len(g) : g[i].kind = "row" /\ i > 1
      <4>1. \A i \in 2..Len(g) : i + e - 1 > b /\ i > 1
        BY <1>17, <2>2
      <4>2. \A i \in 2..Len(g) : f[i + e - 1].kind = "row"
        BY <1>0, <1>5, <4>1
      <4> QED  BY <1>0, <4>1, <4>2
    <3>4. \A i \in DOMAIN g : i = 1 \/ i \in 2..Len(g)
      BY <1>2
    <3>5. \A i \in DOMAIN g : g[i].kind = "row" <=> i > 1
      BY <1>0, <3>3, <3>4
    <3> QED  BY <3>1, <3>2, <3>5 DEF RowsFrom
  <2> QED  BY <1>0, <1>5, <2>1, <2>2
<1>12. g[1].dropped = g[1].iseq
  <2>1. CASE b >= e
    BY <1>7, <1>8, <2>1
  <2>2. CASE b < e
    <3>1. g[1].dropped = B + (e - b) /\ g[1].iseq = G
      BY <1>7, <1>9, <1>18, <1>19, <2>2
    <3>2. G = B + (e - b)
      BY <1>24, <2>2
    <3> QED  BY <3>1, <3>2
  <2> QED  BY <1>17, <2>1, <2>2
<1>13. ASSUME NEW i \in 2..Len(g), NEW x \in DOMAIN f, x = i + e - 1
       PROVE  /\ g[i] = f[x] /\ g[i].kind # "garbage" /\ g[i].kind # "rotation"
              /\ g[i].kind = "row" => RowAt(g, i, n)
              /\ g[i].kind = "start" => StartAt(g, i)
  <2>1. g[i] = f[x] /\ x \in Nat /\ x >= 2 /\ x > e /\ i \in Nat /\ i >= 2
    BY <1>0, <1>2, <1>13
  <2>2. f[x].kind # "garbage" /\ f[x].kind # "rotation"
    BY <2>1 DEF Whole, Sound, Rotations
  <2>3. ASSUME f[x].kind = "row"  PROVE RowAt(g, i, n)
    <3>1. /\ f[x].iseq = n - (Len(f) - x)
          /\ f[x].prev = IF x = 2 /\ f[1].kind = "rotation" THEN f[1].prev ELSE f[x - 1].hash
      BY <2>3 DEF Whole, RowAt
    <3>2. n - (Len(f) - x) = n - (Len(g) - i)
      BY <1>0, <1>1, <1>2, <1>13
    <3>3. g[i].prev = IF i = 2 /\ g[1].kind = "rotation" THEN g[1].prev ELSE g[i - 1].hash
      <4>1. CASE i = 2
        <5>1. x - 1 = e /\ (x = 2 <=> e = 1)
          BY SMTT(30), <1>0, <1>13, <4>1
        <5> QED  BY <1>0, <2>1, <3>1, <4>1, <5>1
      <4>2. CASE i # 2
        <5>1. i - 1 \in 2..Len(g) /\ i - 1 + e - 1 = x - 1 /\ x # 2
          BY <1>13, <1>17, <4>2
        <5>2. g[i - 1] = f[x - 1]
          BY <1>0, <5>1
        <5> QED  BY <2>1, <3>1, <4>2, <5>1, <5>2
      <4> QED  BY <4>1, <4>2
    <3> QED  BY <2>1, <3>1, <3>2, <3>3 DEF RowAt
  <2>4. ASSUME f[x].kind = "start"  PROVE StartAt(g, i)
    <3>1. StartAt(f, x)
      BY <2>4 DEF Whole
    <3>2. \A j \in (x + 1)..Len(f) : f[j].kind = "row"
      BY <3>1 DEF StartAt
    <3>3. \A j \in (i + 1)..Len(g) : g[j].kind = "row"
      <4>1. \A j \in (i + 1)..Len(g) : j \in 2..Len(g) /\ j + e - 1 \in (x + 1)..Len(f)
        BY SMTT(30), <1>0, <1>1, <1>2, <1>13
      <4> QED  BY <1>0, <3>2, <4>1
    <3>4. g[1].droppedLegacy > 0
      <4>1. g[1].droppedLegacy \in Nat
        <5>1. 1 \in DOMAIN g
          BY <1>0, <1>2
        <5> QED  BY <1>2, <5>1 DEF Line
      <4>2. CASE f[1].kind = "rotation"
        <5>1. f[1].droppedLegacy > 0
          BY <3>1, <4>2 DEF StartAt
        <5>2. g[1].droppedLegacy >= p.droppedLegacy
          BY <1>0
        <5> QED  BY <1>3, <4>1, <4>2, <5>1, <5>2
      <4>3. CASE f[1].kind # "rotation"
        <5>1. x <= b
          BY <1>5, <2>1, <2>4
        <5>2. \A j \in 1..e : j \in DOMAIN f /\ j <= b /\ x \in (j + 1)..Len(f)
          <6>1. x \in Nat /\ x > e /\ x <= Len(f)
            BY <1>2, <2>1
          <6> QED  BY SMTT(30), <1>6, <1>17, <5>1, <6>1
        <5>3. \A j \in 1..e : f[j].kind # "row"
          BY <1>5, <5>2
        <5>4. \A j \in 1..e : f[j].kind # "start"
          <6> SUFFICES ASSUME NEW j \in 1..e, f[j].kind = "start"  PROVE FALSE
            OBVIOUS
          <6>1. StartAt(f, j)
            BY <5>2 DEF Whole
          <6> QED  BY <2>4, <5>2, <6>1 DEF StartAt
        <5>5. \A j \in 1..e : f[j].kind # "rotation" /\ f[j].kind # "garbage"
          BY <4>3, <5>2 DEF Whole, Sound, Rotations
        <5>6. \A j \in 1..e : f[j].kind \in Kinds
          BY <1>2, <5>2 DEF Line
        <5> QED  BY <1>0, <4>3, <5>3, <5>4, <5>5, <5>6 DEF Kinds
      <4> QED  BY <4>2, <4>3
    <3> QED  BY <1>0, <3>3, <3>4 DEF StartAt
  <2> QED  BY <2>1, <2>2, <2>3, <2>4
<1>14. ASSUME NEW i \in DOMAIN g
       PROVE  /\ g[i].kind # "garbage"
              /\ g[i].kind = "row" => RowAt(g, i, n)
              /\ g[i].kind = "start" => StartAt(g, i)
              /\ g[i].kind = "rotation" => Len(g) > 1 /\ g[1].dropped = g[1].iseq
  <2>1. CASE i = 1
    BY SMTT(30), <1>0, <1>2, <1>12, <2>1
  <2>2. CASE i \in 2..Len(g)
    <3>1. i + e - 1 \in DOMAIN f
      BY <1>0, <2>2
    <3> QED  BY <1>13, <2>2, <3>1
  <2> QED  BY <1>2, <2>1, <2>2
<1>15. Whole(g, n)
  <2>1. n > 0 => g[Len(g)].kind = "row"
    BY <1>10 DEF Whole
  <2> QED  BY <1>2, <1>11, <1>14, <2>1 DEF Whole
<1>16. ASSUME NEW r \in [iseq : Nat, hash : Nat], RowKept(f, n, r)
       PROVE  RowKept(g, n, r)
  <2> SUFFICES ASSUME r.iseq > Base(g)
               PROVE  LET i == Len(g) - (n - r.iseq)
                      IN  i \in DOMAIN g /\ g[i].kind = "row" /\ g[i].hash = r.hash
    BY <1>16 DEF RowKept
  <2> DEFINE i == Len(g) - (n - r.iseq)
             x == Len(f) - (n - r.iseq)
  <2>1. r.iseq \in Nat /\ r.iseq <= n
    BY <1>16 DEF RowKept
  <2>2. r.iseq > Base(f)
    <3>1. CASE b >= e
      BY <1>8, <3>1
    <3>2. CASE b < e
      <4>1. r.iseq > G
        BY <1>19
      <4>2. r.iseq > B
        BY <1>24, <2>1, <3>2, <4>1
      <4> QED  BY <1>18, <4>2
    <3> QED  BY <1>17, <3>1, <3>2
  <2>3. x \in DOMAIN f /\ f[x].kind = "row" /\ f[x].hash = r.hash
    BY <1>16, <2>2 DEF RowKept
  <2>4. x > e
    <3>1. CASE b >= e
      <4>1. x > b /\ x \in Nat
        BY <1>2, <1>5, <2>3
      <4> QED  BY <1>0, <1>5, <3>1, <4>1
    <3>2. CASE b < e
      <4>1. r.iseq > G
        BY <1>19
      <4> QED  BY <1>24, <2>1, <3>2, <4>1
    <3> QED  BY <1>17, <3>1, <3>2
  <2>5. i \in 2..Len(g) /\ x = i + e - 1
    BY <1>17, <2>1, <2>4
  <2>6. g[i] = f[x] /\ i \in DOMAIN g
    <3> HIDE DEF i, x
    <3>1. i \in DOMAIN g
      BY <1>2, <2>5
    <3>2. g[i] = f[i + e - 1]
      BY <1>0, <2>5
    <3> QED  BY <2>5, <3>1, <3>2
  <2> QED  BY <2>3, <2>6
<1> QED  BY <1>10, <1>15, <1>16 DEF g

\* The last line of a chain has the number of the last row ever written.
LEMMA LastNumber ==
    ASSUME NEW f \in Seq(Line), NEW n \in Nat, Sound(f), Whole(f, n),
           NEW m \in DOMAIN f, Precedes(f, m, Len(f) + 1)
    PROVE  f[m].iseq = n
<1>1. /\ Len(f) \in Nat /\ DOMAIN f = 1..Len(f) /\ f # <<>>
      /\ m \in Nat /\ m >= 1 /\ m <= Len(f)
  BY LenProperties, EmptySeq
<1>2. PICK b \in DOMAIN f : RowsFrom(f, b, n)
  BY <1>1 DEF Whole
<1>3. /\ b \in Nat /\ b >= 1 /\ b <= Len(f) /\ n = Base(f) + Len(f) - b
      /\ \A i \in DOMAIN f : f[i].kind = "row" <=> i > b
  BY <1>1, <1>2 DEF RowsFrom
<1>4. f[m].kind \in Chained /\ \A k \in (m + 1)..Len(f) : f[k].kind \notin Chained
  BY <1>1 DEF Precedes
<1>5. CASE b < Len(f)
  <2>1. Len(f) \in DOMAIN f /\ f[Len(f)].kind = "row"
    BY <1>1, <1>3, <1>5
  <2>2. m = Len(f)
    <3>1. ~(Len(f) \in (m + 1)..Len(f))
      BY <1>4, <2>1 DEF Chained
    <3> QED  BY <1>1, <3>1
  <2>3. f[Len(f)].iseq = n - (Len(f) - Len(f))
    BY <2>1 DEF Whole, RowAt
  <2> QED  BY <1>1, <2>2, <2>3
<1>6. CASE b = Len(f)
  <2>1. f[m].kind # "row"
    BY <1>1, <1>3, <1>6
  <2>2. Base(f) \in Nat
    <3>1. f[1] \in Line
      BY <1>1, ElementOfSeq
    <3> QED  BY <3>1 DEF Base, Line
  <2>3. n = Base(f)
    BY <1>1, <1>3, <1>6, <2>2
  <2>4. CASE f[m].kind = "start"
    BY <2>3, <2>4 DEF Sound, Starts, Base
  <2>5. CASE f[m].kind = "rotation"
    BY <2>3, <2>5 DEF Sound, Rotations, Base
  <2> QED  BY <1>4, <2>1, <2>4, <2>5 DEF Chained
<1> QED  BY <1>1, <1>3, <1>5, <1>6

LEMMA AppendedWhole ==
    ASSUME NEW f \in Seq(Line), NEW n \in Nat, NEW line \in Line,
           Whole(f, n), f # <<>>,
           line.kind = "row", line.iseq = n + 1, line.prev = f[Len(f)].hash
    PROVE  LET g == Append(f, line)
           IN  /\ Whole(g, n + 1) /\ g[Len(g)] = line
               /\ \A r \in [iseq : Nat, hash : Nat] :
                    RowKept(f, n, r) => RowKept(g, n + 1, r)
<1> DEFINE g == Append(f, line)
           last == Len(f) + 1
<1>1. /\ g \in Seq(Line) /\ Len(f) \in Nat /\ Len(g) = last
      /\ DOMAIN f = 1..Len(f) /\ DOMAIN g = 1..last
      /\ \A i \in DOMAIN f : g[i] = f[i] /\ i \in DOMAIN g
      /\ g[last] = line
      /\ \A i \in DOMAIN g : i \in DOMAIN f \/ i = last
  BY AppendedLine
<1> HIDE DEF g
<1>2. 1 \in DOMAIN f /\ Len(f) >= 1 /\ g # <<>> /\ last \in Nat /\ g[1] = f[1]
      /\ last \in DOMAIN g /\ last \notin DOMAIN f /\ 1 # last
  <2>1. Len(f) >= 1
    BY <1>1, EmptySeq
  <2> QED  BY <1>1, <2>1, EmptySeq
<1>3. Base(g) = Base(f)
  BY <1>2 DEF Base
<1>4. PICK b \in DOMAIN f : RowsFrom(f, b, n)
  BY <1>2 DEF Whole
<1>5. b \in Nat /\ b >= 1 /\ b <= Len(f) /\ n = Base(f) + Len(f) - b
      /\ \A i \in DOMAIN f : f[i].kind = "row" <=> i > b
  BY <1>1, <1>4 DEF RowsFrom
<1>6. Base(f) \in Nat
  <2>1. f[1] \in Line
    BY <1>1, <1>2, ElementOfSeq
  <2> QED  BY <2>1 DEF Base, Line
<1>7. RowsFrom(g, b, n + 1) /\ b \in DOMAIN g
  <2>1. n + 1 = Base(f) + last - b
    BY <1>1, <1>5, <1>6
  <2>2. \A i \in DOMAIN g : g[i].kind = "row" <=> i > b
    BY <1>1, <1>5
  <2> QED  BY <1>1, <1>3, <2>1, <2>2 DEF RowsFrom
<1>8. \A i \in DOMAIN f : \A j \in 1..i : g[j] = f[j]
  BY <1>1
<1>9. ASSUME NEW i \in DOMAIN f
      PROVE  /\ g[i].kind # "garbage"
             /\ g[i].kind = "row" => RowAt(g, i, n + 1)
             /\ g[i].kind = "start" => StartAt(g, i)
             /\ g[i].kind = "rotation" => Len(g) > 1 /\ g[1].dropped = g[1].iseq
  <2>1. g[i] = f[i] /\ g[i].kind # "garbage"
    BY <1>1 DEF Whole
  <2>2. ASSUME f[i].kind = "row"  PROVE RowAt(g, i, n + 1)
    <3>1. RowAt(f, i, n)
      BY <2>2 DEF Whole
    <3>2. n - (Len(f) - i) = n + 1 - (Len(g) - i)
      BY <1>1
    <3>3. i - 1 \in DOMAIN f
      <4>1. i # 1
        BY <1>5, <2>2
      <4> QED  BY <1>1, <4>1
    <3>4. g[i - 1] = f[i - 1]
      BY <1>1, <3>3
    <3>5. /\ f[i].iseq = n - (Len(f) - i)
          /\ f[i].prev = IF i = 2 /\ f[1].kind = "rotation" THEN f[1].prev
                                                            ELSE f[i - 1].hash
      BY <3>1 DEF RowAt
    <3>6. g[i].iseq = n + 1 - (Len(g) - i)
      BY <2>1, <3>2, <3>5
    <3>7. g[i].prev = IF i = 2 /\ g[1].kind = "rotation" THEN g[1].prev
                                                        ELSE g[i - 1].hash
      BY <1>2, <2>1, <3>4, <3>5
    <3> DEFINE N == n + 1
    <3>8. g[i].iseq = N - (Len(g) - i)
      BY SMTT(30), <3>6
    <3> HIDE DEF N
    <3>9. RowAt(g, i, N)
      BY <3>7, <3>8 DEF RowAt
    <3> QED  BY <3>9 DEF N
  <2>3. ASSUME f[i].kind = "start"  PROVE StartAt(g, i)
    <3>1. StartAt(f, i)
      BY <2>3 DEF Whole
    <3>2. \A j \in (i + 1)..Len(g) : j \in (i + 1)..Len(f) \/ j = last
      BY <1>1
    <3>3. \A j \in (i + 1)..Len(g) : g[j].kind = "row"
      <4>1. \A j \in (i + 1)..Len(f) : j \in DOMAIN f
        BY <1>1
      <4>2. \A j \in (i + 1)..Len(f) : g[j].kind = "row"
        BY <1>1, <3>1, <4>1 DEF StartAt
      <4> QED  BY <1>1, <3>2, <4>2
    <3>4. [j \in 1..(i - 1) |-> g[j].hash] = [j \in 1..(i - 1) |-> f[j].hash]
      <4>1. \A j \in 1..(i - 1) : g[j] = f[j]
        BY <1>1
      <4> QED  BY <4>1
    <3> QED  BY <1>2, <2>1, <3>1, <3>3, <3>4 DEF StartAt
  <2>4. ASSUME f[i].kind = "rotation"  PROVE Len(g) > 1 /\ g[1].dropped = g[1].iseq
    BY <1>1, <1>2, <2>4 DEF Whole
  <2> QED  BY <2>1, <2>2, <2>3, <2>4
<1>10. RowAt(g, last, n + 1)
  <2>1. n + 1 = n + 1 - (Len(g) - last)
    BY <1>1
  <2>2. g[last - 1] = f[Len(f)]
    BY <1>1, <1>2
  <2>3. ~(last = 2 /\ g[1].kind = "rotation")
    <3>1. g[1].kind = "rotation" => Len(f) > 1
      BY <1>2 DEF Whole
    <3> QED  BY <1>1, <3>1
  <2> QED  BY <1>1, <2>1, <2>2, <2>3 DEF RowAt
<1>11. Whole(g, n + 1)
  BY <1>1, <1>2, <1>7, <1>9, <1>10 DEF Whole
<1>12. ASSUME NEW r \in [iseq : Nat, hash : Nat], RowKept(f, n, r)
       PROVE  RowKept(g, n + 1, r)
  <2>1. r.iseq \in 1..(n + 1) /\ Len(g) - (n + 1 - r.iseq) = Len(f) - (n - r.iseq)
    BY SMTT(30), <1>1, <1>12 DEF RowKept
  <2> QED  BY <1>1, <1>3, <1>12, <2>1 DEF RowKept
<1> QED  BY <1>1, <1>11, <1>12 DEF g

LEMMA StartedWhole ==
    ASSUME NEW f \in Seq(Line), NEW n \in Nat, NEW line \in Line,
           Whole(f, n), Unchained(f),
           line.kind = "start", line.covers = [i \in DOMAIN f |-> f[i].hash]
    PROVE  n = 0 /\ Whole(Append(f, line), 0)
<1> DEFINE g == Append(f, line)
           last == Len(f) + 1
<1>1. /\ g \in Seq(Line) /\ Len(f) \in Nat /\ Len(g) = last
      /\ DOMAIN f = 1..Len(f) /\ DOMAIN g = 1..last
      /\ \A i \in DOMAIN f : g[i] = f[i] /\ i \in DOMAIN g
      /\ g[last] = line
      /\ \A i \in DOMAIN g : i \in DOMAIN f \/ i = last
  BY AppendedLine
<1> HIDE DEF g
<1>2. g # <<>> /\ last \in DOMAIN g /\ last \in Nat
  BY <1>1, EmptySeq
<1>3. \A i \in DOMAIN f : f[i].kind \notin Chained
  BY DEF Unchained, Indices
<1>4. n = 0
  <2>1. n > 0 => Len(f) \in DOMAIN f /\ f[Len(f)].kind = "row"
    BY <1>1, EmptySeq DEF Whole
  <2> QED  BY <1>3, <2>1 DEF Chained
<1>5. \A i \in DOMAIN g : g[i].kind # "row" /\ g[i].kind # "rotation"
  BY <1>1, <1>3 DEF Chained
<1>6. g[1].kind # "rotation"
  BY <1>1, <1>5
<1>7. RowsFrom(g, last, 0)
  <2>1. \A i \in DOMAIN g : g[i].kind = "row" <=> i > last
    BY <1>1, <1>5
  <2> QED  BY <1>1, <1>6, <2>1 DEF RowsFrom, Base
<1>8. StartAt(g, last)
  <2>1. \A j \in (last + 1)..Len(g) : g[j].kind = "row"
    BY <1>1
  <2>2. [j \in 1..(last - 1) |-> g[j].hash] = [i \in DOMAIN f |-> f[i].hash]
    <3>1. 1..(last - 1) = DOMAIN f
      BY <1>1
    <3> QED  BY <1>1, <3>1
  <2> QED  BY <1>1, <1>6, <2>1, <2>2 DEF StartAt
<1>9. \A i \in DOMAIN f : g[i].kind # "garbage" /\ g[i].kind # "start"
  BY <1>1, <1>3 DEF Whole, Chained
<1>10. Whole(g, 0)
  BY <1>1, <1>2, <1>5, <1>7, <1>8, <1>9 DEF Whole
<1> QED  BY <1>4, <1>10 DEF g

(***************************************************************************)
(* The inductive invariant of a file of whole lines.                       *)
(***************************************************************************)

LEMMA InitUntorn == Init => UntornInv
<1> SUFFICES ASSUME Init  PROVE Untorn
  BY DEF UntornInv
<1>1. PICK n \in Nat : file = [i \in 1..n |-> Plain("legacy", i)]
  BY LedgerAssumption DEF Init
<1>2. \A i \in 1..n : Plain("legacy", i) \in Line /\ Plain("legacy", i).kind = "legacy"
  BY PlainTyped DEF Kinds
<1>3. DOMAIN file = 1..n /\ \A i \in DOMAIN file : file[i].kind = "legacy"
  BY <1>1, <1>2
<1>4. file \in Seq(Line) /\ Len(file) = n
  <2>1. file \in [1..n -> Line]
    BY <1>1, <1>2
  <2>2. file \in Seq(Line)
    BY <2>1, SeqDef
  <2> QED  BY <1>3, <2>2, LenProperties
<1>5. landed = 0 /\ acked = {} /\ head = NoHead
  BY DEF Init
<1>6. file # <<>> => \E b \in DOMAIN file : RowsFrom(file, b, 0)
  <2> SUFFICES ASSUME file # <<>>  PROVE n \in DOMAIN file /\ RowsFrom(file, n, 0)
    OBVIOUS
  <2>1. n \in 1..n /\ 1 \in 1..n
    BY <1>4, EmptySeq
  <2>2. Base(file) = 0
    BY <1>3, <2>1 DEF Base
  <2>3. \A i \in DOMAIN file : file[i].kind = "row" <=> i > n
    BY <1>3
  <2> QED  BY <1>3, <1>4, <2>1, <2>2, <2>3 DEF RowsFrom
<1>7. Whole(file, landed)
  BY <1>3, <1>5, <1>6 DEF Whole
<1>8. \A w \in Writer : AtWork(w)
  BY DEF AtWork, Init
<1> QED  BY <1>3, <1>5, <1>7, <1>8 DEF Untorn, HeadOf

\* Where no line was torn, the last step tore none.
LEMMA NoTear ==
    ASSUME Inv, [Next]_vars, tears' = 0
    PROVE  /\ tears = 0
           /\ \A w \in Writer : Fail(w) \/ Crash(w) => file' = file /\ torn' = torn
<1>1. ASSUME NEW w \in Writer, Fail(w) \/ Crash(w)
      PROVE  tears = 0 /\ file' = file /\ torn' = torn
  <2>1. Interrupted(w)
    BY <1>1 DEF Fail, Crash
  <2> QED  BY <2>1, InterruptedSteps
<1>2. tears = 0
  <2>1. ASSUME NEW w \in Writer, Acquire(w) \/ Skip(w) \/ Rotate(w) \/ WithinCap(w)
          \/ Terminate(w) \/ AppendStart(w) \/ Stamp(w) \/ AppendRow(w) \/ WriteHead(w)
          \/ Finish(w) \/ Refused(w) \/ RecordWriteFailure(w)
        PROVE  tears' = tears
    BY <2>1 DEF Acquire, Skip, Rotate, WithinCap, Terminate, AppendStart, Stamp,
                AppendRow, WriteHead, Finish, Refused, RecordWriteFailure, history
  <2>2. CASE UNCHANGED vars
    BY <2>2 DEF vars, history
  <2> QED  BY <1>1, <2>1, <2>2 DEF Next
<1> QED  BY <1>1, <1>2

LEMMA UntornStep ==
    ASSUME Inv, Inv', UntornInv, [Next]_vars
    PROVE  UntornInv'
<1> SUFFICES ASSUME tears' = 0  PROVE Untorn'
  BY DEF UntornInv
<1>1. /\ tears \in Nat /\ landed \in Nat /\ file \in Seq(Line) /\ nextHash \in Nat
      /\ head \in [iseq : Nat, hash : Nat] /\ acked \subseteq [iseq : Nat, hash : Nat]
      /\ pc \in [Writer -> Places] /\ stamped \in [Writer -> Line]
  BY DEF Inv, TypeOK
<1>2. Exclusive /\ Sound(file) /\ Stamps
  BY DEF Inv, Chain
<1>3. tears = 0 /\ \A w \in Writer : Fail(w) \/ Crash(w) => file' = file /\ torn' = torn
  BY NoTear
<1>4. tears = 0
  BY <1>3
<1>5. /\ torn => \A i \in DOMAIN file : file[i].kind = "legacy"
      /\ Whole(file, landed)
      /\ HeadOf(file, landed, head)
      /\ \A r \in acked : RowKept(file, landed, r)
      /\ \A w \in Writer : AtWork(w)
  BY <1>4 DEF UntornInv, Untorn
<1>6. ASSUME file' = file, torn' => torn, landed' = landed, head' = head, acked' = acked,
             \A v \in Writer : AtWork(v)'
      PROVE  Untorn'
  BY <1>5, <1>6 DEF Untorn
<1>8. ASSUME NEW w \in Writer, lock = w, NEW v \in Writer, v # w  PROVE pc[v] \notin Inside
  BY <1>2, <1>8 DEF Exclusive
<1>9. ASSUME NEW w \in Writer, lock = w, NEW place \in Places, AtWork(w)',
             pc' = [pc EXCEPT ![w] = place]
      PROVE  \A v \in Writer : AtWork(v)'
  <2> SUFFICES ASSUME NEW v \in Writer, v # w  PROVE AtWork(v)'
    BY <1>9
  <2>1. pc'[v] \notin Inside
    BY <1>1, <1>8, <1>9
  <2> QED  BY <2>1 DEF AtWork, Inside
<1>10. ASSUME NEW w \in Writer, pc[w] \in Inside  PROVE lock = w
  BY <1>2, <1>10 DEF Exclusive
<1>11. ASSUME NEW w \in Writer, Acquire(w) \/ Skip(w) \/ WithinCap(w) \/ Terminate(w)
                  \/ Refused(w) \/ RecordWriteFailure(w) \/ Fail(w) \/ Crash(w)
       PROVE  Untorn'
  <2>1. /\ file' = file /\ landed' = landed /\ head' = head /\ acked' = acked
        /\ stamped' = stamped
        /\ \E place \in Places \ {"stamped", "appended", "headed"} :
             pc' = [pc EXCEPT ![w] = place]
    <3>1. Terminate(w) => pc' = [pc EXCEPT ![w] = "ready"]
      BY <1>1 DEF Terminate
    <3>2. Fail(w) \/ Crash(w) => file' = file
      BY <1>3
    <3> QED  BY <1>11, <3>1, <3>2 DEF Acquire, Skip, WithinCap, Terminate, Refused,
                  RecordWriteFailure, Fail, Crash, Goto, Places, ledger, history
  <2>2. torn' => torn
    <3>1. Fail(w) \/ Crash(w) => torn' = torn
      BY <1>3
    <3> QED  BY <1>11, <3>1 DEF Acquire, Skip, WithinCap, Terminate, Refused,
                  RecordWriteFailure, ledger
  <2>3. \A v \in Writer : AtWork(v)'
    <3>1. PICK place \in Places \ {"stamped", "appended", "headed"} :
             pc' = [pc EXCEPT ![w] = place]
      BY <2>1
    <3> SUFFICES ASSUME NEW v \in Writer  PROVE AtWork(v)'
      OBVIOUS
    <3>2. pc'[v] = place \/ pc'[v] = pc[v]
      BY <1>1, <3>1
    <3> QED  BY <1>5, <2>1, <3>1, <3>2 DEF AtWork
  <2> QED  BY <1>6, <2>1, <2>2, <2>3
<1>12. ASSUME NEW w \in Writer, Stamp(w)  PROVE Untorn'
  <2>1. /\ stamped' = [stamped EXCEPT ![w] = NextRow] /\ ~Unchained(file)
        /\ file' = file /\ landed' = landed /\ head' = head /\ acked' = acked
        /\ pc[w] \in Inside /\ pc' = [pc EXCEPT ![w] = "stamped"]
    BY <1>12 DEF Stamp, NextRow, Goto, ledger, history, Inside
  <2>2. torn' = torn
    BY <1>12 DEF Stamp, ledger
  <2>3. /\ NextRow.prev = Prev(file)
        /\ \E m \in DOMAIN file : /\ Precedes(file, m, Len(file) + 1)
                                  /\ NextRow.iseq = file[m].iseq + 1
    BY <2>1, NextRowFits
  <2>4. NextRow.iseq = landed + 1
    BY <1>1, <1>2, <1>5, <2>3, LastNumber
  <2>5. AtWork(w)'
    BY <1>1, <2>1, <2>3, <2>4 DEF AtWork, Prev
  <2>6. \A v \in Writer : AtWork(v)'
    BY <1>9, <1>10, <2>1, <2>5 DEF Places
  <2> QED  BY <1>6, <2>1, <2>2, <2>6
<1>13. ASSUME NEW w \in Writer, Rotate(w)  PROVE Untorn'
  <2>1. /\ file' = Rotated(file, nextHash) /\ Len(file) > Cap
        /\ landed' = landed /\ head' = head /\ acked' = acked
        /\ pc[w] \in Inside /\ pc' = [pc EXCEPT ![w] = "ready"]
    BY <1>13 DEF Rotate, Goto, history, Inside
  <2>2. torn' = FALSE
    BY <1>13 DEF Rotate
  <2>3. Len(file) > Target
    BY <1>1, <2>1, LedgerAssumption, LenProperties
  <2>4. /\ Whole(file', landed) /\ file'[Len(file')] = file[Len(file)]
        /\ \A r \in [iseq : Nat, hash : Nat] :
             RowKept(file, landed, r) => RowKept(file', landed, r)
    BY <1>1, <1>2, <1>5, <2>1, <2>3, RotatedWhole
  <2>5. HeadOf(file', landed, head)
    BY <1>5, <2>4 DEF HeadOf
  <2>6. \A r \in acked : RowKept(file', landed, r)
    BY <1>1, <1>5, <2>4
  <2>7. AtWork(w)'
    BY <1>1, <2>1 DEF AtWork
  <2>8. \A v \in Writer : AtWork(v)'
    BY <1>9, <1>10, <2>1, <2>7 DEF Places
  <2> QED  BY <2>1, <2>2, <2>4, <2>5, <2>6, <2>8 DEF Untorn
<1>14. ASSUME NEW w \in Writer, AppendStart(w)  PROVE Untorn'
  <2>1. /\ file' = Append(file, StartMarker) /\ Unchained(file)
        /\ landed' = landed /\ head' = head /\ acked' = acked
        /\ pc[w] \in Inside /\ pc' = [pc EXCEPT ![w] = "started"]
    BY <1>14 DEF AppendStart, Goto, history, Inside
  <2>2. ~torn'
    BY <1>14 DEF AppendStart
  <2>3. landed = 0 /\ Whole(file', 0)
    <3>1. /\ StartMarker \in Line /\ StartMarker.kind = "start"
          /\ StartMarker.covers = [i \in DOMAIN file |-> file[i].hash]
      BY StartMarkerTyped DEF Inv
    <3> QED  BY SMTT(30), <1>1, <1>5, <2>1, <3>1, StartedWhole
  <2>4. HeadOf(file', landed, head)
    BY <1>5, <2>3 DEF HeadOf
  <2>5. acked = {}
    BY <1>5, <2>3 DEF RowKept
  <2>6. AtWork(w)'
    BY <1>1, <2>1 DEF AtWork
  <2>7. \A v \in Writer : AtWork(v)'
    BY <1>9, <1>10, <2>1, <2>6 DEF Places
  <2> QED  BY <2>1, <2>2, <2>3, <2>4, <2>5, <2>7 DEF Untorn
<1>15. ASSUME NEW w \in Writer, AppendRow(w)  PROVE Untorn'
  <2>1. /\ file' = Glue(stamped[w]) /\ landed' = landed + 1
        /\ head' = head /\ acked' = acked /\ stamped' = stamped
        /\ pc[w] = "stamped" /\ pc' = [pc EXCEPT ![w] = "appended"]
    BY <1>15 DEF AppendRow, Goto
  <2>2. torn' = FALSE
    BY <1>15 DEF AppendRow
  <2>3. Fits(file, stamped[w]) /\ stamped[w].kind = "row" /\ stamped[w] \in Line
    BY <1>1, <1>2, <2>1 DEF Stamps
  <2>4. PICK m \in DOMAIN file : file[m].kind \in Chained
    BY <2>3 DEF Fits, Precedes
  <2>5. ~torn
    BY <1>5, <2>4 DEF Chained
  <2>6. file' = Append(file, stamped[w])
    BY <2>1, <2>5 DEF Glue
  <2>7. file # <<>> /\ stamped[w].iseq = landed + 1 /\ stamped[w].prev = file[Len(file)].hash
    <3>1. file # <<>>
      BY <1>1, <2>4, LenProperties, EmptySeq
    <3> QED  BY <1>5, <2>1, <3>1 DEF AtWork, Prev
  <2>8. /\ Whole(file', landed + 1) /\ file'[Len(file')] = stamped[w]
        /\ \A r \in [iseq : Nat, hash : Nat] :
             RowKept(file, landed, r) => RowKept(file', landed + 1, r)
    BY <1>1, <1>5, <2>3, <2>6, <2>7, AppendedWhole
  <2>9. HeadOf(file', landed + 1, head) /\ head.iseq < landed + 1
    BY <1>1, <1>5 DEF HeadOf, NoHead
  <2>10. \A r \in acked : RowKept(file', landed + 1, r)
    BY <1>1, <1>5, <2>8
  <2>11. AtWork(w)'
    <3>1. pc'[w] = "appended" /\ landed + 1 > 0
      BY <1>1, <2>1
    <3> QED  BY <2>1, <2>7, <2>8, <2>9, <3>1 DEF AtWork
  <2>12. \A v \in Writer : AtWork(v)'
    BY <1>9, <1>10, <2>1, <2>11 DEF Places, Inside
  <2> QED  BY <2>1, <2>2, <2>8, <2>9, <2>10, <2>12 DEF Untorn
<1>16. ASSUME NEW w \in Writer, WriteHead(w)  PROVE Untorn'
  <2>1. /\ head' = [iseq |-> stamped[w].iseq, hash |-> stamped[w].hash]
        /\ file' = file /\ landed' = landed /\ acked' = acked /\ stamped' = stamped
        /\ pc[w] = "appended" /\ pc' = [pc EXCEPT ![w] = "headed"]
    BY <1>16 DEF WriteHead, Goto, history
  <2>2. torn' = torn
    BY <1>16 DEF WriteHead
  <2>3. landed > 0 /\ stamped[w].iseq = landed /\ file[Len(file)] = stamped[w]
    BY <1>5, <2>1 DEF AtWork
  <2>4. HeadOf(file, landed, head')
    BY <1>1, <2>1, <2>3 DEF HeadOf
  <2>5. AtWork(w)'
    BY <1>1, <2>1, <2>3 DEF AtWork
  <2>6. \A v \in Writer : AtWork(v)'
    BY <1>9, <1>10, <2>1, <2>5 DEF Places, Inside
  <2> QED  BY <1>5, <2>1, <2>2, <2>4, <2>6 DEF Untorn
<1>17. ASSUME NEW w \in Writer, Finish(w)  PROVE Untorn'
  <2>1. /\ acked' = acked \cup {[iseq |-> stamped[w].iseq, hash |-> stamped[w].hash]}
        /\ file' = file /\ landed' = landed /\ head' = head /\ stamped' = stamped
        /\ pc[w] = "headed" /\ pc' = [pc EXCEPT ![w] = "idle"]
    BY <1>17 DEF Finish, Goto, ledger
  <2>2. torn' = torn
    BY <1>17 DEF Finish, ledger
  <2>3. landed > 0 /\ stamped[w].iseq = landed /\ file[Len(file)] = stamped[w]
    BY <1>5, <2>1 DEF AtWork
  <2>4. RowKept(file, landed, [iseq |-> stamped[w].iseq, hash |-> stamped[w].hash])
    <3>1. file # <<>> /\ file[Len(file)].kind = "row"
      BY <1>5, <2>3 DEF Whole
    <3>2. Len(file) \in DOMAIN file /\ Len(file) - (landed - landed) = Len(file)
      BY <1>1, <3>1, LenProperties, EmptySeq
    <3>3. landed \in 1..landed
      BY <1>1, <2>3
    <3> QED  BY <2>3, <3>1, <3>2, <3>3 DEF RowKept
  <2>5. AtWork(w)'
    BY <1>1, <2>1 DEF AtWork
  <2>6. \A v \in Writer : AtWork(v)'
    BY <1>9, <1>10, <2>1, <2>5 DEF Places, Inside
  <2> QED  BY <1>5, <2>1, <2>2, <2>4, <2>6 DEF Untorn
<1>18. CASE UNCHANGED vars
  <2>1. /\ file' = file /\ landed' = landed /\ head' = head /\ acked' = acked
        /\ stamped' = stamped /\ pc' = pc
    BY <1>18 DEF vars, ledger, history
  <2>2. torn' = torn
    BY <1>18 DEF vars, ledger
  <2>3. \A v \in Writer : AtWork(v)'
    BY <1>5, <2>1 DEF AtWork
  <2> QED  BY <1>6, <2>1, <2>2, <2>3
<1> QED  BY <1>11, <1>12, <1>13, <1>14, <1>15, <1>16, <1>17, <1>18 DEF Next

\* As long as every line that reached the file reached it whole, the file is
\* what its rows say it is.
THEOREM UntornInvariant == Spec => []UntornInv
<1>1. Inv /\ UntornInv /\ [Next]_vars => (Inv /\ UntornInv)'
  BY InvStep, UntornStep
<1>2. Init => Inv /\ UntornInv
  BY InitInv, InitUntorn
<1> QED  BY <1>1, <1>2, PTL DEF Spec

(***************************************************************************)
(* The properties.                                                         *)
(***************************************************************************)

\* Rows in the file and rows that rotations dropped add up to the rows ever
\* written, whatever writers are killed or fail, if none left half a line.
THEOREM LedgerRowsAccounted == Spec => []RowsAccounted
<1>1. Inv /\ UntornInv => RowsAccounted
  <2> SUFFICES ASSUME Inv, UntornInv, tears = 0, file # <<>>,
                      NEW dropped,
                      dropped = IF file[1].kind = "rotation" THEN file[1].dropped ELSE 0,
                      NEW rows, rows = Indices(file, {"row"})
               PROVE  /\ Cardinality(rows) + dropped = landed
                      /\ rows # {} => file[Latest(rows)].iseq = landed
    BY DEF RowsAccounted
  <2>1. Whole(file, landed) /\ landed \in Nat /\ file \in Seq(Line)
    BY DEF UntornInv, Untorn, Inv, TypeOK
  <2>2. /\ Len(file) \in Nat /\ DOMAIN file = 1..Len(file)
        /\ \A i \in DOMAIN file : file[i] \in Line
        /\ 1 \in DOMAIN file
    BY <2>1, LenProperties, ElementOfSeq, EmptySeq
  <2>3. PICK b \in DOMAIN file : RowsFrom(file, b, landed)
    BY <2>1 DEF Whole
  <2>4. b \in Nat /\ b >= 1 /\ b <= Len(file) /\ landed = Base(file) + Len(file) - b
        /\ \A i \in DOMAIN file : file[i].kind = "row" <=> i > b
    BY <2>2, <2>3 DEF RowsFrom
  <2>5. dropped = Base(file) /\ Base(file) \in Nat
    BY <2>1, <2>2 DEF Whole, Base, Line
  <2>6. rows = (b + 1)..Len(file)
    <3>1. rows = {i \in DOMAIN file : i > b}
      BY <2>4 DEF Indices
    <3>2. {i \in 1..Len(file) : i > b} = (b + 1)..Len(file)
      BY <2>2, <2>4
    <3> QED  BY <2>2, <3>1, <3>2
  <2>7. Cardinality(rows) = Len(file) - b
    <3>1. Cardinality((b + 1)..Len(file)) =
             IF b + 1 > Len(file) THEN 0 ELSE Len(file) - (b + 1) + 1
      <4>1. b + 1 \in Int /\ Len(file) \in Int
        BY <2>2, <2>4
      <4> QED  BY <4>1, FS_Interval
    <3> QED  BY <2>2, <2>4, <2>6, <3>1
  <2>8. ASSUME rows # {}  PROVE file[Latest(rows)].iseq = landed
    <3>1. Len(file) \in rows /\ rows \in SUBSET (1..Len(file))
          /\ \A j \in rows : j <= Len(file)
      BY <2>2, <2>4, <2>6, <2>8
    <3>2. Latest(rows) = Len(file)
      BY <2>2, <3>1, LatestUnique
    <3>3. file[Len(file)].iseq = landed - (Len(file) - Len(file))
      BY <2>1, <2>2, <3>1 DEF Whole, RowAt, Indices
    <3> QED  BY <2>1, <2>2, <3>2, <3>3
  <2> QED  BY <2>2, <2>4, <2>5, <2>7, <2>8
<1> QED  BY LedgerInvariant, UntornInvariant, <1>1, PTL

\* A row whose append returned stays in the file until a rotation drops it.
THEOREM LedgerAckedRowsKept == Spec => []AckedRowsKept
<1>1. Inv /\ UntornInv => AckedRowsKept
  <2> SUFFICES ASSUME Inv, UntornInv, tears = 0, NEW row \in acked  PROVE Kept(row)
    BY DEF AckedRowsKept
  <2>1. Whole(file, landed) /\ RowKept(file, landed, row) /\ landed \in Nat
        /\ file \in Seq(Line) /\ row \in [iseq : Nat, hash : Nat]
    BY DEF UntornInv, Untorn, Inv, TypeOK
  <2>2. CASE row.iseq > Base(file)
    BY <2>1, <2>2 DEF RowKept, Kept, Indices
  <2>3. CASE ~(row.iseq > Base(file))
    <3>1. row.iseq \in Nat /\ row.iseq >= 1 /\ landed > 0
      BY <2>1 DEF RowKept
    <3>2. file # <<>>
      BY <2>1, <3>1 DEF Whole
    <3>3. file[1].kind = "rotation" /\ Base(file) = file[1].iseq
      BY <2>3, <3>1 DEF Base
    <3>4. file[1].iseq \in Nat
      <4>1. 1 \in 1..Len(file)
        BY <2>1, <3>2, EmptySeq
      <4>2. file[1] \in Line
        BY <2>1, <4>1, ElementOfSeq
      <4> QED  BY <4>2 DEF Line
    <3>5. row.iseq <= file[1].iseq
      BY <2>3, <3>1, <3>3, <3>4
    <3> QED  BY <3>2, <3>3, <3>5 DEF Kept
  <2> QED  BY <2>2, <2>3
<1> QED  BY LedgerInvariant, UntornInvariant, <1>1, PTL

\* The head sidecar only moves to later rows.
THEOREM LedgerHeadAdvances == Spec => HeadAdvances
<1>1. Inv /\ UntornInv /\ [Next]_vars =>
        [tears = 0 => head' = head \/ head'.iseq > head.iseq]_vars
  <2> SUFFICES ASSUME Inv, UntornInv, Next, tears = 0
               PROVE  head' = head \/ head'.iseq > head.iseq
    OBVIOUS
  <2>1. ASSUME NEW w \in Writer, WriteHead(w)  PROVE head'.iseq > head.iseq
    <3>1. /\ head.iseq < landed /\ stamped[w].iseq = landed
          /\ head \in [iseq : Nat, hash : Nat] /\ landed \in Nat
      BY <2>1 DEF WriteHead, UntornInv, Untorn, AtWork, Inv, TypeOK
    <3>2. head'.iseq = stamped[w].iseq
      BY <2>1 DEF WriteHead
    <3> QED  BY <3>1, <3>2
  <2>2. ASSUME NEW w \in Writer, Acquire(w) \/ Skip(w) \/ Rotate(w) \/ WithinCap(w)
          \/ Terminate(w) \/ AppendStart(w) \/ Stamp(w) \/ AppendRow(w) \/ Finish(w)
          \/ Fail(w) \/ Refused(w) \/ RecordWriteFailure(w) \/ Crash(w)
        PROVE  head' = head
    BY <2>2 DEF Acquire, Skip, Rotate, WithinCap, Terminate, AppendStart, Stamp,
                AppendRow, Finish, Fail, Refused, RecordWriteFailure, Crash, ledger
  <2> QED  BY <2>1, <2>2 DEF Next
<1> QED  BY LedgerInvariant, UntornInvariant, <1>1, PTL DEF Spec, HeadAdvances

\* The reader expects a row to follow the line before it, and that line has the
\* number before its own.
LEMMA BeforeRow ==
    ASSUME NEW f \in Seq(Line), NEW n \in Nat, Sound(f), Whole(f, n), ~LegacySplit(f),
           NEW i \in DOMAIN f, f[i].kind = "row"
    PROVE  /\ i - 1 \in DOMAIN f /\ f[i].iseq = f[i - 1].iseq + 1
           /\ f[i - 1].kind = "row" \/ Opens(f, i - 1)
           /\ f[i - 1].kind = "rotation" => i = 2
<1>1. /\ Len(f) \in Nat /\ DOMAIN f = 1..Len(f)
      /\ \A j \in DOMAIN f : f[j] \in Line
  BY LenProperties, ElementOfSeq
<1>2. PICK m \in 1..(i - 1) : Precedes(f, m, i) /\ f[i].iseq = f[m].iseq + 1
  BY DEF Sound, Numbered
<1>3. m \in DOMAIN f /\ i - 1 \in DOMAIN f /\ f # <<>>
  BY <1>1, <1>2
<1>4. PICK b \in DOMAIN f : RowsFrom(f, b, n)
  BY <1>3 DEF Whole
<1>5. \A j \in DOMAIN f : f[j].kind = "row" <=> j > b
  BY <1>4 DEF RowsFrom
<1>6. f[i - 1].kind \in Chained
  <2> SUFFICES ASSUME f[i - 1].kind = "legacy"  PROVE FALSE
    BY <1>1, <1>3 DEF Whole, Line, Kinds, Chained
  <2>1. m # i - 1 /\ m < i - 1 /\ f[m].kind \in Chained
    BY <1>1, <1>2 DEF Precedes, Chained
  <2>2. CASE f[m].kind = "row"
    BY <1>1, <1>3, <1>5, <2>1, <2>2
  <2>3. CASE f[m].kind = "start"
    <3>1. StartAt(f, m)
      BY <1>3, <2>3 DEF Whole
    <3>2. i - 1 \in (m + 1)..Len(f)
      BY <1>1, <1>3, <2>1
    <3> QED  BY <3>1, <3>2 DEF StartAt
  <2>4. CASE f[m].kind = "rotation"
    <3>1. m = 1
      BY <1>3, <2>4 DEF Sound, Rotations
    <3> QED  BY <1>3, <2>4, <3>1 DEF LegacySplit, Indices
  <2> QED  BY <2>1, <2>2, <2>3, <2>4 DEF Chained
<1>7. m = i - 1
  <2>1. ~(i - 1 \in (m + 1)..(i - 1))
    BY <1>2, <1>6 DEF Precedes
  <2> QED  BY <1>1, <1>2, <2>1
<1>8. f[i - 1].kind = "rotation" => i - 1 = 1
  BY <1>3 DEF Sound, Rotations
<1> QED  BY <1>1, <1>2, <1>3, <1>6, <1>7, <1>8 DEF Chained, Opens

\* The reader finds no break at any moment, whatever writers are killed or fail
\* between two operations; only a head sidecar never written can be missing.
THEOREM LedgerChainVerifies == Spec => []ChainVerifies
<1>1. Inv /\ UntornInv => ChainVerifies
  <2> DEFINE f == file
             n == landed
  <2> SUFFICES ASSUME Inv, UntornInv, tears = 0, ~LegacySplit(f)
               PROVE  /\ Breaks(f) = {}
                      /\ ~PrefixMismatch(f)
                      /\ HeadState(f, head) \notin {"truncated", "mismatch"}
    BY DEF ChainVerifies
  <2>1. /\ Whole(f, n) /\ HeadOf(f, n, head) /\ n \in Nat /\ f \in Seq(Line) /\ Sound(f)
        /\ head \in [iseq : Nat, hash : Nat]
    BY DEF UntornInv, Untorn, Inv, TypeOK, Chain
  <2>2. ~LegacySplit(f)
    OBVIOUS
  <2> HIDE DEF f, n
  <2>3. /\ Len(f) \in Nat /\ DOMAIN f = 1..Len(f)
    BY <2>1, LenProperties
  <2>4. ASSUME NEW i \in DOMAIN f, f[i].kind = "row"
        PROVE  ExpectedPrev(f, i) = f[i].prev /\ ExpectedIseq(f, i) = f[i].iseq
    <3> DEFINE S == {j \in 1..(i - 1) : f[j].kind = "row" \/ Opens(f, j)}
    <3>1. /\ i - 1 \in DOMAIN f /\ f[i].iseq = f[i - 1].iseq + 1
          /\ f[i - 1].kind = "row" \/ Opens(f, i - 1)
          /\ f[i - 1].kind = "rotation" => i = 2
      BY <2>1, <2>2, <2>4, BeforeRow
    <3>2. i - 1 \in S /\ S \in SUBSET (1..(i - 1)) /\ i - 1 \in Nat
          /\ \A j \in S : j <= i - 1
      BY <2>3, <3>1
    <3>3. Latest(S) = i - 1
      <4> HIDE DEF S
      <4> QED  BY <3>2, LatestUnique
    <3>4. Anchor(f, i) = f[i - 1]
      BY <3>3 DEF Anchor
    <3>5. f[i].prev = IF i = 2 /\ f[1].kind = "rotation" THEN f[1].prev ELSE f[i - 1].hash
      BY <2>1, <2>4 DEF Whole, RowAt
    <3>6. f[i].prev = IF f[i - 1].kind = "rotation" THEN f[i - 1].prev ELSE f[i - 1].hash
      BY <2>3, <3>1, <3>5
    <3> QED  BY <3>1, <3>4, <3>6 DEF ExpectedPrev, ExpectedIseq
  <2>5. Breaks(f) = {}
    <3>1. {i \in DOMAIN f : \E j \in 1..(i - 1) :
              f[i].kind = "rotation" \/ (f[i].kind = "start" /\ f[j].kind = "start")} = {}
      <4> SUFFICES ASSUME NEW i \in DOMAIN f, NEW j \in 1..(i - 1),
                          f[i].kind = "rotation" \/ (f[i].kind = "start" /\ f[j].kind = "start")
                   PROVE  FALSE
        OBVIOUS
      <4>1. f[i].kind # "rotation"
        BY <2>1, <2>3 DEF Sound, Rotations
      <4>2. j \in DOMAIN f /\ i \in (j + 1)..Len(f)
        BY <2>3
      <4> QED  BY <2>1, <4>1, <4>2 DEF Whole, StartAt
    <3>2. {i \in DOMAIN f : f[i].kind = "garbage" /\ InChain(f, i)} = {}
      BY <2>1 DEF Whole
    <3>3. {i \in DOMAIN f : f[i].kind = "legacy" /\ InChain(f, i)} = {}
      <4> SUFFICES ASSUME NEW i \in DOMAIN f, f[i].kind = "legacy", NEW j \in 1..i, Opens(f, j)
                   PROVE  FALSE
        BY DEF InChain
      <4>1. j \in DOMAIN f /\ f # <<>>
        BY <2>3
      <4>2. CASE f[j].kind = "start"
        <5>1. j # i
          BY <4>2
        <5>2. i \in (j + 1)..Len(f)
          BY <2>3, <5>1
        <5> QED  BY <2>1, <4>1, <4>2, <5>2 DEF Whole, StartAt
      <4>3. CASE j = 1 /\ f[j].kind = "rotation"
        BY <2>2, <4>1, <4>3 DEF LegacySplit, Indices
      <4> QED  BY <4>2, <4>3 DEF Opens
    <3>4. \A i \in DOMAIN f : f[i].kind = "row" =>
             ExpectedPrev(f, i) = f[i].prev /\ ExpectedIseq(f, i) = f[i].iseq
      BY <2>4
    <3> HIDE DEF ExpectedPrev, ExpectedIseq
    <3> QED  BY <3>1, <3>2, <3>3, <3>4 DEF Breaks
  <2>6. ~PrefixMismatch(f)
    <3> SUFFICES ASSUME NEW i \in DOMAIN f, f[i].kind = "start",
                        ~(f[1].kind = "rotation" /\ f[1].droppedLegacy > 0)
                 PROVE  f[i].covers = [j \in 1..(i - 1) |-> f[j].hash]
      BY DEF PrefixMismatch, Indices
    <3> QED  BY <2>1 DEF Whole, StartAt
  <2>7. HeadState(f, head) \notin {"truncated", "mismatch"}
    <3> DEFINE rows == {i \in DOMAIN f : f[i].kind = "row" /\ InChain(f, i)}
    <3>1. CASE head = NoHead
      BY <3>1 DEF HeadState
    <3>2. CASE head # NoHead
      <4>1. head.iseq \in 1..n /\ (head.iseq = n => head.hash = f[Len(f)].hash)
        BY <2>1, <3>2 DEF HeadOf
      <4>2. f # <<>> /\ f[Len(f)].kind = "row" /\ n \in Nat
        BY <2>1, <4>1 DEF Whole
      <4>3. Len(f) \in DOMAIN f
        BY <2>1, <2>3, <4>2, EmptySeq
      <4>4. PICK b \in DOMAIN f : RowsFrom(f, b, n)
        BY <2>1, <4>2 DEF Whole
      <4>5. \A i \in DOMAIN f : f[i].kind = "row" <=> i > b
        BY <4>4 DEF RowsFrom
      <4>6. b + 1 \in DOMAIN f /\ f[b + 1].kind = "row" /\ b + 1 - 1 = b
        BY <2>3, <4>2, <4>3, <4>5
      <4>7. Opens(f, b)
        <5>1. f[b].kind # "row"
          BY <2>3, <4>5
        <5> QED  BY SMTT(30), <2>1, <2>2, <4>6, <5>1, BeforeRow
      <4>8. InChain(f, Len(f))
        BY <2>3, <4>7 DEF InChain
      <4>9. Len(f) \in rows /\ rows \in SUBSET (1..Len(f)) /\ \A j \in rows : j <= Len(f)
        BY <2>3, <4>2, <4>3, <4>8
      <4>10. Latest(rows) = Len(f)
        <5> HIDE DEF rows
        <5> QED  BY <2>3, <4>9, LatestUnique
      <4>11. f[Len(f)].iseq = n
        <5>1. f[Len(f)].iseq = n - (Len(f) - Len(f))
          BY <2>1, <4>2, <4>3 DEF Whole, RowAt
        <5> QED  BY <2>3, <4>2, <5>1
      <4>12. ~(head.iseq > n) /\ (head.iseq < n \/ head.iseq = n)
        BY <4>1, <4>2
      <4>13. \E i \in DOMAIN f : InChain(f, i)
        BY <4>3, <4>8
      <4>14. rows # {}
        BY <4>9
      <4> HIDE DEF rows
      <4>15. HeadState(f, head) = IF head.iseq < n THEN "stale" ELSE "ok"
        <5>1. HeadState(f, head) =
                IF head.iseq > f[Latest(rows)].iseq THEN "truncated"
                ELSE IF head.iseq < f[Latest(rows)].iseq THEN "stale"
                ELSE IF head.hash # f[Latest(rows)].hash THEN "mismatch" ELSE "ok"
          BY <3>2, <4>13, <4>14 DEF HeadState, rows
        <5> QED  BY <4>1, <4>10, <4>11, <4>12, <5>1
      <4> QED  BY <4>15
    <3> QED  BY <3>1, <3>2
  <2> QED  BY <2>5, <2>6, <2>7
<1> QED  BY LedgerInvariant, UntornInvariant, <1>1, PTL

(***************************************************************************)
(* What the reader notices.                                                *)
(***************************************************************************)

\* Line k is a row or opens a chain.
Marks(f, k) == f[k].kind = "row" \/ Opens(f, k)

\* A row follows the last such line before it, and counts one more.
LEMMA AnchorOfRow ==
    ASSUME NEW f \in Seq(Line), Sound(f), NEW i \in DOMAIN f, f[i].kind = "row"
    PROVE  \E m \in 1..(i - 1) :
              /\ m \in DOMAIN f /\ Marks(f, m) /\ f[i].iseq = f[m].iseq + 1
              /\ \A k \in (m + 1)..(i - 1) : ~Marks(f, k)
<1>1. Len(f) \in Nat /\ DOMAIN f = 1..Len(f)
  BY LenProperties
<1>2. PICK m \in 1..(i - 1) : Precedes(f, m, i) /\ f[i].iseq = f[m].iseq + 1
  BY DEF Sound, Numbered
<1>3. m \in DOMAIN f
  BY <1>1, <1>2
<1>4. f[m].kind \in Chained /\ \A k \in (m + 1)..(i - 1) : f[k].kind \notin Chained
  BY <1>2 DEF Precedes
<1>5. f[m].kind = "rotation" => m = 1
  BY <1>3 DEF Sound, Rotations
<1> QED  BY <1>2, <1>3, <1>4, <1>5 DEF Marks, Opens, Chained

LEMMA AnchorIs ==
    ASSUME NEW f, NEW i \in Nat, NEW m \in 1..(i - 1), Marks(f, m),
           \A k \in (m + 1)..(i - 1) : ~Marks(f, k)
    PROVE  Anchor(f, i) = f[m]
<1> DEFINE S == {j \in 1..(i - 1) : f[j].kind = "row" \/ Opens(f, j)}
<1>1. i - 1 \in Nat /\ S \in SUBSET (1..(i - 1)) /\ m \in S
  BY DEF Marks
<1>2. \A j \in S : j <= m
  BY DEF Marks
<1>3. Latest(S) = m
  <2> HIDE DEF S
  <2> QED  BY <1>1, <1>2, LatestUnique
<1> QED  BY <1>3 DEF Anchor

LEMMA WithoutLine ==
    ASSUME NEW f \in Seq(Line), NEW i \in DOMAIN f
    PROVE  LET g == Without(f, i)
           IN  /\ g \in Seq(Line) /\ Len(g) = Len(f) - 1 /\ DOMAIN g = 1..(Len(f) - 1)
               /\ \A k \in DOMAIN g : IF k < i THEN g[k] = f[k] ELSE g[k] = f[k + 1]
<1> DEFINE before == SubSeq(f, 1, i - 1)
           after == SubSeq(f, i + 1, Len(f))
           g == before \o after
<1>1. /\ Len(f) \in Nat /\ DOMAIN f = 1..Len(f) /\ i \in Nat /\ i >= 1 /\ i <= Len(f)
      /\ \A k \in 1..Len(f) : f[k] \in Line
  BY LenProperties, ElementOfSeq
<1>2. /\ before \in Seq(Line) /\ Len(before) = i - 1
      /\ \A k \in 1..(i - 1) : before[k] = f[k]
  <2>1. /\ before \in Seq(Line) /\ Len(before) = IF 1 <= i - 1 THEN i - 1 - 1 + 1 ELSE 0
        /\ \A k \in 1..(i - 1 - 1 + 1) : before[k] = f[1 + k - 1]
    <3>1. \A k \in 1..(i - 1) : f[k] \in Line
      BY <1>1
    <3> QED  BY <1>1, <3>1, SubSeqProperties
  <2>2. i - 1 - 1 + 1 = i - 1
    BY <1>1
  <2>3. \A k \in 1..(i - 1) : 1 + k - 1 = k
    BY <1>1
  <2> HIDE DEF before
  <2> QED  BY <1>1, <2>1, <2>2, <2>3
<1>3. /\ after \in Seq(Line) /\ Len(after) = Len(f) - i
      /\ \A k \in 1..(Len(f) - i) : after[k] = f[i + k]
  <2>1. /\ after \in Seq(Line)
        /\ Len(after) = IF i + 1 <= Len(f) THEN Len(f) - (i + 1) + 1 ELSE 0
        /\ \A k \in 1..(Len(f) - (i + 1) + 1) : after[k] = f[i + 1 + k - 1]
    <3>1. \A k \in (i + 1)..Len(f) : f[k] \in Line
      BY <1>1
    <3> QED  BY <1>1, <3>1, SubSeqProperties
  <2>2. Len(f) - (i + 1) + 1 = Len(f) - i
    BY <1>1
  <2>3. \A k \in 1..(Len(f) - i) : i + 1 + k - 1 = i + k
    BY <1>1
  <2> HIDE DEF after
  <2> QED  BY SMTT(30), <1>1, <2>1, <2>2, <2>3
<1> HIDE DEF before, after
<1>4. /\ g \in Seq(Line) /\ Len(g) = Len(f) - 1
      /\ \A k \in 1..(Len(f) - 1) : g[k] = IF k <= i - 1 THEN before[k] ELSE after[k - (i - 1)]
  <2>1. /\ g \in Seq(Line) /\ Len(g) = Len(before) + Len(after)
        /\ \A k \in 1..(Len(before) + Len(after)) :
             g[k] = IF k <= Len(before) THEN before[k] ELSE after[k - Len(before)]
    BY <1>2, <1>3, ConcatProperties
  <2>2. Len(before) + Len(after) = Len(f) - 1
    BY <1>1, <1>2, <1>3
  <2> HIDE DEF g
  <2> QED  BY <1>2, <2>1, <2>2
<1>5. DOMAIN g = 1..(Len(f) - 1)
  BY <1>4, LenProperties
<1>6. ASSUME NEW k \in 1..(Len(f) - 1)
      PROVE  IF k < i THEN g[k] = f[k] ELSE g[k] = f[k + 1]
  <2>1. CASE k < i
    <3>1. k \in 1..(i - 1) /\ k <= i - 1
      BY <1>1, <2>1
    <3> QED  BY <1>2, <1>4, <2>1, <3>1
  <2>2. CASE ~(k < i)
    <3>1. k - (i - 1) \in 1..(Len(f) - i) /\ i + (k - (i - 1)) = k + 1 /\ ~(k <= i - 1)
      BY <1>1, <2>2
    <3> QED  BY <1>3, <1>4, <2>2, <3>1
  <2> QED  BY <2>1, <2>2
<1> HIDE DEF g
<1>7. g = Without(f, i)
  BY DEF Without, g, before, after
<1> QED  BY <1>4, <1>5, <1>6, <1>7

ChainRows(f) == {i \in DOMAIN f : f[i].kind = "row" /\ InChain(f, i)}

\* When the reader calls the head current, it is that of the last row in a chain.
LEMMA CurrentHead ==
    ASSUME NEW f \in Seq(Line), NEW h \in [iseq : Nat, hash : Nat], HeadState(f, h) = "ok"
    PROVE  /\ h # NoHead
           /\ \E l \in ChainRows(f) :
                /\ \A k \in ChainRows(f) : k <= l
                /\ h.iseq = f[l].iseq /\ h.hash = f[l].hash
<1> DEFINE rows == ChainRows(f)
           l == Latest(rows)
<1>1. /\ Len(f) \in Nat /\ DOMAIN f = 1..Len(f)
      /\ \A k \in 1..Len(f) : f[k] \in Line
  BY LenProperties, ElementOfSeq
<1>2. /\ h # NoHead /\ rows # {} /\ ~(h.iseq > f[l].iseq) /\ ~(h.iseq < f[l].iseq)
      /\ h.hash = f[l].hash
  BY DEF HeadState, ChainRows
<1>3. rows \in SUBSET (1..Len(f))
  BY <1>1 DEF ChainRows
<1>4. l \in rows /\ \A k \in rows : k <= l
  <2> HIDE DEF rows
  <2> QED  BY <1>1, <1>2, <1>3, LatestIsGreatest
<1>5. f[l].iseq \in Nat /\ h.iseq \in Nat
  BY <1>1, <1>3, <1>4 DEF Line
<1>6. h.iseq = f[l].iseq
  <2> HIDE DEF l
  <2> QED  BY <1>2, <1>5
<1> QED  BY <1>2, <1>4, <1>6

\* A head that a file no longer reaches, or that names another row, is reported.
LEMMA WrongHead ==
    ASSUME NEW f \in Seq(Line), NEW h \in [iseq : Nat, hash : Nat], h # NoHead,
           NEW o \in DOMAIN f, Opens(f, o),
           \A l \in ChainRows(f) : (\A k \in ChainRows(f) : k <= l) =>
              h.iseq > f[l].iseq \/ (h.iseq = f[l].iseq /\ h.hash # f[l].hash)
    PROVE  HeadState(f, h) \in {"truncated", "mismatch"}
<1> DEFINE rows == ChainRows(f)
           l == Latest(rows)
<1>1. /\ Len(f) \in Nat /\ DOMAIN f = 1..Len(f)
      /\ \A k \in 1..Len(f) : f[k] \in Line
  BY LenProperties, ElementOfSeq
<1>2. \E i \in DOMAIN f : InChain(f, i)
  BY <1>1 DEF InChain
<1>3. rows \in SUBSET (1..Len(f))
  BY <1>1 DEF ChainRows
<1>4. CASE rows = {}
  BY <1>2, <1>4 DEF HeadState, ChainRows
<1>5. CASE rows # {}
  <2>1. l \in rows /\ \A k \in rows : k <= l
    <3> HIDE DEF rows
    <3> QED  BY <1>1, <1>3, <1>5, LatestIsGreatest
  <2>2. h.iseq > f[l].iseq \/ (h.iseq = f[l].iseq /\ h.hash # f[l].hash)
    BY <2>1
  <2>3. HeadState(f, h) =
          IF h.iseq > f[l].iseq THEN "truncated"
          ELSE IF h.iseq < f[l].iseq THEN "stale"
          ELSE IF h.hash # f[l].hash THEN "mismatch" ELSE "ok"
    BY <1>2, <1>5 DEF HeadState, ChainRows
  <2>4. f[l].iseq \in Nat /\ h.iseq \in Nat
    BY <1>1, <1>3, <2>1 DEF Line
  <2>5. CASE h.iseq > f[l].iseq
    BY <2>3, <2>5
  <2>6. CASE h.iseq = f[l].iseq /\ h.hash # f[l].hash
    <3>1. ~(h.iseq > f[l].iseq) /\ ~(h.iseq < f[l].iseq)
      <4> HIDE DEF l
      <4> QED  BY <2>4, <2>6
    <3> QED  BY <2>3, <2>6, <3>1
  <2> QED  BY <2>2, <2>5, <2>6
<1> QED  BY <1>4, <1>5

\* A row in a chain that is not the last is the line the next row follows.
LEMMA RowAfter ==
    ASSUME NEW f \in Seq(Line), Sound(f),
           NEW i \in DOMAIN f, f[i].kind = "row",
           NEW l \in DOMAIN f, f[l].kind = "row", i < l
    PROVE  \E j \in DOMAIN f :
              /\ i < j /\ f[j].kind = "row" /\ f[j].iseq = f[i].iseq + 1
              /\ \A k \in (i + 1)..(j - 1) : ~Marks(f, k)
<1> DEFINE S == {k \in DOMAIN f : f[k].kind = "row" /\ k > i}
<1>1. Len(f) \in Nat /\ DOMAIN f = 1..Len(f)
  BY LenProperties
<1>2. S \in SUBSET (1..Len(f)) /\ S # {}
  BY <1>1
<1>3. PICK j \in S : \A k \in S : j <= k
  <2> HIDE DEF S
  <2> QED  BY <1>1, <1>2, Least
<1>4. PICK m \in 1..(j - 1) :
          /\ m \in DOMAIN f /\ Marks(f, m) /\ f[j].iseq = f[m].iseq + 1
          /\ \A k \in (m + 1)..(j - 1) : ~Marks(f, k)
  BY <1>3, AnchorOfRow
<1>5. ~(m < i)
  <2> SUFFICES ASSUME m < i  PROVE FALSE
    OBVIOUS
  <2>1. i \in (m + 1)..(j - 1)
    BY <1>1, <1>3
  <2> QED  BY <1>4, <2>1 DEF Marks
<1>6. ~(m > i)
  <2> SUFFICES ASSUME m > i  PROVE FALSE
    OBVIOUS
  <2>1. f[m].kind # "row"
    BY <1>1, <1>3, <1>4
  <2>2. f[m].kind = "start"
    <3>1. m # 1
      BY <1>1
    <3> QED  BY <1>4, <2>1, <3>1 DEF Marks, Opens
  <2>3. i \in 1..(m - 1)
    BY <1>1
  <2> QED  BY <1>4, <2>2, <2>3 DEF Sound, Starts
<1>7. m = i
  BY <1>1, <1>4, <1>5, <1>6
<1> QED  BY <1>3, <1>4, <1>7

\* A row in a chain is removed and the lines after it close up.
LEMMA RemovalNoticed ==
    ASSUME NEW f \in Seq(Line), Sound(f), NEW h \in [iseq : Nat, hash : Nat],
           HeadState(f, h) = "ok", NEW i \in ChainRows(f)
    PROVE  ~Verified(Without(f, i), h)
<1> DEFINE g == Without(f, i)
<1>1. /\ Len(f) \in Nat /\ DOMAIN f = 1..Len(f)
      /\ \A k \in 1..Len(f) : f[k] \in Line
  BY LenProperties, ElementOfSeq
<1>2. i \in DOMAIN f /\ f[i].kind = "row" /\ i \in Nat
  BY <1>1 DEF ChainRows
<1>3. /\ g \in Seq(Line) /\ DOMAIN g = 1..(Len(f) - 1)
      /\ \A k \in DOMAIN g : IF k < i THEN g[k] = f[k] ELSE g[k] = f[k + 1]
  BY <1>2, WithoutLine
<1>4. PICK o \in 1..i : Opens(f, o)
  BY DEF ChainRows, InChain
<1>5. o # i
  BY <1>2, <1>4 DEF Opens
<1>6. o \in DOMAIN g /\ Opens(g, o) /\ o < i
  <2>1. o < i /\ o \in DOMAIN g
    BY <1>1, <1>2, <1>3, <1>5
  <2>2. g[o] = f[o]
    BY <1>3, <2>1
  <2> QED  BY <1>4, <2>1, <2>2 DEF Opens
<1>7. PICK m \in 1..(i - 1) :
          /\ m \in DOMAIN f /\ Marks(f, m) /\ f[i].iseq = f[m].iseq + 1
          /\ \A k \in (m + 1)..(i - 1) : ~Marks(f, k)
  BY <1>2, AnchorOfRow
<1>8. PICK l \in ChainRows(f) :
          /\ h # NoHead /\ \A k \in ChainRows(f) : k <= l
          /\ h.iseq = f[l].iseq /\ h.hash = f[l].hash
  BY CurrentHead
<1>9. l \in DOMAIN f /\ f[l].kind = "row" /\ i <= l
  BY <1>8 DEF ChainRows
<1>10. f[m].iseq \in Nat /\ f[i].iseq \in Nat
  BY <1>1, <1>2, <1>7 DEF Line
<1> HIDE DEF g
<1>11. CASE i = l
  <2>1. ASSUME NEW k \in ChainRows(g)
        PROVE  k < i /\ k \in DOMAIN f /\ g[k] = f[k] /\ f[k].kind = "row"
    <3>1. k \in DOMAIN g /\ g[k].kind = "row" /\ k \in Nat
      BY <1>3 DEF ChainRows
    <3>2. ~(k < i) => FALSE
      <4> SUFFICES ASSUME ~(k < i)  PROVE FALSE
        OBVIOUS
      <4>1. k + 1 \in DOMAIN f /\ o \in 1..(k + 1) /\ ~(k + 1 <= i)
        BY <1>1, <1>2, <1>3, <1>6, <3>1
      <4>2. k + 1 \in ChainRows(f)
        BY <1>3, <1>4, <3>1, <4>1 DEF ChainRows, InChain
      <4> QED  BY <1>8, <1>11, <4>1, <4>2
    <3>3. k \in DOMAIN f
      BY <1>1, <1>3, <3>1
    <3> QED  BY <1>3, <3>1, <3>2, <3>3
  <2>2. ASSUME NEW k \in ChainRows(g), \A x \in ChainRows(g) : x <= k
        PROVE  h.iseq > g[k].iseq
    <3>1. k < i /\ k \in DOMAIN f /\ g[k] = f[k] /\ f[k].kind = "row" /\ k \in Nat
      BY <1>1, <2>1
    <3>2. ~(k > m)
      <4> SUFFICES ASSUME k > m  PROVE FALSE
        OBVIOUS
      <4>1. k \in (m + 1)..(i - 1)
        BY <1>2, <3>1
      <4> QED  BY <1>7, <3>1, <4>1 DEF Marks
    <3>3. ~(k < m)
      <4> SUFFICES ASSUME k < m  PROVE FALSE
        OBVIOUS
      <4>1. CASE f[m].kind = "row"
        <5>1. PICK p \in 1..k : Opens(g, p)
          BY DEF ChainRows, InChain
        <5>2. m \in DOMAIN g /\ m < i /\ p \in 1..m
          BY <1>1, <1>2, <1>3, <3>1
        <5>3. g[m].kind = "row"
          BY <1>3, <4>1, <5>2
        <5>4. m \in ChainRows(g) /\ ~(m <= k)
          BY <3>1, <5>1, <5>2, <5>3 DEF ChainRows, InChain
        <5> QED  BY <2>2, <5>4
      <4>2. CASE f[m].kind # "row"
        <5>1. m # 1 /\ k \in 1..(m - 1)
          BY <1>1, <3>1
        <5>2. f[m].kind = "start"
          BY <1>7, <4>2, <5>1 DEF Marks, Opens
        <5> QED  BY <1>7, <3>1, <5>1, <5>2 DEF Sound, Starts
      <4> QED  BY <4>1, <4>2
    <3>4. k = m
      BY <3>1, <3>2, <3>3
    <3>5. h.iseq = f[m].iseq + 1 /\ g[k].iseq = f[m].iseq
      BY <1>7, <1>8, <1>11, <3>1, <3>4
    <3> QED  BY <1>10, <3>5
  <2>3. HeadState(g, h) \in {"truncated", "mismatch"}
    BY <1>3, <1>6, <1>8, <2>2, WrongHead
  <2>4. HeadState(Without(f, i), h) \in {"truncated", "mismatch"}
    BY <2>3 DEF g
  <2> QED  BY <2>4 DEF Verified
<1>12. CASE i # l
  <2>1. i < l
    BY <1>1, <1>2, <1>9, <1>12
  <2>2. PICK j \in DOMAIN f :
            /\ i < j /\ f[j].kind = "row" /\ f[j].iseq = f[i].iseq + 1
            /\ \A k \in (i + 1)..(j - 1) : ~Marks(f, k)
    BY <1>2, <1>9, <2>1, RowAfter
  <2>3. /\ j - 1 \in DOMAIN g /\ j - 1 \in Nat /\ ~(j - 1 < i) /\ j - 1 + 1 = j
        /\ m \in 1..(j - 1 - 1) /\ m < i /\ m \in DOMAIN g /\ o \in 1..(j - 1)
    BY <1>1, <1>2, <1>3, <1>6, <2>2
  <2>4. g[j - 1] = f[j] /\ g[m] = f[m]
    BY <1>3, <2>3
  <2>5. Marks(g, m)
    BY <1>7, <2>4 DEF Marks, Opens
  <2>6. ASSUME NEW k \in (m + 1)..(j - 1 - 1)
        PROVE  ~Marks(g, k)
    <3>1. k \in DOMAIN g /\ k # 1 /\ k \in Nat
      BY <1>1, <1>3, <2>3
    <3>2. CASE k < i
      <4>1. k \in (m + 1)..(i - 1)
        BY <1>2, <3>2
      <4> QED  BY <1>3, <1>7, <3>1, <3>2, <4>1 DEF Marks, Opens
    <3>3. CASE ~(k < i)
      <4>1. k + 1 \in (i + 1)..(j - 1)
        BY <1>1, <1>2, <2>2, <3>1, <3>3
      <4> QED  BY <1>3, <2>2, <3>1, <3>3, <4>1 DEF Marks, Opens
    <3> QED  BY <3>2, <3>3
  <2>7. Anchor(g, j - 1) = g[m]
    BY <2>3, <2>5, <2>6, AnchorIs
  <2>8. ExpectedIseq(g, j - 1) = f[m].iseq + 1
    BY <2>4, <2>7 DEF ExpectedIseq
  <2>9. g[j - 1].iseq # ExpectedIseq(g, j - 1)
    <3>1. f[m].iseq + 1 # f[m].iseq + 1 + 1
      BY SMTT(30), <1>10
    <3> QED  BY <1>7, <2>2, <2>4, <2>8, <3>1
  <2>10. InChain(g, j - 1) /\ g[j - 1].kind = "row"
    BY <1>6, <2>2, <2>3, <2>4 DEF InChain
  <2>11. <<"sequence", j - 1>> \in Breaks(g)
    <3> HIDE DEF ExpectedIseq
    <3> QED  BY <2>3, <2>9, <2>10 DEF Breaks
  <2>12. Breaks(Without(f, i)) # {}
    BY <2>11 DEF g
  <2> QED  BY <2>12 DEF Verified
<1> QED  BY <1>11, <1>12

\* A row in a chain is replaced by another that has a hash of its own.
LEMMA ReplacementNoticed ==
    ASSUME NEW f \in Seq(Line), Sound(f), NEW h \in [iseq : Nat, hash : Nat],
           HeadState(f, h) = "ok", NEW i \in ChainRows(f),
           NEW n \in Nat, HashesBelow(f, n)
    PROVE  ~Verified([f EXCEPT ![i].hash = n], h)
<1> DEFINE g == [f EXCEPT ![i].hash = n]
<1>1. /\ Len(f) \in Nat /\ DOMAIN f = 1..Len(f)
      /\ \A k \in 1..Len(f) : f[k] \in Line
  BY LenProperties, ElementOfSeq
<1>2. i \in DOMAIN f /\ f[i].kind = "row" /\ i \in Nat
  BY <1>1 DEF ChainRows
<1>3. /\ DOMAIN g = DOMAIN f
      /\ \A k \in DOMAIN f : k # i => g[k] = f[k]
      /\ g[i] = [f[i] EXCEPT !.hash = n]
  BY <1>2
<1>4. g \in Seq(Line)
  <2>1. g[i] \in Line
    BY <1>1, <1>2, <1>3 DEF Line
  <2>2. \A k \in 1..Len(f) : g[k] \in Line
    BY <1>1, <1>3, <2>1
  <2>3. g = [k \in 1..Len(f) |-> g[k]]
    BY <1>1
  <2> HIDE DEF g
  <2> QED  BY <1>1, <2>2, <2>3, IsASeq
<1>5. \A k \in DOMAIN f :
          g[k].kind = f[k].kind /\ g[k].iseq = f[k].iseq /\ g[k].prev = f[k].prev
  <2>1. /\ g[i].kind = f[i].kind /\ g[i].iseq = f[i].iseq /\ g[i].prev = f[i].prev
    <3>1. f[i] \in Line /\ g[i] = [f[i] EXCEPT !.hash = n]
      BY <1>1, <1>2, <1>3
    <3> HIDE DEF g
    <3> QED  BY <3>1 DEF Line
  <2> HIDE DEF g
  <2> QED  BY <1>3, <2>1
<1>6. g[i].hash = n
  BY <1>1, <1>2, <1>3 DEF Line
<1> HIDE DEF g
<1>7. \A k \in DOMAIN f : (Opens(g, k) <=> Opens(f, k)) /\ (Marks(g, k) <=> Marks(f, k))
  BY <1>5 DEF Marks, Opens
<1>8. \A k \in DOMAIN f : InChain(g, k) <=> InChain(f, k)
  <2>1. \A k \in DOMAIN f : \A p \in 1..k : p \in DOMAIN f
    BY <1>1
  <2> QED  BY <1>7, <2>1 DEF InChain
<1>9. ChainRows(g) = ChainRows(f)
  BY <1>3, <1>5, <1>8 DEF ChainRows
<1>10. PICK o \in 1..i : Opens(f, o)
  BY DEF ChainRows, InChain
<1>11. o \in DOMAIN g /\ Opens(g, o)
  BY <1>1, <1>2, <1>3, <1>7, <1>10
<1>12. PICK l \in ChainRows(f) :
          /\ h # NoHead /\ \A k \in ChainRows(f) : k <= l
          /\ h.iseq = f[l].iseq /\ h.hash = f[l].hash
  BY CurrentHead
<1>13. l \in DOMAIN f /\ f[l].kind = "row" /\ i <= l
  BY <1>12 DEF ChainRows
<1>14. CASE i = l
  <2>1. ASSUME NEW k \in ChainRows(g), \A x \in ChainRows(g) : x <= k
        PROVE  h.iseq = g[k].iseq /\ h.hash # g[k].hash
    <3>1. k = l
      <4>1. k <= l /\ l <= k
        BY <1>9, <1>12, <2>1
      <4>2. k \in Nat /\ l \in Nat
        BY <1>1, <1>3, <1>13 DEF ChainRows
      <4> QED  BY <4>1, <4>2
    <3>2. h.hash < n /\ h.hash \in Nat
      BY <1>12, <1>13 DEF HashesBelow
    <3>3. h.hash # n
      BY <3>2
    <3> QED  BY <1>5, <1>6, <1>12, <1>13, <1>14, <3>1, <3>3
  <2>2. HeadState(g, h) \in {"truncated", "mismatch"}
    BY <1>4, <1>11, <1>12, <2>1, WrongHead
  <2>3. HeadState([f EXCEPT ![i].hash = n], h) \in {"truncated", "mismatch"}
    BY <2>2 DEF g
  <2> QED  BY <2>3 DEF Verified
<1>15. CASE i # l
  <2>1. i < l
    BY <1>1, <1>2, <1>13, <1>15
  <2>2. PICK j \in DOMAIN f :
            /\ i < j /\ f[j].kind = "row" /\ f[j].iseq = f[i].iseq + 1
            /\ \A k \in (i + 1)..(j - 1) : ~Marks(f, k)
    BY <1>2, <1>13, <2>1, RowAfter
  <2>3. j \in Nat /\ i \in 1..(j - 1) /\ o \in 1..j /\ \A k \in (i + 1)..(j - 1) : k \in DOMAIN f
    BY <1>1, <1>2, <2>2
  <2>4. Anchor(g, j) = g[i]
    <3>1. Marks(g, i)
      BY <1>2, <1>5 DEF Marks
    <3>2. \A k \in (i + 1)..(j - 1) : ~Marks(g, k)
      BY <1>7, <2>2, <2>3
    <3> QED  BY <2>3, <3>1, <3>2, AnchorIs
  <2>5. ExpectedPrev(g, j) = n
    BY <1>2, <1>5, <1>6, <2>4 DEF ExpectedPrev
  <2>6. g[j].prev # n
    <3>1. g[j].prev < n /\ g[j].prev \in Nat
      BY <1>1, <1>5, <2>2 DEF HashesBelow, Line
    <3> QED  BY <3>1
  <2>7. InChain(g, j) /\ g[j].kind = "row" /\ j \in DOMAIN g
    BY <1>3, <1>5, <1>11, <2>2, <2>3 DEF InChain
  <2>8. <<"hash", j>> \in Breaks(g)
    <3>1. g[j].prev # ExpectedPrev(g, j)
      BY <2>5, <2>6
    <3> HIDE DEF ExpectedPrev
    <3> QED  BY <2>7, <3>1 DEF Breaks
  <2>9. Breaks([f EXCEPT ![i].hash = n]) # {}
    BY <2>8 DEF g
  <2> QED  BY <2>9 DEF Verified
<1> QED  BY <1>14, <1>15

\* While the head is current nobody removes or replaces one row of a chain
\* unnoticed, whatever half lines writers have left in the file.
THEOREM LedgerRowChangeNoticed == Spec => []RowChangeNoticed
<1>1. Inv => RowChangeNoticed
  <2> SUFFICES ASSUME Inv, HeadState(file, head) = "ok",
                      NEW i \in ChainRows(file)
               PROVE  /\ ~Verified(Without(file, i), head)
                      /\ ~Verified([file EXCEPT ![i].hash = nextHash], head)
    BY DEF RowChangeNoticed, Indices, ChainRows
  <2>1. /\ file \in Seq(Line) /\ Sound(file) /\ head \in [iseq : Nat, hash : Nat]
        /\ nextHash \in Nat /\ HashesBelow(file, nextHash)
    BY DEF Inv, TypeOK, Chain, Hashes
  <2> QED  BY <2>1, RemovalNoticed, ReplacementNoticed
<1> QED  BY LedgerInvariant, <1>1, PTL

(***************************************************************************)
(* What the rows of a file have sealed.                                    *)
(***************************************************************************)

\* g[i] is what the first i lines have sealed.
IsSums(g, f, n) ==
    g = [i \in 0..n |-> IF i = 0 THEN 0 ELSE g[i - 1] + f[i].sealed]

\* Lines 1 to n of two files seal the same.
SealAlike(f, e, n) ==
    \A i \in 1..n : f[i].sealed \in Nat /\ f[i].sealed = e[i].sealed

Sums(f) ==
    LET upTo[i \in 0..Len(f)] ==
            IF i = 0 THEN 0 ELSE upTo[i - 1] + f[i].sealed
    IN  upTo

SealedIn(f) == Sums(f)[Len(f)]

LEMMA LeastFromZero ==
    ASSUME NEW n \in Nat, NEW S \in SUBSET (0..n), S # {}
    PROVE  \E i \in S : \A j \in S : i <= j
<1>1. CASE 0 \in S
  BY <1>1
<1>2. CASE 0 \notin S
  <2>1. S \in SUBSET (1..n)
    BY <1>2
  <2> QED  BY <2>1, Least
<1> QED  BY <1>1, <1>2

\* The recursive definition has a value: otherwise there were a shortest prefix
\* for which it has none.
LEMMA SumsExist ==
    ASSUME NEW f, NEW n \in Nat
    PROVE  \E g : IsSums(g, f, n)
<1> DEFINE S == {k \in 0..n : ~\E g : IsSums(g, f, k)}
<1>1. S = {}
  <2> SUFFICES ASSUME S # {}  PROVE FALSE
    OBVIOUS
  <2>1. S \in SUBSET (0..n)
    OBVIOUS
  <2>2. PICK k \in S : \A j \in S : k <= j
    <3> HIDE DEF S
    <3> QED  BY <2>1, LeastFromZero
  <2>3. k # 0
    <3>1. IsSums([i \in 0..0 |-> 0], f, 0)
      BY DEF IsSums
    <3> QED  BY <3>1
  <2>4. k \in 0..n /\ k - 1 \in 0..n /\ ~(k <= k - 1) /\ k \in Nat
    BY <2>3
  <2>5. k - 1 \notin S
    <3> HIDE DEF S
    <3> QED  BY <2>2, <2>4
  <2>6. PICK g : IsSums(g, f, k - 1)
    BY <2>4, <2>5
  <2> DEFINE h == [i \in 0..k |-> IF i = k THEN g[k - 1] + f[k].sealed ELSE g[i]]
  <2>7. \A i \in 0..(k - 1) : g[i] = IF i = 0 THEN 0 ELSE g[i - 1] + f[i].sealed
    BY <2>6 DEF IsSums
  <2>8. ASSUME NEW i \in 0..k
        PROVE  h[i] = IF i = 0 THEN 0 ELSE h[i - 1] + f[i].sealed
    <3>1. CASE i = k
      <4>1. h[k] = g[k - 1] + f[k].sealed /\ h[k - 1] = g[k - 1] /\ k # 0
        BY <2>3, <2>4
      <4> QED  BY <3>1, <4>1
    <3>2. CASE i = 0
      <4>1. h[0] = g[0] /\ 0 \in 0..(k - 1)
        BY <2>3, <2>4
      <4> QED  BY <2>7, <3>2, <4>1
    <3>3. CASE i # k /\ i # 0
      <4>1. h[i] = g[i] /\ h[i - 1] = g[i - 1] /\ i \in 0..(k - 1)
        BY <2>4, <3>3
      <4> QED  BY <2>7, <3>3, <4>1
    <3> QED  BY <3>1, <3>2, <3>3
  <2>9. IsSums(h, f, k)
    <3>1. h = [i \in 0..k |-> h[i]]
      OBVIOUS
    <3> HIDE DEF h
    <3> QED  BY <2>8, <3>1 DEF IsSums
  <2> HIDE DEF h
  <2> QED  BY <2>2, <2>9
<1> QED  BY <1>1

\* The sums are numbers, and those of equal lines are equal.
LEMMA SumsAgree ==
    ASSUME NEW f, NEW e, NEW n \in Nat, NEW m \in Nat, n <= m,
           NEW g, NEW h, IsSums(g, f, n), IsSums(h, e, m), SealAlike(f, e, n)
    PROVE  \A i \in 0..n : g[i] \in Nat /\ g[i] = h[i]
<1> DEFINE S == {k \in 0..n : ~(g[k] \in Nat /\ g[k] = h[k])}
<1>1. S = {}
  <2> SUFFICES ASSUME S # {}  PROVE FALSE
    OBVIOUS
  <2>1. S \in SUBSET (0..n)
    OBVIOUS
  <2>2. PICK k \in S : \A j \in S : k <= j
    <3> HIDE DEF S
    <3> QED  BY <2>1, LeastFromZero
  <2>3. /\ g[k] = IF k = 0 THEN 0 ELSE g[k - 1] + f[k].sealed
        /\ h[k] = IF k = 0 THEN 0 ELSE h[k - 1] + e[k].sealed
    <3>1. k \in 0..n /\ k \in 0..m
      OBVIOUS
    <3> QED  BY <3>1 DEF IsSums
  <2>4. k # 0
    BY <2>3
  <2>5. k \in 1..n /\ k - 1 \in 0..n /\ ~(k <= k - 1)
    BY <2>4
  <2> USE DEF SealAlike
  <2>6. k - 1 \notin S
    <3> HIDE DEF S
    <3> QED  BY <2>2, <2>5
  <2>7. g[k - 1] \in Nat /\ g[k - 1] = h[k - 1]
    BY <2>5, <2>6
  <2>8. g[k] = g[k - 1] + f[k].sealed /\ h[k] = g[k - 1] + f[k].sealed
    BY <2>3, <2>4, <2>5, <2>7
  <2>9. f[k].sealed \in Nat
    BY <2>5
  <2>10. g[k] \in Nat /\ g[k] = h[k]
    BY <2>7, <2>8, <2>9
  <2> QED  BY <2>10
<1> QED  BY <1>1

LEMMA SealedInTyped ==
    ASSUME NEW f \in Seq(Line)
    PROVE  IsSums(Sums(f), f, Len(f)) /\ SealedIn(f) \in Nat
<1>1. Len(f) \in Nat /\ \A i \in 1..Len(f) : f[i] \in Line
  BY LenProperties, ElementOfSeq
<1>2. IsSums(Sums(f), f, Len(f))
  <2>1. \E g : IsSums(g, f, Len(f))
    BY <1>1, SumsExist
  <2>2. Sums(f) = CHOOSE g : IsSums(g, f, Len(f))
    BY DEF Sums, IsSums
  <2> QED  BY <2>1, <2>2
<1>3. SealAlike(f, f, Len(f))
  BY <1>1 DEF Line, SealAlike
<1>4. \A i \in 0..Len(f) : Sums(f)[i] \in Nat
  <2> HIDE DEF Sums
  <2> QED  BY <1>1, <1>2, <1>3, SumsAgree
<1> QED  BY <1>1, <1>2, <1>4 DEF SealedIn

\* A line adds what it seals.
LEMMA SealedInAppended ==
    ASSUME NEW f \in Seq(Line), NEW line \in Line
    PROVE  SealedIn(Append(f, line)) = SealedIn(f) + line.sealed
<1> DEFINE g == Append(f, line)
           n == Len(f)
<1>1. /\ g \in Seq(Line) /\ n \in Nat /\ Len(g) = n + 1
      /\ \A i \in 1..n : g[i] = f[i]
      /\ g[n + 1] = line /\ \A i \in 1..n : f[i] \in Line
  BY AppendedLine, LenProperties, ElementOfSeq
<1> HIDE DEF g, n
<1> DEFINE F == Sums(f)
           G == Sums(g)
<1>2. IsSums(F, f, n) /\ IsSums(G, g, n + 1)
  BY <1>1, SealedInTyped DEF n
<1>3. SealAlike(f, g, n)
  BY <1>1 DEF Line, SealAlike
<1>4. n + 1 \in Nat /\ n <= n + 1 /\ n \in 0..n /\ n + 1 \in 0..(n + 1) /\ n + 1 # 0
      /\ n + 1 - 1 = n
  BY <1>1
<1> HIDE DEF F, G
<1>5. G[n] = F[n]
  <2>1. \A i \in 0..n : F[i] \in Nat /\ F[i] = G[i]
    BY <1>1, <1>2, <1>3, <1>4, SumsAgree
  <2> QED  BY <1>4, <2>1
<1>6. G[n + 1] = G[n] + line.sealed
  <2>1. G[n + 1] = IF n + 1 = 0 THEN 0 ELSE G[n + 1 - 1] + g[n + 1].sealed
    BY <1>2, <1>4 DEF IsSums
  <2> QED  BY <1>1, <1>4, <2>1
<1> QED  BY <1>1, <1>5, <1>6 DEF SealedIn, F, G, g, n

\* A writer seals the counter as it stands, and once its row is in the file the
\* counter it is about to remove is accounted for.
SealsKept ==
    /\ SealedIn(file) + failed >= counted
    /\ \A w \in Writer : pc[w] = "stamped" => stamped[w].sealed = failed
    /\ \A w \in Writer : pc[w] \in {"appended", "headed"} /\ stamped[w].sealed > 0 =>
          SealedIn(file) >= counted

SealsInv ==
    tears = 0 /\ ~raced /\ Indices(file, {"rotation"}) = {} => SealsKept

LEMMA InitSeals == Init /\ Inv => SealsInv
<1> SUFFICES ASSUME Init, Inv  PROVE SealsKept
  BY DEF SealsInv
<1>1. SealedIn(file) \in Nat
  BY SealedInTyped DEF Inv, TypeOK
<1>2. failed = 0 /\ counted = 0 /\ \A w \in Writer : pc[w] = "idle"
  BY DEF Init
<1>3. SealedIn(file) + failed >= counted
  BY <1>1, <1>2
<1> QED  BY <1>2, <1>3 DEF SealsKept

LEMMA SealsStep ==
    ASSUME Inv, Inv', UntornInv, SealsInv, [Next]_vars
    PROVE  SealsInv'
<1> SUFFICES ASSUME tears' = 0, ~raced', Indices(file', {"rotation"}) = {}
             PROVE  SealsKept'
  BY DEF SealsInv
<1>1. /\ file \in Seq(Line) /\ SealedIn(file) \in Nat /\ failed \in Nat /\ counted \in Nat
      /\ pc \in [Writer -> Places] /\ stamped \in [Writer -> Line]
      /\ nextHash \in Nat /\ raced \in BOOLEAN
  BY SealedInTyped DEF Inv, TypeOK
<1>2. tears = 0 /\ \A w \in Writer : Fail(w) \/ Crash(w) => file' = file /\ torn' = torn
  BY NoTear
<1>3. ~raced
  <2>1. ASSUME NEW w \in Writer, Acquire(w) \/ Skip(w) \/ Rotate(w) \/ WithinCap(w)
          \/ Terminate(w) \/ AppendStart(w) \/ Stamp(w) \/ AppendRow(w) \/ WriteHead(w)
          \/ Finish(w) \/ Fail(w) \/ Refused(w) \/ Crash(w)
        PROVE  raced' = raced
    BY <2>1 DEF Acquire, Skip, Rotate, WithinCap, Terminate, AppendStart, Stamp,
                AppendRow, WriteHead, Finish, Fail, Refused, Crash, history
  <2>2. ASSUME NEW w \in Writer, RecordWriteFailure(w)  PROVE raced => raced'
    BY <2>2, Zenon DEF RecordWriteFailure
  <2>3. CASE UNCHANGED vars
    BY <2>3 DEF vars, history
  <2> QED  BY <2>1, <2>2, <2>3 DEF Next
<1>4. ASSUME file' = file  PROVE Indices(file, {"rotation"}) = {}
  BY <1>4
<1>5. ASSUME NEW line \in Line, file' = Append(file, line)
      PROVE  /\ Indices(file, {"rotation"}) = {}
             /\ SealedIn(file') = SealedIn(file) + line.sealed
  <2>1. \A i \in DOMAIN file : file'[i] = file[i] /\ i \in DOMAIN file'
    BY <1>1, <1>5, AppendedLine
  <2>2. Indices(file, {"rotation"}) = {}
    BY <2>1 DEF Indices
  <2> QED  BY <1>1, <1>5, <2>2, SealedInAppended
<1>6. ASSUME Indices(file, {"rotation"}) = {}
      PROVE  /\ SealedIn(file) + failed >= counted
             /\ \A w \in Writer : pc[w] = "stamped" => stamped[w].sealed = failed
             /\ \A w \in Writer : pc[w] \in {"appended", "headed"} /\ stamped[w].sealed > 0 =>
                   SealedIn(file) >= counted
  BY <1>2, <1>3, <1>6 DEF SealsInv, SealsKept
<1>7. ASSUME NEW w \in Writer, pc[w] \in Inside, NEW v \in Writer, v # w
      PROVE  pc[v] \notin Inside
  BY <1>7 DEF Inv, Exclusive
<1>8. \* Steps that leave the file and the counter alone.
      ASSUME NEW w \in Writer, file' = file, failed' = failed, counted' = counted,
             stamped' = stamped, NEW place \in Places, pc' = [pc EXCEPT ![w] = place],
             place # "stamped",
             place \in {"appended", "headed"} => pc[w] \in {"appended", "headed"}
      PROVE  SealsKept'
  <2>1. \A v \in Writer : pc'[v] = pc[v] \/ (v = w /\ pc'[v] = place)
    BY <1>1, <1>8
  <2> QED  BY <1>4, <1>6, <1>8, <2>1 DEF SealsKept
<1>9. ASSUME NEW w \in Writer, Acquire(w) \/ Skip(w) \/ WithinCap(w) \/ Terminate(w)
                  \/ WriteHead(w) \/ Refused(w) \/ Fail(w) \/ Crash(w)
      PROVE  SealsKept'
  <2>1. file' = file /\ failed' = failed /\ counted' = counted /\ stamped' = stamped
    <3>1. Fail(w) \/ Crash(w) => file' = file
      BY <1>2
    <3> QED  BY <1>9, <3>1 DEF Acquire, Skip, WithinCap, Terminate, WriteHead, Refused,
                  Fail, Crash, ledger, history
  <2>2. \E place \in Places :
          /\ pc' = [pc EXCEPT ![w] = place] /\ place # "stamped"
          /\ place \in {"appended", "headed"} => pc[w] \in {"appended", "headed"}
    <3>1. Terminate(w) => pc' = [pc EXCEPT ![w] = "ready"]
      BY <1>1 DEF Terminate
    <3> QED  BY <1>9, <3>1 DEF Acquire, Skip, WithinCap, WriteHead, Refused,
                  Fail, Crash, Goto, Places
  <2> QED  BY <1>8, <2>1, <2>2
<1>10. ASSUME NEW w \in Writer, Rotate(w)  PROVE FALSE
  <2>1. file' = Rotated(file, nextHash) /\ Len(file) > Cap
    BY <1>10 DEF Rotate
  <2>2. Len(file) > Target
    BY <1>1, <2>1, LedgerAssumption, LenProperties
  <2>3. /\ file'[1].kind = "rotation" /\ file' \in Seq(Line) /\ Len(file') = Target + 1
    BY <1>1, <2>1, <2>2, RotatedLines
  <2>4. 1 \in DOMAIN file'
    BY <2>3, LenProperties, LedgerAssumption
  <2> QED  BY <2>3, <2>4 DEF Indices
<1>11. ASSUME NEW w \in Writer, AppendStart(w)  PROVE SealsKept'
  <2>1. /\ file' = Append(file, StartMarker) /\ failed' = failed /\ counted' = counted
        /\ stamped' = stamped /\ pc' = [pc EXCEPT ![w] = "started"]
    BY <1>11 DEF AppendStart, Goto, history
  <2>2. StartMarker \in Line /\ StartMarker.sealed = 0
    BY StartMarkerTyped DEF Inv
  <2>3. Indices(file, {"rotation"}) = {} /\ SealedIn(file') = SealedIn(file)
    <3>1. SealedIn(file') = SealedIn(file) + 0 /\ Indices(file, {"rotation"}) = {}
      BY <1>5, <2>1, <2>2
    <3> QED  BY <1>1, <3>1
  <2>4. \A v \in Writer : pc'[v] = pc[v] \/ (v = w /\ pc'[v] = "started")
    BY <1>1, <2>1
  <2> QED  BY <1>6, <2>1, <2>3, <2>4 DEF SealsKept
<1>12. ASSUME NEW w \in Writer, Stamp(w)  PROVE SealsKept'
  <2>1. /\ stamped' = [stamped EXCEPT ![w] = NextRow] /\ file' = file
        /\ failed' = failed /\ counted' = counted /\ pc[w] \in Inside
        /\ pc' = [pc EXCEPT ![w] = "stamped"]
    BY <1>12 DEF Stamp, NextRow, Goto, ledger, history, Inside
  <2>2. NextRow.sealed = failed
    BY DEF NextRow, Plain
  <2>3. stamped'[w].sealed = failed /\ pc'[w] = "stamped"
    BY <1>1, <2>1, <2>2
  <2>4. \A v \in Writer : v # w => pc'[v] \notin Inside
    BY <1>1, <1>7, <2>1
  <2>5. SealedIn(file)' + failed' >= counted'
    BY <1>4, <1>6, <2>1
  <2>6. \A v \in Writer : pc'[v] = "stamped" => stamped'[v].sealed = failed'
    BY <2>1, <2>3, <2>4 DEF Inside
  <2>7. \A v \in Writer : pc'[v] \notin {"appended", "headed"}
    BY <2>3, <2>4 DEF Inside
  <2> QED  BY <2>5, <2>6, <2>7 DEF SealsKept
<1>13. ASSUME NEW w \in Writer, AppendRow(w)  PROVE SealsKept'
  <2>1. /\ file' = Glue(stamped[w]) /\ failed' = failed /\ counted' = counted
        /\ stamped' = stamped /\ pc[w] = "stamped" /\ pc' = [pc EXCEPT ![w] = "appended"]
    BY <1>13 DEF AppendRow, Goto
  <2>2. Fits(file, stamped[w]) /\ stamped[w].kind = "row" /\ stamped[w] \in Line
    BY <1>1, <2>1 DEF Inv, Stamps
  <2>3. ~torn
    <3>1. PICK m \in DOMAIN file : file[m].kind \in Chained
      BY <2>2 DEF Fits, Precedes
    <3>2. torn => \A i \in DOMAIN file : file[i].kind = "legacy"
      BY <1>2 DEF UntornInv, Untorn
    <3> QED  BY <3>1, <3>2 DEF Chained
  <2>4. file' = Append(file, stamped[w])
    BY <2>1, <2>3 DEF Glue
  <2>5. /\ Indices(file, {"rotation"}) = {}
        /\ SealedIn(file') = SealedIn(file) + stamped[w].sealed
    BY <1>5, <2>2, <2>4
  <2>6. stamped[w].sealed = failed /\ SealedIn(file) + failed >= counted
    BY <1>6, <2>1, <2>5
  <2>7. SealedIn(file') >= counted' /\ SealedIn(file') + failed' >= counted'
    <3>1. SealedIn(file') = SealedIn(file) + failed
      BY <2>5, <2>6
    <3> QED  BY <1>1, <2>1, <2>6, <3>1
  <2>8. \A v \in Writer : pc'[v] # "stamped"
    <3>1. \A v \in Writer : v # w => pc'[v] \notin Inside
      BY <1>1, <1>7, <2>1 DEF Inside
    <3>2. pc'[w] = "appended"
      BY <1>1, <2>1
    <3> QED  BY <3>1, <3>2 DEF Inside
  <2> QED  BY <2>7, <2>8 DEF SealsKept
<1>14. ASSUME NEW w \in Writer, Finish(w)  PROVE SealsKept'
  <2>1. /\ failed' = IF stamped[w].sealed > 0 THEN 0 ELSE failed
        /\ file' = file /\ counted' = counted /\ stamped' = stamped
        /\ pc[w] = "headed" /\ pc' = [pc EXCEPT ![w] = "idle"]
    BY <1>14 DEF Finish, Goto, ledger
  <2>2. \A v \in Writer : pc'[v] \notin Inside
    <3>1. \A v \in Writer : v # w => pc'[v] \notin Inside
      BY <1>1, <1>7, <2>1 DEF Inside
    <3>2. pc'[w] = "idle"
      BY <1>1, <2>1
    <3> QED  BY <3>1, <3>2 DEF Inside
  <2>3. /\ SealedIn(file) + failed >= counted
        /\ stamped[w].sealed > 0 => SealedIn(file) >= counted
    BY <1>4, <1>6, <2>1
  <2>4. SealedIn(file) + failed' >= counted
    BY <1>1, <2>1, <2>3
  <2> QED  BY <2>1, <2>2, <2>4 DEF SealsKept, Inside
<1>15. ASSUME NEW w \in Writer, RecordWriteFailure(w)  PROVE SealsKept'
  <2>1. /\ file' = file /\ stamped' = stamped /\ pc' = [pc EXCEPT ![w] = "idle"]
        /\ pc[w] = "failing"
    BY <1>15 DEF RecordWriteFailure, Goto, ledger
  <2>2. CASE UNCHANGED <<failed, counted, raced>>
    BY <1>8, <2>1, <2>2 DEF Places
  <2>3. CASE /\ failed' = failed + 1 /\ counted' = counted + 1
             /\ raced' = (raced \/ \E v \in Writer :
                              pc[v] \in {"stamped", "appended", "headed"})
    <3>1. \A v \in Writer : pc[v] \notin {"stamped", "appended", "headed"}
      BY <2>3, Zenon
    <3>2. \A v \in Writer : pc'[v] \notin {"stamped", "appended", "headed"}
      BY <1>1, <2>1, <3>1
    <3>3. SealedIn(file) + failed >= counted
      BY <1>4, <1>6, <2>1
    <3>4. SealedIn(file) + (failed + 1) >= counted + 1
      BY <1>1, <3>3
    <3>5. SealedIn(file)' + failed' >= counted'
      <4>1. SealedIn(file)' = SealedIn(file) /\ failed' = failed + 1 /\ counted' = counted + 1
        BY <2>1, <2>3
      <4> QED  BY <3>4, <4>1
    <3> QED  BY <3>2, <3>5 DEF SealsKept
  <2>4. \/ UNCHANGED <<failed, counted, raced>>
        \/ /\ failed' = failed + 1 /\ counted' = counted + 1
           /\ raced' = (raced \/ \E v \in Writer :
                            pc[v] \in {"stamped", "appended", "headed"})
    BY <1>15, Zenon DEF RecordWriteFailure
  <2> QED  BY <2>2, <2>3, <2>4
<1>16. CASE UNCHANGED vars
  <2>1. /\ file' = file /\ failed' = failed /\ counted' = counted
        /\ stamped' = stamped /\ pc' = pc
    BY <1>16 DEF vars, ledger, history
  <2> QED  BY <1>4, <1>6, <2>1 DEF SealsKept
<1> QED  BY <1>9, <1>10, <1>11, <1>12, <1>13, <1>14, <1>15, <1>16 DEF Next

\* Every failure that was counted is sealed in a row of the file or pending in
\* the counter, unless it was counted while a row that seals earlier ones was
\* being written, or a line was torn, or the file was rotated.
THEOREM LedgerFailuresSealedOrPending == Spec => []FailuresSealedOrPending
<1>1. /\ Inv /\ UntornInv /\ SealsInv /\ [Next]_vars => (Inv /\ UntornInv /\ SealsInv)'
      /\ Init => Inv /\ UntornInv /\ SealsInv
  BY InvStep, UntornStep, SealsStep, InitInv, InitUntorn, InitSeals
<1>2. SealsInv => FailuresSealedOrPending
  <2>1. Sealed = SealedIn(file)
    BY DEF Sealed, SealedIn, Sums
  <2> QED  BY <2>1 DEF SealsInv, SealsKept, FailuresSealedOrPending
<1> QED  BY <1>1, <1>2, PTL DEF Spec
=============================================================================
