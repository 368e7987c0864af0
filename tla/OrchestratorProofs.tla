------------------------- MODULE OrchestratorProofs -------------------------
(***************************************************************************)
(* What ClaudeOrchestrator promises for any number of tasks, slots and     *)
(* processes, any estimates and any limits.                                *)
(*                                                                         *)
(* The methods are operators on the object, three of them loops, so most   *)
(* of the proof is one lemma for each method: what it makes of an object   *)
(* whose books agree (Books), and how far the result may be from it        *)
(* (Follows, Reaches).  That a drain leaves no idle slot (Busy) is not a   *)
(* matter of any one round: the loop stops because a round found nothing   *)
(* to start, or, counted with Fuel, because its rounds have emptied the    *)
(* queue.                                                                  *)
(*                                                                         *)
(* StartedOnce is not inductive: it needs that nothing that waits has been *)
(* started, in the object, in the tasks file while that will still be read *)
(* and in the saves that may yet land in it (Once), and that a fresh task  *)
(* is in none of these (Unseen).                                           *)
(***************************************************************************)
EXTENDS ClaudeOrchestrator, FiniteSetTheorems, SequenceTheorems,
        WellFoundedInduction, TLAPS

(***************************************************************************)
(* Induction, and the loops.                                               *)
(***************************************************************************)

\* Induction up to n, over a set: otherwise there were a least number missing.
LEMMA UpTo ==
    ASSUME NEW n \in Nat, NEW S, 0 \in S, \A k \in 1..n : k - 1 \in S => k \in S
    PROVE  \A k \in 0..n : k \in S
<1> DEFINE M == (0..n) \ S
           upTo(k) == M \cap (0..k)
           T == {upTo(k) : k \in M}
<1> SUFFICES ASSUME M # {}  PROVE FALSE
  OBVIOUS
<1>1. IsWellFoundedOn(StrictSubsetOrdering(0..n), SUBSET (0..n))
  <2>1. IsFiniteSet(0..n)
    BY FS_Interval
  <2>2. FiniteSubsetsOf(0..n) = SUBSET (0..n)
    BY <2>1, FS_FiniteSubsetsOfFinite
  <2> QED  BY <2>2, FS_StrictSubsetOrderingWellFounded
<1>2. T \subseteq SUBSET (0..n) /\ T # {}
  OBVIOUS
<1>3. PICK x \in T : \A y \in T : <<y, x>> \notin StrictSubsetOrdering(0..n)
  <2> HIDE DEF T
  <2> QED  BY <1>1, <1>2, WFMin
<1>4. PICK k \in M : x = upTo(k)
  BY <1>3
<1>5. k \in 1..n /\ k - 1 \in 0..n
  OBVIOUS
<1>6. k - 1 \in M
  BY <1>5
<1>7. upTo(k - 1) \in T /\ upTo(k - 1) \in SUBSET (0..n) /\ x \in SUBSET (0..n)
  BY <1>4, <1>6
<1>8. upTo(k - 1) \subseteq x /\ upTo(k - 1) # x
  <2>1. k \in upTo(k) /\ k \notin upTo(k - 1)
    BY <1>5
  <2>2. 0..(k - 1) \subseteq 0..k
    BY <1>5
  <2> QED  BY <1>4, <2>1, <2>2
<1>9. <<upTo(k - 1), x>> \in StrictSubsetOrdering(0..n)
  BY <1>7, <1>8 DEF StrictSubsetOrdering
<1> QED  BY <1>3, <1>7, <1>9

\* g holds what a loop of n rounds makes of start: step[<<i, x>>] is what round i makes of x.
Iterates(g, n, start, step) ==
    g = [i \in 0..n |-> IF i = 0 THEN start ELSE step[<<i, g[i - 1]>>]]

\* The recursion of a loop has a value, if every round stays within the sets S.
LEMMA LoopExists ==
    ASSUME NEW n \in Nat, NEW start, NEW S, NEW step, start \in S[0],
           \A i \in 1..n : \A x \in S[i - 1] : step[<<i, x>>] \in S[i]
    PROVE  \E g : Iterates(g, n, start, step) /\ \A i \in 0..n : g[i] \in S[i]
<1> DEFINE Is(g, k) ==
        /\ g = [i \in 0..k |-> IF i = 0 THEN start ELSE step[<<i, g[i - 1]>>]]
        /\ \A i \in 0..k : g[i] \in S[i]
    P == {k \in 0..n : \E g : Is(g, k)}
<1>1. 0 \in P
  <2> DEFINE g == [i \in 0..0 |-> start]
  <2>1. g = [i \in 0..0 |-> IF i = 0 THEN start ELSE step[<<i, g[i - 1]>>]]
    OBVIOUS
  <2>2. \A i \in 0..0 : g[i] \in S[i]
    OBVIOUS
  <2> HIDE DEF g
  <2> QED  BY <2>1, <2>2
<1>2. ASSUME NEW k \in 1..n, k - 1 \in P  PROVE k \in P
  <2>1. PICK g : Is(g, k - 1)
    BY <1>2
  <2>2. \A i \in 0..(k - 1) : g[i] = IF i = 0 THEN start ELSE step[<<i, g[i - 1]>>]
    BY <2>1
  <2> DEFINE h == [i \in 0..k |-> IF i = k THEN step[<<k, g[k - 1]>>] ELSE g[i]]
  <2>3. ASSUME NEW i \in 0..k
        PROVE  h[i] = IF i = 0 THEN start ELSE step[<<i, h[i - 1]>>]
    <3>1. CASE i = k
      <4>1. h[k] = step[<<k, g[k - 1]>>] /\ h[k - 1] = g[k - 1] /\ k # 0
        OBVIOUS
      <4> QED  BY <3>1, <4>1
    <3>2. CASE i = 0
      <4>1. h[0] = g[0] /\ 0 \in 0..(k - 1)
        OBVIOUS
      <4> QED  BY <2>2, <3>2, <4>1
    <3>3. CASE i # k /\ i # 0
      <4>1. h[i] = g[i] /\ h[i - 1] = g[i - 1] /\ i \in 0..(k - 1)
        BY <3>3
      <4> QED  BY <2>2, <3>3, <4>1
    <3> QED  BY <3>1, <3>2, <3>3
  <2>4. \A i \in 0..k : h[i] \in S[i]
    <3>1. g[k - 1] \in S[k - 1]
      BY <2>1
    <3>2. \A i \in 0..k : i # k => i \in 0..(k - 1)
      OBVIOUS
    <3> QED  BY <2>1, <3>1, <3>2
  <2>5. h = [i \in 0..k |-> h[i]]
    OBVIOUS
  <2> HIDE DEF h
  <2>6. Is(h, k)
    BY <2>3, <2>4, <2>5
  <2> HIDE DEF Is
  <2> QED  BY <2>6
<1>3. n \in P
  <2> HIDE DEF P
  <2> QED  BY <1>1, <1>2, UpTo
<1> QED  BY <1>3 DEF Iterates

(***************************************************************************)
(* Numbers: the latest time, the tokens of a set.                          *)
(***************************************************************************)

\* A finite set of numbers has a greatest.
LEMMA Greatest ==
    ASSUME NEW S \in SUBSET Nat, IsFiniteSet(S), S # {}
    PROVE  Max(S) \in S /\ \A j \in S : j <= Max(S)
<1> DEFINE P == {k \in Nat : \A U \in SUBSET Nat :
                    /\ IsFiniteSet(U) /\ Cardinality(U) = k /\ U # {}
                    => \E i \in U : \A j \in U : j <= i}
<1>1. 0 \in P
  BY FS_EmptySet
<1>2. ASSUME NEW k \in 1..Cardinality(S), k - 1 \in P  PROVE k \in P
  <2> SUFFICES ASSUME NEW U \in SUBSET Nat, IsFiniteSet(U), Cardinality(U) = k, U # {}
               PROVE  \E i \in U : \A j \in U : j <= i
    OBVIOUS
  <2>1. PICK x \in U : TRUE
    OBVIOUS
  <2> DEFINE V == U \ {x}
  <2>2. IsFiniteSet(V) /\ Cardinality(V) = k - 1
    BY FS_RemoveElement
  <2>3. CASE V = {}
    BY <2>3
  <2>4. CASE V # {}
    <3>1. PICK i \in V : \A j \in V : j <= i
      <4>1. V \in SUBSET Nat
        OBVIOUS
      <4> QED  BY <1>2, <2>2, <2>4, <4>1
    <3>2. CASE x <= i
      BY <3>1, <3>2
    <3>3. CASE i <= x
      <4>1. \A j \in U : j = x \/ j \in V
        OBVIOUS
      <4>2. \A j \in U : j <= x
        <5>1. V \subseteq Nat /\ x \in Nat
          OBVIOUS
        <5> HIDE DEF V
        <5> QED  BY <3>1, <3>3, <4>1, <5>1
      <4> QED  BY <4>2
    <3> QED  BY <3>2, <3>3
  <2> QED  BY <2>3, <2>4
<1>3. Cardinality(S) \in Nat
  BY FS_CardinalityType
<1>4. Cardinality(S) \in P
  <2> HIDE DEF P
  <2> QED  BY <1>1, <1>2, <1>3, UpTo
<1>5. PICK i \in S : \A j \in S : j <= i
  BY <1>4
<1> QED  BY <1>5 DEF Max

\* The finite image of a finite set, of which the provers know no more than that
\* every element of T comes from one of S.
LEMMA FiniteImage ==
    ASSUME NEW S, IsFiniteSet(S), NEW T, NEW f \in [S -> T],
           \A y \in T : \E x \in S : f[x] = y
    PROVE  IsFiniteSet(T)
<1>1. f \in Surjection(S, T)
  BY DEF Surjection
<1> QED  BY <1>1, FS_Surjection

\* Status and doneAt of a task.
Row == [status : Status, doneAt : Nat]

\* Rows of finitely many tasks.
Rows == UNION {[S -> Row] : S \in {S \in SUBSET Task : IsFiniteSet(S)}}

\* Rows, one by one.
LEMMA RowsAre ==
    ASSUME NEW rows
    PROVE  rows \in Rows <=> /\ DOMAIN rows \in SUBSET Task
                             /\ IsFiniteSet(DOMAIN rows)
                             /\ rows \in [DOMAIN rows -> Row]
BY DEF Rows

\* The clock that Ended reads shows a number.
LEMMA NowIsTime ==
    ASSUME NEW rows \in Rows
    PROVE  Now(rows) \in Nat
<1> DEFINE T == {rows[t].doneAt : t \in DOMAIN rows}
           f == [t \in DOMAIN rows |-> rows[t].doneAt]
<1>1. IsFiniteSet(DOMAIN rows) /\ T \in SUBSET Nat
  BY RowsAre DEF Row
<1>2. IsFiniteSet(T)
  <2>1. f \in [DOMAIN rows -> T] /\ \A y \in T : \E x \in DOMAIN rows : f[x] = y
    OBVIOUS
  <2> HIDE DEF T, f
  <2> QED  BY <1>1, <2>1, FiniteImage
<1>3. IsFiniteSet(T \cup {0}) /\ {0} \cup T = T \cup {0} /\ {0} \cup T \in SUBSET Nat
  <2> HIDE DEF T
  <2> QED  BY <1>1, <1>2, FS_AddElement
<1>4. Max({0} \cup T) \in Nat
  <2> HIDE DEF T
  <2> QED  BY <1>3, Greatest
<1> QED  BY <1>4 DEF Now

\* The pairs that SumTokens counts.
Charged(S) == UNION {{t} \X (1..Tokens[t]) : t \in S}

\* Finitely many tasks have finitely many tokens.
LEMMA ChargedFinite ==
    ASSUME NEW S \in SUBSET Task, IsFiniteSet(S)
    PROVE  IsFiniteSet(Charged(S)) /\ SumTokens(S) \in Nat
<1> DEFINE T == {{t} \X (1..Tokens[t]) : t \in S}
           f == [t \in S |-> {t} \X (1..Tokens[t])]
<1>1. IsFiniteSet(T)
  <2>1. f \in [S -> T] /\ \A y \in T : \E x \in S : f[x] = y
    OBVIOUS
  <2> HIDE DEF T, f
  <2> QED  BY <2>1, FiniteImage
<1>2. \A t \in S : IsFiniteSet({t} \X (1..Tokens[t]))
  <2> SUFFICES ASSUME NEW t \in S  PROVE IsFiniteSet({t} \X (1..Tokens[t]))
    OBVIOUS
  <2>1. IsFiniteSet({t}) /\ IsFiniteSet(1..Tokens[t])
    <3>1. Tokens[t] \in Int
      BY OrchestratorAssumption
    <3>2. IsFiniteSet(1..Tokens[t])
      BY <3>1, FS_Interval
    <3>3. IsFiniteSet({t})
      BY FS_Singleton
    <3> QED  BY <3>2, <3>3
  <2> QED  BY <2>1, FS_Product
<1>3. \A U \in T : IsFiniteSet(U)
  BY <1>2
<1>4. IsFiniteSet(UNION T)
  <2> HIDE DEF T
  <2> QED  BY <1>1, <1>3, FS_UNION
<1>5. IsFiniteSet(Charged(S))
  BY <1>4 DEF Charged
<1> QED  BY <1>5, FS_CardinalityType DEF SumTokens, Charged

\* One task more costs its own estimate more.
LEMMA SumTokensAdd ==
    ASSUME NEW S \in SUBSET Task, IsFiniteSet(S), NEW t \in Task \ S
    PROVE  SumTokens(S \cup {t}) = SumTokens(S) + Tokens[t]
<1> DEFINE one == {t} \X (1..Tokens[t])
<1>1. Charged(S \cup {t}) = Charged(S) \cup one
  BY DEF Charged
<1>2. Charged(S) \cap one = {}
  BY DEF Charged
<1>3. IsFiniteSet(one) /\ Cardinality(one) = Tokens[t]
  <2>1. Tokens[t] \in Nat \ {0}
    BY OrchestratorAssumption
  <2>2. IsFiniteSet({t}) /\ Cardinality({t}) = 1
    BY FS_Singleton
  <2>3. IsFiniteSet(1..Tokens[t]) /\ Cardinality(1..Tokens[t]) = Tokens[t]
    BY SMTT(30), <2>1, FS_Interval
  <2>4. IsFiniteSet(one) /\ Cardinality(one) = Cardinality({t}) * Cardinality(1..Tokens[t])
    <3> HIDE DEF one
    <3> QED  BY <2>2, <2>3, FS_Product DEF one
  <2> QED  BY <2>1, <2>2, <2>3, <2>4
<1>4. IsFiniteSet(Charged(S)) /\ Cardinality(Charged(S)) \in Nat
  BY ChargedFinite, FS_CardinalityType
<1>5. Cardinality(Charged(S) \cup one)
        = Cardinality(Charged(S)) + Cardinality(one) - Cardinality({})
  <2> HIDE DEF one
  <2> QED  BY <1>2, <1>3, <1>4, FS_Union
<1>6. Cardinality({}) = 0 /\ Tokens[t] \in Nat
  BY FS_EmptySet, OrchestratorAssumption
<1>7. SumTokens(S \cup {t}) = Cardinality(Charged(S \cup {t})) /\ SumTokens(S) = Cardinality(Charged(S))
  BY DEF SumTokens, Charged
<1> HIDE DEF one
<1>8. Cardinality(Charged(S \cup {t})) = Cardinality(Charged(S)) + Cardinality(one)
  <2>1. Cardinality(Charged(S) \cup one) = Cardinality(Charged(S)) + Cardinality(one)
    <3> DEFINE a == Cardinality(Charged(S))
               b == Cardinality(one)
               e == Cardinality({})
    <3>1. a \in Nat /\ b \in Nat /\ e = 0
      BY <1>3, <1>4, <1>6
    <3>2. Cardinality(Charged(S) \cup one) = a + b - e
      BY <1>5
    <3> HIDE DEF a, b, e
    <3>3. a + b - e = a + b
      BY <3>1
    <3> QED  BY <3>2, <3>3 DEF a, b
  <2> QED  BY <1>1, <2>1
<1> QED  BY <1>3, <1>7, <1>8

\* One task less costs its own estimate less: what the finally of _runTask subtracts.
LEMMA SumTokensRemove ==
    ASSUME NEW S \in SUBSET Task, IsFiniteSet(S), NEW t \in S
    PROVE  SumTokens(S) = SumTokens(S \ {t}) + Tokens[t] /\ SumTokens(S \ {t}) \in Nat
<1>1. S \ {t} \in SUBSET Task /\ IsFiniteSet(S \ {t}) /\ t \in Task \ (S \ {t})
  BY FS_RemoveElement
<1>2. (S \ {t}) \cup {t} = S
  OBVIOUS
<1> QED  BY <1>1, <1>2, SumTokensAdd, ChargedFinite

\* No task, no tokens.
LEMMA NoTokens == SumTokens({}) = 0
<1>1. UNION {{t} \X (1..Tokens[t]) : t \in {}} = {}
  OBVIOUS
<1> QED  BY <1>1, FS_EmptySet DEF SumTokens

\* A set of numbers has a least.
LEMMA Least ==
    ASSUME NEW S \in SUBSET Nat, NEW m \in S
    PROVE  \E i \in S : \A j \in S : i <= j
<1> SUFFICES ASSUME ~\E i \in S : \A j \in S : i <= j  PROVE FALSE
  OBVIOUS
<1> DEFINE P == {k \in Nat : \A j \in 0..k : j \notin S}
<1>1. 0 \in P
  OBVIOUS
<1>2. ASSUME NEW k \in 1..m, k - 1 \in P  PROVE k \in P
  <2>1. \A j \in S : ~(j \in 0..(k - 1))
    BY <1>2
  <2>2. \A j \in S : k <= j
    BY <2>1
  <2>3. k \notin S
    BY <2>2
  <2> QED  BY <1>2, <2>3
<1>3. m \in P
  <2>1. m \in Nat
    OBVIOUS
  <2> HIDE DEF P
  <2>2. \A k \in 0..m : k \in P
    BY ONLY <1>1, <1>2, <2>1, UpTo
  <2> QED  BY <2>1, <2>2
<1> QED  BY <1>3

\* There are n oldest tasks, so that _pruneHistory removes terminal tasks only.
LEMMA OldestAre ==
    ASSUME NEW rows \in Rows, NEW S \in SUBSET DOMAIN rows, NEW n \in 0..Cardinality(S)
    PROVE  Oldest(rows, S, n) \in SUBSET S
<1> DEFINE Are(old, k) ==
            /\ Cardinality(old) = k
            /\ \A t \in old, u \in S \ old : rows[t].doneAt <= rows[u].doneAt
           P == {k \in 0..Cardinality(S) : \E old \in SUBSET S : Are(old, k)}
<1>1. IsFiniteSet(S) /\ \A t \in S : rows[t].doneAt \in Nat
  <2>1. IsFiniteSet(DOMAIN rows)
    BY RowsAre
  <2> QED  BY <2>1, RowsAre, FS_Subset DEF Row
<1>2. Cardinality(S) \in Nat
  BY <1>1, FS_CardinalityType
<1>3. 0 \in P
  <2>1. Are({}, 0) /\ {} \in SUBSET S
    BY FS_EmptySet
  <2> HIDE DEF Are
  <2> QED  BY <1>2, <2>1
<1>4. ASSUME NEW k \in 1..Cardinality(S), k - 1 \in P  PROVE k \in P
  <2>1. PICK old \in SUBSET S : Are(old, k - 1)
    BY <1>4
  <2>2. IsFiniteSet(old)
    BY <1>1, FS_Subset
  <2>3. PICK m \in S \ old : TRUE
    <3>1. old # S
      BY <1>2, <2>1
    <3> QED  BY <3>1
  <2>4. PICK u \in S \ old : \A v \in S \ old : rows[u].doneAt <= rows[v].doneAt
    <3> DEFINE T == {rows[v].doneAt : v \in S \ old}
    <3>1. T \in SUBSET Nat /\ rows[m].doneAt \in T
      BY <1>1
    <3>2. PICK i \in T : \A j \in T : i <= j
      <4> HIDE DEF T
      <4> QED  BY <3>1, Least
    <3>3. PICK u \in S \ old : i = rows[u].doneAt
      OBVIOUS
    <3> QED  BY <3>2, <3>3
  <2> DEFINE more == old \cup {u}
  <2>5. Cardinality(more) = k
    <3>1. Cardinality(more) = Cardinality(old) + 1
      BY <2>2, FS_AddElement
    <3> QED  BY <2>1, <3>1
  <2>6. \A t \in more, v \in S \ more : rows[t].doneAt <= rows[v].doneAt
    BY <2>1, <2>4
  <2>7. Are(more, k) /\ more \in SUBSET S
    BY <2>5, <2>6
  <2> HIDE DEF Are, more
  <2> QED  BY <2>7
<1>5. n \in P
  <2> HIDE DEF P
  <2> QED  BY <1>2, <1>3, <1>4, UpTo
<1>6. PICK old \in SUBSET S : Are(old, n)
  BY <1>5
<1> QED  BY <1>6 DEF Oldest

(***************************************************************************)
(* The queue: a sequence of tasks, none of them twice.                     *)
(***************************************************************************)

\* Queues without repetition.
Queues == {q \in Seq(Task) : \A i, j \in 1..Len(q) : q[i] = q[j] => i = j}

\* A queue is as long as it has tasks.
LEMMA QueueCount ==
    ASSUME NEW q \in Queues
    PROVE  IsFiniteSet(ToSet(q)) /\ Cardinality(ToSet(q)) = Len(q)
<1>1. Len(q) \in Nat /\ q \in [1..Len(q) -> Task] /\ DOMAIN q = 1..Len(q)
  BY LenProperties DEF Queues
<1>2. q \in Surjection(1..Len(q), ToSet(q)) /\ q \in Injection(1..Len(q), ToSet(q))
  BY <1>1 DEF Queues, Surjection, Injection, IsInjective, ToSet
<1>3. IsFiniteSet(1..Len(q)) /\ Cardinality(1..Len(q)) = Len(q)
  BY SMTT(30), <1>1, FS_Interval
<1> QED  BY <1>2, <1>3, FS_Surjection

\* What the members of a sequence of tasks are.
LEMMA QueueOf ==
    ASSUME NEW q \in Seq(Task)
    PROVE  /\ Len(q) \in Nat /\ DOMAIN q = 1..Len(q)
           /\ \A i \in 1..Len(q) : q[i] \in Task
           /\ \A t : t \in ToSet(q) <=> \E i \in 1..Len(q) : q[i] = t
BY LenProperties DEF ToSet

\* Taking the first.
LEMMA QueueTail ==
    ASSUME NEW q \in Queues, q # <<>>
    PROVE  /\ Tail(q) \in Queues /\ Len(Tail(q)) = Len(q) - 1 /\ Len(q) > 0
           /\ Head(q) = q[1] /\ Head(q) \in ToSet(q)
           /\ ToSet(Tail(q)) = ToSet(q) \ {Head(q)}
           /\ \A i \in 1..Len(Tail(q)) : Tail(q)[i] = q[i + 1]
<1>1. q \in Seq(Task) /\ Len(q) \in Nat /\ Len(q) > 0
  BY LenProperties, EmptySeq DEF Queues
<1>2. /\ Tail(q) \in Seq(Task) /\ Len(Tail(q)) = Len(q) - 1
      /\ \A i \in 1..Len(Tail(q)) : Tail(q)[i] = q[i + 1]
  BY <1>1, HeadTailProperties
<1>3. Head(q) = q[1]
  BY <1>1, HeadTailProperties
<1>4. Tail(q) \in Queues
  <2>1. ASSUME NEW i \in 1..Len(Tail(q)), NEW j \in 1..Len(Tail(q)), Tail(q)[i] = Tail(q)[j]
        PROVE  i = j
    <3>1. i + 1 \in 1..Len(q) /\ j + 1 \in 1..Len(q) /\ q[i + 1] = q[j + 1]
      BY <1>1, <1>2, <2>1
    <3>2. i + 1 = j + 1
      BY <3>1 DEF Queues
    <3> QED  BY <1>1, <1>2, <3>2
  <2> QED  BY <1>2, <2>1 DEF Queues
<1>5. ASSUME NEW t  PROVE t \in ToSet(Tail(q)) <=> t \in ToSet(q) \ {Head(q)}
  <2>1. ASSUME NEW i \in 1..Len(Tail(q)), Tail(q)[i] = t  PROVE t \in ToSet(q) \ {Head(q)}
    <3>1. i + 1 \in 1..Len(q) /\ q[i + 1] = t /\ i + 1 # 1 /\ 1 \in 1..Len(q)
      BY <1>1, <1>2, <2>1
    <3> QED  BY <1>1, <1>3, <3>1, QueueOf DEF Queues
  <2>2. ASSUME NEW i \in 1..Len(q), q[i] = t, t # Head(q)  PROVE t \in ToSet(Tail(q))
    <3>1. i - 1 \in 1..Len(Tail(q)) /\ Tail(q)[i - 1] = q[i]
      BY <1>1, <1>2, <1>3, <2>2
    <3> QED  BY <1>2, <2>2, <3>1, QueueOf
  <2> QED  BY <1>1, <1>2, <2>1, <2>2, QueueOf
<1> QED  BY <1>1, <1>2, <1>3, <1>4, <1>5, QueueOf

\* A task that was not in the queue goes to its end.
LEMMA QueueAppend ==
    ASSUME NEW q \in Queues, NEW t \in Task \ ToSet(q)
    PROVE  /\ Append(q, t) \in Queues /\ Len(Append(q, t)) = Len(q) + 1
           /\ ToSet(Append(q, t)) = ToSet(q) \cup {t}
           /\ \A i \in 1..Len(q) : Append(q, t)[i] = q[i]
           /\ Append(q, t)[Len(q) + 1] = t
<1>1. q \in Seq(Task) /\ Len(q) \in Nat
  BY LenProperties DEF Queues
<1>2. /\ Append(q, t) \in Seq(Task) /\ Len(Append(q, t)) = Len(q) + 1
      /\ \A i \in 1..Len(q) : Append(q, t)[i] = q[i]
      /\ Append(q, t)[Len(q) + 1] = t
  BY <1>1, AppendProperties
<1>3. \A i \in 1..Len(q) : q[i] # t
  BY <1>1, QueueOf
<1>4. \A i \in 1..Len(q) + 1 : i = Len(q) + 1 \/ i \in 1..Len(q)
  BY <1>1
<1>5. Append(q, t) \in Queues
  BY <1>1, <1>2, <1>3, <1>4 DEF Queues
<1>6. ASSUME NEW u  PROVE u \in ToSet(Append(q, t)) <=> u \in ToSet(q) \/ u = t
  <2>1. Len(q) + 1 \in 1..Len(q) + 1 /\ 1..Len(q) \subseteq 1..Len(q) + 1
    BY <1>1
  <2>2. u \in ToSet(Append(q, t)) <=> \E i \in 1..Len(q) + 1 : Append(q, t)[i] = u
    <3> DEFINE r == Append(q, t)
    <3>1. r \in Seq(Task) /\ Len(r) = Len(q) + 1
      BY <1>2
    <3> HIDE DEF r
    <3>2. u \in ToSet(r) <=> \E i \in 1..Len(q) + 1 : r[i] = u
      BY <3>1, QueueOf
    <3> QED  BY <3>2 DEF r
  <2>3. u \in ToSet(q) <=> \E i \in 1..Len(q) : q[i] = u
    BY <1>1, QueueOf
  <2> QED  BY <1>2, <1>4, <2>1, <2>2, <2>3
<1> QED  BY <1>2, <1>5, <1>6

\* A sequence without its ith element.
LEMMA RemoveAtIs ==
    ASSUME NEW X, NEW q \in Seq(X), NEW i \in 1..Len(q), NEW r, r = RemoveAt(q, i)
    PROVE  /\ r \in Seq(X) /\ Len(r) = Len(q) - 1
           /\ \A j \in 1..(Len(q) - 1) : r[j] = IF j < i THEN q[j] ELSE q[j + 1]
<1>1. Len(q) \in Nat /\ \A k \in 1..Len(q) : q[k] \in X
  BY LenProperties, ElementOfSeq
<1> DEFINE a == SubSeq(q, 1, i - 1)
           b == SubSeq(q, i + 1, Len(q))
<1>2. r = a \o b
  BY DEF RemoveAt
<1>3. /\ a \in Seq(X) /\ Len(a) = i - 1
      /\ \A j \in 1..(i - 1) : a[j] = q[j]
  <2>1. \A j \in 1..(i - 1) : q[j] \in X
    BY <1>1
  <2> QED  BY <1>1, <2>1, SubSeqProperties
<1>4. /\ b \in Seq(X) /\ Len(b) = Len(q) - i
      /\ \A j \in 1..(Len(q) - i) : b[j] = q[j + i]
  <2>1. \A j \in (i + 1)..Len(q) : q[j] \in X
    BY <1>1
  <2>2. i + 1 \in Int /\ Len(q) \in Int
    BY <1>1
  <2>3. /\ b \in Seq(X)
        /\ Len(b) = IF i + 1 <= Len(q) THEN Len(q) - (i + 1) + 1 ELSE 0
        /\ \A j \in 1..Len(q) - (i + 1) + 1 : b[j] = q[(i + 1) + j - 1]
    BY <2>1, <2>2, SubSeqProperties
  <2>4. Len(b) = Len(q) - i
    <3>1. i \in 1..Len(q) /\ Len(q) \in Nat
      BY <1>1
    <3>2. (IF i + 1 <= Len(q) THEN Len(q) - (i + 1) + 1 ELSE 0) = Len(q) - i
      BY <3>1
    <3> HIDE DEF b
    <3> QED  BY <2>3, <3>2
  <2>5. ASSUME NEW j \in 1..(Len(q) - i)  PROVE b[j] = q[j + i]
    <3>1. j \in 1..Len(q) - (i + 1) + 1 /\ (i + 1) + j - 1 = j + i
      BY <1>1
    <3> QED  BY <2>3, <3>1
  <2> QED  BY <2>3, <2>4, <2>5
<1> HIDE DEF a, b
<1>5. /\ r \in Seq(X) /\ Len(r) = Len(q) - 1
      /\ \A j \in 1..(Len(q) - 1) : r[j] = IF j < i THEN q[j] ELSE q[j + 1]
  <2> DEFINE c == a \o b
  <2>4. /\ c \in Seq(X) /\ Len(c) = Len(a) + Len(b)
        /\ \A j \in 1..Len(a) + Len(b) : c[j] = IF j <= Len(a) THEN a[j] ELSE b[j - Len(a)]
    BY <1>3, <1>4, ConcatProperties
  <2> HIDE DEF c
  <2>1. /\ r \in Seq(X) /\ Len(r) = Len(a) + Len(b)
        /\ \A j \in 1..Len(a) + Len(b) : r[j] = IF j <= Len(a) THEN a[j] ELSE b[j - Len(a)]
    BY <1>2, <2>4 DEF c
  <2>2. Len(a) + Len(b) = Len(q) - 1
    BY <1>1, <1>3, <1>4
  <2>3. ASSUME NEW j \in 1..(Len(q) - 1)  PROVE r[j] = IF j < i THEN q[j] ELSE q[j + 1]
    <3>1. CASE j < i
      <4>1. j \in 1..(i - 1)
        BY <3>1
      <4> QED  BY <1>3, <2>1, <2>2, <3>1, <4>1
    <3>2. CASE ~(j < i)
      <4>1. j - (i - 1) \in 1..(Len(q) - i) /\ j - (i - 1) + i = j + 1 /\ ~(j <= i - 1)
        BY <1>1, <3>2
      <4> QED  BY <1>3, <1>4, <2>1, <2>2, <3>2, <4>1
    <3> QED  BY <3>1, <3>2
  <2> QED  BY <2>1, <2>2, <2>3
<1> QED  BY <1>5

\* Taking one out.
LEMMA QueueRemove ==
    ASSUME NEW q \in Queues, NEW t \in ToSet(q)
    PROVE  /\ RemoveFirst(q, t) \in Queues /\ Len(RemoveFirst(q, t)) = Len(q) - 1
           /\ ToSet(RemoveFirst(q, t)) = ToSet(q) \ {t}
<1>1. /\ q \in Seq(Task) /\ Len(q) \in Nat /\ DOMAIN q = 1..Len(q)
      /\ \A i \in 1..Len(q) : q[i] \in Task
  BY QueueOf DEF Queues
<1>2. PICK i \in 1..Len(q) : q[i] = t
  BY <1>1, QueueOf
<1>3. {j \in 1..Len(q) : q[j] = t} = {i}
  BY <1>2 DEF Queues
<1>4. SelectInSeq(q, LAMBDA v : v = t) = i
  <2>1. Min({i}) = i
    BY <1>2 DEF Min
  <2> QED  BY <1>3, <2>1 DEF SelectInSeq
<1>5. PICK r : r = RemoveAt(q, i)
  OBVIOUS
<1>6. RemoveFirst(q, t) = r
  BY <1>2, <1>4, <1>5 DEF RemoveFirst
<1>7. /\ r \in Seq(Task) /\ Len(r) = Len(q) - 1
      /\ \A j \in 1..(Len(q) - 1) : r[j] = IF j < i THEN q[j] ELSE q[j + 1]
  <2>1. q \in Seq(Task) /\ i \in 1..Len(q)
    BY <1>1, <1>2
  <2> QED  BY SMTT(30), <1>5, <2>1, RemoveAtIs
<1>8. r \in Queues
  BY <1>1, <1>7 DEF Queues
<1>9. ASSUME NEW u  PROVE u \in ToSet(r) <=> u \in ToSet(q) \ {t}
  <2>1. ASSUME NEW j \in 1..Len(r), r[j] = u  PROVE u \in ToSet(q) \ {t}
    <3>1. \E k \in 1..Len(q) : k # i /\ q[k] = u
      <4>1. CASE j < i
        BY <1>1, <1>7, <2>1, <4>1
      <4>2. CASE ~(j < i)
        <5>1. j + 1 \in 1..Len(q) /\ j + 1 # i /\ q[j + 1] = u
          BY <1>1, <1>7, <2>1, <4>2
        <5> QED  BY <5>1
      <4> QED  BY <4>1, <4>2
    <3> QED  BY <1>1, <1>2, <3>1, QueueOf DEF Queues
  <2>2. ASSUME NEW k \in 1..Len(q), q[k] = u, u # t  PROVE u \in ToSet(r)
    <3>1. \E j \in 1..Len(r) : r[j] = u
      <4>1. CASE k < i
        BY <1>1, <1>7, <2>2, <4>1
      <4>2. CASE ~(k < i)
        <5>1. k - 1 \in 1..Len(r) /\ ~(k - 1 < i) /\ k - 1 + 1 = k
          BY <1>1, <1>2, <1>7, <2>2, <4>2
        <5> QED  BY <1>7, <2>2, <5>1
      <4> QED  BY <4>1, <4>2
    <3> QED  BY <1>7, <3>1, QueueOf
  <2> QED  BY <1>1, <1>7, <2>1, <2>2, QueueOf
<1> QED  BY <1>6, <1>7, <1>8, <1>9

(***************************************************************************)
(* The methods that do not loop.                                           *)
(***************************************************************************)

\* The tasks whose status is running.
Running(rows) == {t \in DOMAIN rows : rows[t].status = "running"}

\* A save that is under way.
Write == [file : Rows, old : BOOLEAN]

\* The values of the record orch.
Object ==
    [tasks : Rows, queue : Seq(Task), running : SUBSET Task, activeTokens : Nat,
     callbacks : SUBSET Task, aborted : SUBSET Task, writes : Seq(Write),
     starts : [Task -> Nat]]

\* The fields that only starting and freeing a slot change.
SameSlots(o, p) ==
    /\ p.running = o.running /\ p.activeTokens = o.activeTokens
    /\ p.aborted = o.aborted /\ p.starts = o.starts

\* One save more, of no other tasks, and of none as pending that is not.
Wrote(o, p) ==
    \E f \in Rows :
        /\ p.writes = Append(o.writes, [file |-> f, old |-> FALSE])
        /\ DOMAIN f \subseteq DOMAIN o.tasks /\ Pending(f) \subseteq Pending(o.tasks)

\* What a change of status makes of the pending and the running tasks.
LEMMA PutIs ==
    ASSUME NEW rows \in Rows, NEW t \in Task, NEW status \in Status, NEW at \in Nat,
           NEW p, p = Put(rows, t, status, at)
    PROVE  /\ p \in Rows
           /\ \A u : u \in DOMAIN p <=> u = t \/ u \in DOMAIN rows
           /\ \A u : u \in Pending(p) <=>
                        IF u = t THEN status = "pending" ELSE u \in Pending(rows)
           /\ \A u : u \in Running(p) <=>
                        IF u = t THEN status = "running" ELSE u \in Running(rows)
<1>1. DOMAIN rows \in SUBSET Task /\ IsFiniteSet(DOMAIN rows) /\ rows \in [DOMAIN rows -> Row]
  BY RowsAre
<1>2. /\ DOMAIN p = DOMAIN rows \cup {t} /\ p = [u \in DOMAIN p |-> p[u]]
      /\ \A u \in DOMAIN p : p[u] = IF u = t THEN [status |-> status, doneAt |-> at] ELSE rows[u]
  BY DEF Put
<1>3. IsFiniteSet(DOMAIN p)
  BY <1>1, <1>2, FS_AddElement
<1>4. p \in Rows
  <2>1. \A u \in DOMAIN p : p[u] \in Row
    BY <1>1, <1>2 DEF Row
  <2>2. p \in [DOMAIN p -> Row] /\ DOMAIN p \in SUBSET Task
    BY <1>1, <1>2, <2>1
  <2> QED  BY <1>3, <2>2, RowsAre
<1> QED  BY <1>2, <1>4 DEF Pending, Running

\* A task that ends is neither pending nor running; the rest is as it was.
LEMMA EndedIs ==
    ASSUME NEW o \in Object, NEW t \in DOMAIN o.tasks, NEW p, p = Ended(o, t)
    PROVE  /\ p \in Object /\ SameSlots(o, p)
           /\ p.queue = o.queue /\ p.callbacks = o.callbacks /\ p.writes = o.writes
           /\ DOMAIN p.tasks = DOMAIN o.tasks
           /\ Pending(p.tasks) = Pending(o.tasks) \ {t}
           /\ Running(p.tasks) = Running(o.tasks) \ {t}
<1>1. o.tasks \in Rows /\ t \in Task
  BY RowsAre DEF Object
<1> DEFINE rows == Put(o.tasks, t, "ended", Now(o.tasks))
<1>2. Now(o.tasks) \in Nat /\ "ended" \in Status
  BY <1>1, NowIsTime DEF Status
<1>3. /\ rows \in Rows
      /\ \A u : u \in DOMAIN rows <=> u = t \/ u \in DOMAIN o.tasks
      /\ \A u : u \in Pending(rows) <=> IF u = t THEN "ended" = "pending" ELSE u \in Pending(o.tasks)
      /\ \A u : u \in Running(rows) <=> IF u = t THEN "ended" = "running" ELSE u \in Running(o.tasks)
  BY <1>1, <1>2, PutIs
<1>4. p = [o EXCEPT !.tasks = rows]
  BY DEF Ended
<1> HIDE DEF rows
<1>5. /\ DOMAIN rows = DOMAIN o.tasks
      /\ Pending(rows) = Pending(o.tasks) \ {t} /\ Running(rows) = Running(o.tasks) \ {t}
  BY <1>3
<1> QED  BY <1>3, <1>4, <1>5 DEF Object, SameSlots

\* _fireCompletion drops the one callback and changes nothing else.
LEMMA FireCompletionIs ==
    ASSUME NEW o \in Object, NEW t \in Task, NEW p, p = FireCompletion(o, t)
    PROVE  /\ p \in Object /\ SameSlots(o, p)
           /\ p.queue = o.queue /\ p.tasks = o.tasks /\ p.writes = o.writes
           /\ p.callbacks = o.callbacks \ {t}
BY DEF FireCompletion, Object, SameSlots

\* A save adds one write, in which the pending tasks are those of the object.
LEMMA SaveIs ==
    ASSUME NEW o \in Object, NEW p, p = Save(o)
    PROVE  /\ p \in Object /\ SameSlots(o, p)
           /\ p.queue = o.queue /\ p.tasks = o.tasks /\ p.callbacks = o.callbacks
           /\ Wrote(o, p)
           /\ Snapshot(o) \in Rows
           /\ DOMAIN Snapshot(o) = DOMAIN o.tasks /\ Pending(Snapshot(o)) = Pending(o.tasks)
<1> DEFINE f == Snapshot(o)
           w == [file |-> f, old |-> FALSE]
<1>1. /\ DOMAIN f = DOMAIN o.tasks /\ f = [u \in DOMAIN f |-> f[u]]
      /\ \A u \in DOMAIN f : f[u] = IF o.tasks[u].status = "running"
                                    THEN [status |-> "ended", doneAt |-> 0] ELSE o.tasks[u]
  BY DEF Snapshot
<1>2. p = [o EXCEPT !.writes = Append(o.writes, w)]
  BY DEF Save
<1> HIDE DEF f
<1>3. f \in Rows
  <2>1. DOMAIN f \in SUBSET Task /\ IsFiniteSet(DOMAIN f) /\ o.tasks \in [DOMAIN f -> Row]
    BY <1>1, RowsAre DEF Object
  <2>2. \A u \in DOMAIN f : f[u] \in Row
    BY <1>1, <2>1 DEF Row, Status
  <2>3. f \in [DOMAIN f -> Row]
    BY <1>1, <2>2
  <2> QED  BY <2>1, <2>3, RowsAre
<1>4. Pending(f) = Pending(o.tasks)
  BY <1>1 DEF Pending
<1>5. Append(o.writes, w) \in Seq(Write)
  <2>1. w \in Write /\ o.writes \in Seq(Write)
    BY <1>3 DEF Write, Object
  <2> QED  BY <2>1, AppendProperties
<1>6. p \in Object /\ SameSlots(o, p) /\ p.queue = o.queue /\ p.tasks = o.tasks
      /\ p.callbacks = o.callbacks /\ p.writes = Append(o.writes, w)
  <2> HIDE DEF w
  <2> QED  BY <1>2, <1>5 DEF Object, SameSlots
<1>7. Wrote(o, p)
  BY <1>1, <1>3, <1>4, <1>6 DEF Wrote
<1> QED  BY <1>1, <1>3, <1>4, <1>6, <1>7 DEF f

\* _pruneHistory loses no task that is pending or running.
LEMMA PruneHistoryIs ==
    ASSUME NEW o \in Object, NEW p, p = PruneHistory(o)
    PROVE  /\ p \in Object /\ SameSlots(o, p)
           /\ p.queue = o.queue /\ p.callbacks = o.callbacks /\ p.writes = o.writes
           /\ DOMAIN p.tasks \subseteq DOMAIN o.tasks
           /\ Pending(p.tasks) = Pending(o.tasks) /\ Running(p.tasks) = Running(o.tasks)
<1> DEFINE rows == o.tasks
           terminal == {t \in DOMAIN rows : rows[t].status = "ended"}
           excess == Cardinality(DOMAIN rows) - MaxHistory
           n == IF excess > Cardinality(terminal) THEN Cardinality(terminal) ELSE excess
           gone == Oldest(rows, terminal, n)
           left == [t \in DOMAIN rows \ gone |-> rows[t]]
<1>1. CASE excess <= 0
  <2>1. p = o
    BY <1>1 DEF PruneHistory
  <2> QED  BY <2>1 DEF SameSlots
<1>2. CASE ~(excess <= 0)
  <2>1. p = [o EXCEPT !.tasks = left]
    BY <1>2 DEF PruneHistory
  <2>2. rows \in Rows /\ DOMAIN rows \in SUBSET Task /\ IsFiniteSet(DOMAIN rows)
        /\ rows \in [DOMAIN rows -> Row]
    BY RowsAre DEF Object
  <2>3. gone \subseteq terminal
    <3>1. Cardinality(DOMAIN rows) \in Nat /\ Cardinality(terminal) \in Nat /\ MaxHistory \in Nat
      BY <2>2, FS_CardinalityType, FS_Subset, OrchestratorAssumption
    <3>2. n \in 0..Cardinality(terminal)
      <4> HIDE DEF terminal
      <4> QED  BY <1>2, <3>1
    <3> HIDE DEF n
    <3> QED  BY <2>2, <3>2, OldestAre
  <2> HIDE DEF gone
  <2>4. left \in Rows
    <3>1. DOMAIN left = DOMAIN rows \ gone /\ DOMAIN left \in SUBSET Task
          /\ IsFiniteSet(DOMAIN left) /\ left \in [DOMAIN left -> Row]
      BY <2>2, FS_Subset
    <3> HIDE DEF left
    <3> QED  BY <3>1, RowsAre
  <2>5. Pending(left) = Pending(rows) /\ Running(left) = Running(rows)
        /\ DOMAIN left \subseteq DOMAIN rows
    BY <2>3 DEF Pending, Running
  <2> HIDE DEF left
  <2> QED  BY <2>1, <2>4, <2>5 DEF Object, SameSlots
<1> QED  BY <1>1, <1>2

\* From o to p the task t has ended without having run, and its waiter been told.
Refused(o, t, p) ==
    /\ p \in Object /\ SameSlots(o, p) /\ Wrote(o, p)
    /\ p.queue = o.queue /\ p.callbacks = o.callbacks \ {t}
    /\ DOMAIN p.tasks \subseteq DOMAIN o.tasks
    /\ Pending(p.tasks) = Pending(o.tasks) \ {t}
    /\ Running(p.tasks) = Running(o.tasks) \ {t}

\* _refuseTask, whole: status, callback, save and pruning.
LEMMA RefuseTaskIs ==
    ASSUME NEW o \in Object, NEW t \in DOMAIN o.tasks, NEW p, p = RefuseTask(o, t)
    PROVE  Refused(o, t, p)
<1>1. t \in Task
  BY RowsAre DEF Object
<1>2. PICK a : a = Ended(o, t)
  OBVIOUS
<1>3. PICK b : b = FireCompletion(a, t)
  OBVIOUS
<1>4. PICK c : c = Save(b)
  OBVIOUS
<1>5. p = PruneHistory(c)
  BY <1>2, <1>3, <1>4 DEF RefuseTask, Then
<1>6. /\ a \in Object /\ SameSlots(o, a)
      /\ a.queue = o.queue /\ a.callbacks = o.callbacks /\ a.writes = o.writes
      /\ DOMAIN a.tasks = DOMAIN o.tasks
      /\ Pending(a.tasks) = Pending(o.tasks) \ {t}
      /\ Running(a.tasks) = Running(o.tasks) \ {t}
  BY <1>2, EndedIs
<1>7. /\ b \in Object /\ SameSlots(a, b)
      /\ b.queue = a.queue /\ b.tasks = a.tasks /\ b.writes = a.writes
      /\ b.callbacks = a.callbacks \ {t}
  BY <1>1, <1>3, <1>6, FireCompletionIs
<1>8. /\ c \in Object /\ SameSlots(b, c)
      /\ c.queue = b.queue /\ c.tasks = b.tasks /\ c.callbacks = b.callbacks
      /\ Wrote(b, c)
  BY <1>4, <1>7, SaveIs
<1>9. /\ p \in Object /\ SameSlots(c, p)
      /\ p.queue = c.queue /\ p.callbacks = c.callbacks /\ p.writes = c.writes
      /\ DOMAIN p.tasks \subseteq DOMAIN c.tasks
      /\ Pending(p.tasks) = Pending(c.tasks) /\ Running(p.tasks) = Running(c.tasks)
  BY <1>5, <1>8, PruneHistoryIs
<1>10. Wrote(o, p)
  <2>1. PICK f \in Rows :
            /\ c.writes = Append(b.writes, [file |-> f, old |-> FALSE])
            /\ DOMAIN f \subseteq DOMAIN b.tasks /\ Pending(f) \subseteq Pending(b.tasks)
    BY <1>8 DEF Wrote
  <2>2. /\ p.writes = Append(o.writes, [file |-> f, old |-> FALSE])
        /\ DOMAIN f \subseteq DOMAIN o.tasks /\ Pending(f) \subseteq Pending(o.tasks)
    BY <1>6, <1>7, <1>9, <2>1
  <2> QED  BY <2>2 DEF Wrote
<1>11. SameSlots(o, p)
  BY <1>6, <1>7, <1>8, <1>9 DEF SameSlots
<1> QED  BY <1>6, <1>7, <1>8, <1>9, <1>10, <1>11 DEF Refused

\* From o to p the task t has been started.
Started(o, t, p) ==
    /\ p \in Object
    /\ p.queue = o.queue /\ p.callbacks = o.callbacks /\ p.writes = o.writes
    /\ p.aborted = o.aborted
    /\ DOMAIN p.tasks = DOMAIN o.tasks
    /\ Pending(p.tasks) = Pending(o.tasks) \ {t}
    /\ Running(p.tasks) = Running(o.tasks) \cup {t}
    /\ p.running = o.running \cup {t}
    /\ p.activeTokens = o.activeTokens + Tokens[t]
    /\ p.starts = [o.starts EXCEPT ![t] = @ + 1]

\* _runTask up to the driver: the slot, the tokens and the start are counted together.
LEMMA RunTaskIs ==
    ASSUME NEW o \in Object, NEW t \in DOMAIN o.tasks, NEW p, p = RunTask(o, t)
    PROVE  Started(o, t, p)
<1>1. o.tasks \in Rows /\ t \in Task /\ Tokens[t] \in Nat
  BY RowsAre, OrchestratorAssumption DEF Object
<1> DEFINE rows == Put(o.tasks, t, "running", 0)
<1>2. "running" \in Status /\ 0 \in Nat
  BY DEF Status
<1>3. /\ rows \in Rows
      /\ \A u : u \in DOMAIN rows <=> u = t \/ u \in DOMAIN o.tasks
      /\ \A u : u \in Pending(rows) <=> IF u = t THEN "running" = "pending" ELSE u \in Pending(o.tasks)
      /\ \A u : u \in Running(rows) <=> IF u = t THEN "running" = "running" ELSE u \in Running(o.tasks)
  BY <1>1, <1>2, PutIs
<1>4. p = [o EXCEPT !.tasks = rows, !.running = @ \cup {t},
                    !.activeTokens = @ + Tokens[t], !.starts[t] = @ + 1]
  BY DEF RunTask
<1> HIDE DEF rows
<1>5. /\ DOMAIN rows = DOMAIN o.tasks
      /\ Pending(rows) = Pending(o.tasks) \ {t} /\ Running(rows) = Running(o.tasks) \cup {t}
  BY <1>3
<1>6. /\ p.tasks = rows /\ p.queue = o.queue /\ p.running = o.running \cup {t}
      /\ p.activeTokens = o.activeTokens + Tokens[t] /\ p.callbacks = o.callbacks
      /\ p.aborted = o.aborted /\ p.writes = o.writes
      /\ p.starts = [o.starts EXCEPT ![t] = @ + 1]
  BY <1>4 DEF Object
<1>7. p \in Object
  <2>1. /\ rows \in Rows /\ o.running \cup {t} \in SUBSET Task
        /\ o.activeTokens + Tokens[t] \in Nat
        /\ [o.starts EXCEPT ![t] = @ + 1] \in [Task -> Nat]
    BY <1>1, <1>3 DEF Object
  <2> QED  BY <1>4, <2>1 DEF Object
<1> QED  BY <1>5, <1>6, <1>7 DEF Started

(***************************************************************************)
(* The books of an object, and what a drain may do to it.                  *)
(***************************************************************************)

\* BooksAgree, and WaitingIsLive, of any object.
Books(o) ==
    /\ o.queue \in Queues
    /\ ToSet(o.queue) = Pending(o.tasks)
    /\ o.running = Running(o.tasks)
    /\ o.activeTokens = SumTokens(o.running)
    /\ o.aborted \subseteq o.running
    /\ Cardinality(o.running) <= MaxConcurrent
    /\ Len(o.queue) + Cardinality(o.running) <= MaxQueue
    /\ Cardinality(o.running) > 1 => o.activeTokens <= MaxTokenBudget
    /\ o.callbacks \subseteq Pending(o.tasks) \cup o.running

\* The task t is over the token budget beside what runs.
NoFit(o, t) == o.running # {} /\ o.activeTokens + Tokens[t] > MaxTokenBudget

\* NoIdleSlot, of any object.
Busy(o) == Cardinality(o.running) < MaxConcurrent => \A t \in Pending(o.tasks) : NoFit(o, t)

\* From o to p no task has come in but those of S, none is pending but those and what
\* was, what was started is of these too and pending no more, and the same is true of
\* what was saved.
Reaches(o, p, S) ==
    /\ DOMAIN p.tasks \subseteq DOMAIN o.tasks \cup S
    /\ Pending(p.tasks) \subseteq Pending(o.tasks) \cup S
    /\ \A t \in Task :
        \/ p.starts[t] = o.starts[t]
        \/ p.starts[t] = o.starts[t] + 1 /\ t \in (Pending(o.tasks) \cup S) \ Pending(p.tasks)
    /\ \A j \in DOMAIN p.writes :
        \/ \E i \in DOMAIN o.writes : p.writes[j] = o.writes[i]
        \/ /\ DOMAIN p.writes[j].file \subseteq DOMAIN o.tasks \cup S
           /\ Pending(p.writes[j].file) \subseteq Pending(o.tasks) \cup S

\* Nothing done is a way to get there.
LEMMA ReachesIsReflexive == \A o : Reaches(o, o, {})
BY DEF Reaches

\* One way after another, if the second takes in no task that the first one had.
LEMMA ReachesIsTransitive ==
    ASSUME NEW o, NEW p, NEW q, NEW S, NEW T, Reaches(o, p, S), Reaches(p, q, T),
           T \cap (S \cup Pending(o.tasks)) = {}
    PROVE  Reaches(o, q, S \cup T)
<1>1. DOMAIN q.tasks \subseteq DOMAIN o.tasks \cup (S \cup T)
      /\ Pending(q.tasks) \subseteq Pending(o.tasks) \cup (S \cup T)
  BY DEF Reaches
<1>2. ASSUME NEW t \in Task
      PROVE  \/ q.starts[t] = o.starts[t]
             \/ /\ q.starts[t] = o.starts[t] + 1
                /\ t \in (Pending(o.tasks) \cup (S \cup T)) \ Pending(q.tasks)
  BY DEF Reaches
<1>3. ASSUME NEW j \in DOMAIN q.writes
      PROVE  \/ \E i \in DOMAIN o.writes : q.writes[j] = o.writes[i]
             \/ /\ DOMAIN q.writes[j].file \subseteq DOMAIN o.tasks \cup (S \cup T)
                /\ Pending(q.writes[j].file) \subseteq Pending(o.tasks) \cup (S \cup T)
  <2>1. CASE \E k \in DOMAIN p.writes : q.writes[j] = p.writes[k]
    BY <2>1 DEF Reaches
  <2>2. CASE /\ DOMAIN q.writes[j].file \subseteq DOMAIN p.tasks \cup T
             /\ Pending(q.writes[j].file) \subseteq Pending(p.tasks) \cup T
    BY <2>2 DEF Reaches
  <2> QED  BY <2>1, <2>2 DEF Reaches
<1> QED  BY <1>1, <1>2, <1>3 DEF Reaches

\* What was pending may have been started, and no task has come in.
Follows(o, p) == Reaches(o, p, {})

\* The same where no task comes in.
LEMMA FollowsIsTransitive ==
    ASSUME NEW o, NEW p, NEW q, Follows(o, p), Follows(p, q)
    PROVE  Follows(o, q)
<1>1. {} \cup {} = {} /\ {} \cap ({} \cup Pending(o.tasks)) = {}
  OBVIOUS
<1> QED  BY <1>1, ReachesIsTransitive DEF Follows

\* A save takes nothing into the file but what is there.
LEMMA WroteFollows ==
    ASSUME NEW o \in Object, NEW p, Wrote(o, p)
    PROVE  \A j \in DOMAIN p.writes :
        \/ \E i \in DOMAIN o.writes : p.writes[j] = o.writes[i]
        \/ /\ DOMAIN p.writes[j].file \subseteq DOMAIN o.tasks
           /\ Pending(p.writes[j].file) \subseteq Pending(o.tasks)
<1>1. PICK f \in Rows :
        /\ p.writes = Append(o.writes, [file |-> f, old |-> FALSE])
        /\ DOMAIN f \subseteq DOMAIN o.tasks /\ Pending(f) \subseteq Pending(o.tasks)
  BY DEF Wrote
<1> DEFINE w == [file |-> f, old |-> FALSE]
<1>2. w \in Write /\ o.writes \in Seq(Write)
  BY DEF Write, Object
<1>3. /\ DOMAIN o.writes = 1..Len(o.writes) /\ Len(o.writes) \in Nat
      /\ DOMAIN p.writes = 1..(Len(o.writes) + 1)
      /\ \A i \in 1..Len(o.writes) : p.writes[i] = o.writes[i]
      /\ p.writes[Len(o.writes) + 1] = w
  <2> HIDE DEF w
  <2>1. p.writes = Append(o.writes, w)
    BY <1>1 DEF w
  <2>2. Append(o.writes, w) \in Seq(Write) /\ Len(Append(o.writes, w)) = Len(o.writes) + 1
        /\ \A i \in 1..Len(o.writes) : Append(o.writes, w)[i] = o.writes[i]
        /\ Append(o.writes, w)[Len(o.writes) + 1] = w
    BY <1>2, AppendProperties
  <2>3. DOMAIN Append(o.writes, w) = 1..(Len(o.writes) + 1)
    BY <2>2, LenProperties
  <2> QED  BY <1>2, <2>1, <2>2, <2>3, LenProperties
<1>4. \A j \in DOMAIN p.writes : j \in DOMAIN o.writes \/ j = Len(o.writes) + 1
  BY <1>3
<1>5. w.file = f
  OBVIOUS
<1> HIDE DEF w
<1> QED  BY <1>1, <1>3, <1>4, <1>5

\* The running tasks can be counted.
LEMMA RunningFinite ==
    ASSUME NEW o \in Object
    PROVE  /\ Running(o.tasks) \in SUBSET Task /\ IsFiniteSet(Running(o.tasks))
           /\ Cardinality(Running(o.tasks)) \in Nat
<1>1. IsFiniteSet(DOMAIN o.tasks) /\ DOMAIN o.tasks \in SUBSET Task
  BY RowsAre DEF Object
<1>2. Running(o.tasks) \in SUBSET DOMAIN o.tasks
  BY DEF Running
<1> QED  BY <1>1, <1>2, FS_Subset, FS_CardinalityType

\* A task of the queue is pending, and none is that and running.
LEMMA HeadIsPending ==
    ASSUME NEW o \in Object, Books(o), o.queue # <<>>
    PROVE  /\ Head(o.queue) \in Pending(o.tasks) /\ Head(o.queue) \in DOMAIN o.tasks
           /\ Head(o.queue) \in Task /\ Head(o.queue) \notin Running(o.tasks)
           /\ Tail(o.queue) \in Queues /\ Len(Tail(o.queue)) = Len(o.queue) - 1
           /\ Len(o.queue) \in Nat \ {0}
           /\ ToSet(Tail(o.queue)) = Pending(o.tasks) \ {Head(o.queue)}
<1>1. o.queue \in Queues /\ ToSet(o.queue) = Pending(o.tasks)
  BY DEF Books
<1>2. PICK q \in Queues : q = o.queue
  BY <1>1
<1>3. q # <<>>
  BY <1>2
<1>4. /\ Tail(q) \in Queues /\ Len(Tail(q)) = Len(q) - 1 /\ Len(q) > 0
      /\ Head(q) \in ToSet(q) /\ ToSet(Tail(q)) = ToSet(q) \ {Head(q)}
  BY <1>3, QueueTail
<1>5. Len(q) \in Nat
  BY QueueOf DEF Queues
<1>6. Head(q) \in Pending(o.tasks)
  BY <1>1, <1>2, <1>4
<1>7. \A t \in Pending(o.tasks) : t \in DOMAIN o.tasks /\ t \in Task /\ t \notin Running(o.tasks)
  BY RowsAre DEF Object, Pending, Running
<1> QED  BY <1>1, <1>2, <1>4, <1>5, <1>6, <1>7

\* The object without the head of its queue.
Shifted(o) == [o EXCEPT !.queue = Tail(@)]

\* queue.shift() changes the queue alone.
LEMMA ShiftedIs ==
    ASSUME NEW o \in Object, Books(o), o.queue # <<>>, NEW x, x = Shifted(o)
    PROVE  /\ x \in Object /\ SameSlots(o, x) /\ x.queue = Tail(o.queue)
           /\ x.tasks = o.tasks /\ x.callbacks = o.callbacks /\ x.writes = o.writes
<1>1. Tail(o.queue) \in Seq(Task)
  BY HeadIsPending DEF Queues
<1> QED  BY <1>1 DEF Shifted, Object, SameSlots

\* The kill switch is engaged: the head of the queue ends, and the books agree.
LEMMA RefusedHead ==
    ASSUME NEW o \in Object, Books(o), o.queue # <<>>,
           NEW p, p = RefuseTask(Shifted(o), Head(o.queue))
    PROVE  /\ p \in Object /\ Books(p) /\ Follows(o, p)
           /\ Len(p.queue) = Len(o.queue) - 1
<1>1. PICK t : t = Head(o.queue)
  OBVIOUS
<1>2. /\ t \in Pending(o.tasks) /\ t \in DOMAIN o.tasks /\ t \in Task /\ t \notin Running(o.tasks)
      /\ Tail(o.queue) \in Queues /\ Len(Tail(o.queue)) = Len(o.queue) - 1
      /\ Len(o.queue) \in Nat \ {0} /\ ToSet(Tail(o.queue)) = Pending(o.tasks) \ {t}
  BY <1>1, HeadIsPending
<1>3. PICK x : x = Shifted(o)
  OBVIOUS
<1>4. /\ x \in Object /\ SameSlots(o, x) /\ x.queue = Tail(o.queue)
      /\ x.tasks = o.tasks /\ x.callbacks = o.callbacks /\ x.writes = o.writes
  BY <1>3, ShiftedIs
<1>5. p = RefuseTask(x, t) /\ t \in DOMAIN x.tasks
  BY <1>1, <1>2, <1>3, <1>4
<1>6. Refused(x, t, p)
  BY <1>4, <1>5, RefuseTaskIs
<1>7. Running(p.tasks) = Running(o.tasks) /\ SameSlots(o, p)
  BY <1>2, <1>4, <1>6 DEF Refused, SameSlots
<1>8. Cardinality(o.running) \in Nat
  BY RunningFinite DEF Books
<1>9. Books(p)
  <2>1. p.queue \in Queues /\ ToSet(p.queue) = Pending(p.tasks) /\ Len(p.queue) = Len(o.queue) - 1
    BY <1>2, <1>4, <1>6 DEF Refused
  <2>2. p.callbacks \subseteq Pending(p.tasks) \cup p.running
    BY <1>4, <1>6, <1>7 DEF Refused, Books, SameSlots
  <2>3. /\ p.running = Running(p.tasks) /\ p.activeTokens = SumTokens(p.running)
        /\ p.aborted \subseteq p.running /\ Cardinality(p.running) <= MaxConcurrent
        /\ Cardinality(p.running) > 1 => p.activeTokens <= MaxTokenBudget
    BY <1>7 DEF Books, SameSlots
  <2>4. Len(p.queue) + Cardinality(p.running) <= MaxQueue
    <3>1. p.running = o.running /\ Len(o.queue) + Cardinality(o.running) <= MaxQueue
          /\ MaxQueue \in Nat
      BY <1>7, OrchestratorAssumption DEF Books, SameSlots
    <3> QED  BY <1>2, <1>8, <2>1, <3>1
  <2> QED  BY <2>1, <2>2, <2>3, <2>4 DEF Books
<1>10. Follows(o, p)
  <2>1. \A j \in DOMAIN p.writes :
            \/ \E i \in DOMAIN x.writes : p.writes[j] = x.writes[i]
            \/ /\ DOMAIN p.writes[j].file \subseteq DOMAIN x.tasks
               /\ Pending(p.writes[j].file) \subseteq Pending(x.tasks)
    BY <1>4, <1>6, WroteFollows DEF Refused
  <2>2. p.starts = o.starts
    BY <1>7 DEF SameSlots
  <2> QED  BY <1>4, <1>6, <2>1, <2>2 DEF Refused, Follows, Reaches
<1> QED  BY <1>2, <1>4, <1>6, <1>9, <1>10 DEF Refused

\* A slot is free and the head of the queue fits: it starts, within the limits.
LEMMA StartedHead ==
    ASSUME NEW o \in Object, Books(o), o.queue # <<>>,
           Cardinality(o.running) < MaxConcurrent, ~NoFit(o, Head(o.queue)),
           NEW p, p = RunTask(Shifted(o), Head(o.queue))
    PROVE  /\ p \in Object /\ Books(p) /\ Follows(o, p)
           /\ Len(p.queue) = Len(o.queue) - 1
<1>1. PICK t : t = Head(o.queue)
  OBVIOUS
<1>2. /\ t \in Pending(o.tasks) /\ t \in DOMAIN o.tasks /\ t \in Task /\ t \notin Running(o.tasks)
      /\ Tail(o.queue) \in Queues /\ Len(Tail(o.queue)) = Len(o.queue) - 1
      /\ Len(o.queue) \in Nat \ {0} /\ ToSet(Tail(o.queue)) = Pending(o.tasks) \ {t}
  BY <1>1, HeadIsPending
<1>3. PICK x : x = Shifted(o)
  OBVIOUS
<1>4. /\ x \in Object /\ SameSlots(o, x) /\ x.queue = Tail(o.queue)
      /\ x.tasks = o.tasks /\ x.callbacks = o.callbacks /\ x.writes = o.writes
  BY <1>3, ShiftedIs
<1>5. p = RunTask(x, t) /\ t \in DOMAIN x.tasks
  BY <1>1, <1>2, <1>3, <1>4
<1>6. Started(x, t, p)
  BY <1>4, <1>5, RunTaskIs
<1>7. /\ o.running \in SUBSET Task /\ IsFiniteSet(o.running) /\ Cardinality(o.running) \in Nat
      /\ t \notin o.running
  BY <1>2, RunningFinite DEF Books
<1>8. Cardinality(p.running) = Cardinality(o.running) + 1
  <2>1. p.running = o.running \cup {t}
    BY <1>4, <1>6 DEF Started, SameSlots
  <2> QED  BY <1>7, <2>1, FS_AddElement
<1>9. p.activeTokens = SumTokens(p.running)
  <2>1. p.running = o.running \cup {t} /\ p.activeTokens = o.activeTokens + Tokens[t]
    BY <1>4, <1>6 DEF Started, SameSlots
  <2>2. o.activeTokens = SumTokens(o.running)
    BY DEF Books
  <2> QED  BY <1>2, <1>7, <2>1, <2>2, SumTokensAdd
<1>10. Cardinality(p.running) > 1 => p.activeTokens <= MaxTokenBudget
  <2>1. ASSUME Cardinality(p.running) > 1  PROVE o.running # {}
    <3>1. Cardinality(o.running) # 0
      BY <1>7, <1>8, <2>1
    <3> QED  BY <3>1, FS_EmptySet
  <2>2. p.activeTokens = o.activeTokens + Tokens[t]
    BY <1>4, <1>6 DEF Started, SameSlots
  <2>3. o.activeTokens \in Nat /\ Tokens[t] \in Nat /\ MaxTokenBudget \in Nat
    BY <1>2, OrchestratorAssumption DEF Object
  <2>4. o.running # {} => ~(o.activeTokens + Tokens[t] > MaxTokenBudget)
    BY <1>1 DEF NoFit
  <2> QED  BY <2>1, <2>2, <2>3, <2>4
<1>11. Books(p)
  <2>1. p.queue \in Queues /\ ToSet(p.queue) = Pending(p.tasks) /\ Len(p.queue) = Len(o.queue) - 1
    BY <1>2, <1>4, <1>6 DEF Started
  <2>2. p.running = Running(p.tasks) /\ p.aborted \subseteq p.running
    <3>1. p.running = o.running \cup {t} /\ p.aborted = o.aborted
          /\ o.running = Running(o.tasks) /\ o.aborted \subseteq o.running
      BY <1>4, <1>6 DEF Started, Books, SameSlots
    <3>2. Running(p.tasks) = Running(o.tasks) \cup {t}
      BY <1>4, <1>6 DEF Started
    <3> QED  BY <3>1, <3>2
  <2>3. p.callbacks \subseteq Pending(p.tasks) \cup p.running
    <3>1. o.callbacks \subseteq Pending(o.tasks) \cup o.running
      BY DEF Books
    <3>2. p.running = o.running \cup {t} /\ p.callbacks = o.callbacks
          /\ Pending(p.tasks) = Pending(o.tasks) \ {t}
      BY <1>4, <1>6 DEF Started, SameSlots
    <3> QED  BY <3>1, <3>2
  <2>4. Cardinality(p.running) <= MaxConcurrent /\ Len(p.queue) + Cardinality(p.running) <= MaxQueue
    <3>1. MaxConcurrent \in Nat /\ MaxQueue \in Nat
      BY OrchestratorAssumption
    <3>2. Len(o.queue) + Cardinality(o.running) <= MaxQueue
      BY DEF Books
    <3> QED  BY <1>2, <1>7, <1>8, <2>1, <3>1, <3>2
  <2> QED  BY <1>9, <1>10, <2>1, <2>2, <2>3, <2>4 DEF Books
<1>12. Follows(o, p)
  <2>1. p.starts = [o.starts EXCEPT ![t] = @ + 1] /\ p.writes = o.writes
    BY <1>4, <1>6 DEF Started, SameSlots
  <2>2. \A u \in Task : \/ p.starts[u] = o.starts[u]
                        \/ p.starts[u] = o.starts[u] + 1 /\ u = t
    BY <2>1 DEF Object
  <2>3. t \in Pending(o.tasks) \ Pending(p.tasks)
    BY <1>2, <1>4, <1>6 DEF Started
  <2> QED  BY <1>4, <1>6, <2>1, <2>2, <2>3 DEF Started, Follows, Reaches
<1> QED  BY <1>2, <1>4, <1>6, <1>11, <1>12 DEF Started

\* The head of the queue does not fit: it goes to the end, and the books agree.
LEMMA SkippedHead ==
    ASSUME NEW o \in Object, Books(o), o.queue # <<>>,
           NEW p, p = [Shifted(o) EXCEPT !.queue = Append(@, Head(o.queue))]
    PROVE  /\ p \in Object /\ Books(p) /\ Follows(o, p) /\ SameSlots(o, p)
           /\ Len(p.queue) = Len(o.queue)
           /\ \A j \in 1..(Len(o.queue) - 1) : p.queue[j] = o.queue[j + 1]
           /\ p.queue[Len(o.queue)] = Head(o.queue)
<1>1. PICK t : t = Head(o.queue)
  OBVIOUS
<1>2. PICK q : q = Tail(o.queue)
  OBVIOUS
<1>3. /\ t \in Pending(o.tasks) /\ t \in Task
      /\ q \in Queues /\ Len(q) = Len(o.queue) - 1
      /\ Len(o.queue) \in Nat \ {0} /\ ToSet(q) = Pending(o.tasks) \ {t}
  BY <1>1, <1>2, HeadIsPending
<1>4. PICK x : x = Shifted(o)
  OBVIOUS
<1>5. /\ x \in Object /\ SameSlots(o, x) /\ x.queue = q
      /\ x.tasks = o.tasks /\ x.callbacks = o.callbacks /\ x.writes = o.writes
  BY <1>2, <1>4, ShiftedIs
<1>6. /\ Append(q, t) \in Queues /\ Len(Append(q, t)) = Len(q) + 1
      /\ ToSet(Append(q, t)) = ToSet(q) \cup {t}
      /\ \A i \in 1..Len(q) : Append(q, t)[i] = q[i]
      /\ Append(q, t)[Len(q) + 1] = t
  BY <1>3, QueueAppend
<1>7. PICK r : r = Append(q, t)
  OBVIOUS
<1>8. r \in Queues /\ r \in Seq(Task) /\ Len(r) = Len(o.queue) /\ ToSet(r) = Pending(o.tasks)
  <2>1. r \in Queues /\ Len(r) = Len(q) + 1 /\ ToSet(r) = ToSet(q) \cup {t}
    BY <1>6, <1>7
  <2>2. r \in Seq(Task)
    BY <2>1 DEF Queues
  <2> QED  BY <1>3, <2>1, <2>2
<1>9. p = [x EXCEPT !.queue = r]
  BY <1>1, <1>4, <1>5, <1>7
<1>10. /\ p \in Object /\ p.queue = r /\ SameSlots(o, p)
       /\ p.tasks = o.tasks /\ p.callbacks = o.callbacks /\ p.writes = o.writes
  BY <1>5, <1>8, <1>9 DEF Object, SameSlots
<1>11. Books(p)
  BY <1>8, <1>10 DEF Books, SameSlots
<1>12. Follows(o, p)
  BY <1>10 DEF Follows, Reaches, SameSlots
<1>13. \A j \in 1..(Len(o.queue) - 1) : q[j] = o.queue[j + 1]
  <2>1. PICK all \in Queues : all = o.queue
    BY DEF Books
  <2>2. all # <<>>
    BY <2>1
  <2>3. \A i \in 1..Len(Tail(all)) : Tail(all)[i] = all[i + 1]
    BY <2>2, QueueTail
  <2> QED  BY <1>2, <1>3, <2>1, <2>3
<1>14. \A j \in 1..(Len(o.queue) - 1) : r[j] = o.queue[j + 1]
  BY <1>3, <1>6, <1>7, <1>13
<1>15. r[Len(o.queue)] = t
  BY <1>3, <1>6, <1>7
<1> QED  BY <1>1, <1>8, <1>10, <1>11, <1>12, <1>14, <1>15

(***************************************************************************)
(* The drain.                                                              *)
(***************************************************************************)

\* What the loop of _drain works on.
DrainState == [o : Object, engaged : BOOLEAN, skipped : Nat, stop : BOOLEAN]

\* The loop of a drain of the object o: what was skipped last does not fit, and it
\* stops only where nothing more can start.
Draining(o, s) ==
    /\ s \in DrainState /\ Books(s.o) /\ Follows(o, s.o)
    /\ s.skipped <= Len(s.o.queue)
    /\ \A j \in 1..Len(s.o.queue) :
        j > Len(s.o.queue) - s.skipped => NoFit(s.o, s.o.queue[j])
    /\ s.stop => Busy(s.o)
    /\ ~s.stop => s.skipped = 0 \/ s.skipped < Len(s.o.queue)

\* A round stops, takes one from the queue, or skips one.
Advances(s, r) ==
    \/ r.stop /\ Len(r.o.queue) = Len(s.o.queue)
    \/ ~s.stop /\ Len(r.o.queue) = Len(s.o.queue) - 1 /\ r.skipped = 0
    \/ ~s.stop /\ Len(r.o.queue) = Len(s.o.queue) /\ r.skipped = s.skipped + 1

\* Queues have lengths.
LEMMA QueueLength ==
    ASSUME NEW o \in Object  PROVE Len(o.queue) \in Nat
<1>1. o.queue \in Seq(Task)
  BY DEF Object
<1> QED  BY <1>1, LenProperties

\* A round that starts or refuses a task leaves the loop where it can go on.
LEMMA DrainRoundGoesOn ==
    ASSUME NEW o, NEW s, Draining(o, s), ~s.stop,
           NEW p \in Object, Books(p), Follows(s.o, p), Len(p.queue) = Len(s.o.queue) - 1,
           NEW r, r = [s EXCEPT !.o = p, !.skipped = 0]
    PROVE  Draining(o, r) /\ Advances(s, r)
<1>1. /\ r \in DrainState /\ r.o = p /\ r.skipped = 0 /\ r.stop = FALSE
  BY DEF Draining, DrainState
<1>2. Follows(o, p)
  BY FollowsIsTransitive DEF Draining
<1>3. Len(p.queue) \in Nat
  BY QueueLength
<1> QED  BY <1>1, <1>2, <1>3 DEF Draining, Advances

\* One round of the loop keeps what Draining says, and gets on.
LEMMA DrainRoundIs ==
    ASSUME NEW o, NEW s, Draining(o, s)
    PROVE  Draining(o, DrainRound(s)) /\ Advances(s, DrainRound(s))
<1> DEFINE r == DrainRound(s)
           q == s.o.queue
           t == Head(q)
<1>1. s \in DrainState /\ s.o \in Object /\ Books(s.o) /\ s.stop \in BOOLEAN /\ s.engaged \in BOOLEAN
      /\ s.skipped \in Nat
  BY DEF Draining, DrainState
<1>2. Len(q) \in Nat /\ Cardinality(s.o.running) \in Nat /\ MaxConcurrent \in Nat
  BY <1>1, QueueLength, RunningFinite, OrchestratorAssumption DEF Books
<1>3. CASE s.stop
  <2>1. r = s
    BY <1>3 DEF DrainRound
  <2> QED  BY <1>3, <2>1 DEF Advances
<1>4. CASE ~s.stop /\ (q = <<>> \/ Cardinality(s.o.running) >= MaxConcurrent)
  <2>1. r = [s EXCEPT !.stop = TRUE]
    BY <1>4 DEF DrainRound
  <2>2. r \in DrainState /\ r.o = s.o /\ r.stop = TRUE /\ r.skipped = s.skipped
    BY <1>1, <2>1 DEF DrainState
  <2>3. Busy(s.o)
    <3>1. CASE Cardinality(s.o.running) >= MaxConcurrent
      BY <1>2, <3>1 DEF Busy
    <3>2. CASE q = <<>>
      <4>1. ToSet(q) = {}
        BY <3>2 DEF ToSet
      <4>2. Pending(s.o.tasks) = {}
        BY <1>1, <4>1 DEF Books
      <4> QED  BY <4>2 DEF Busy
    <3> QED  BY <1>4, <3>1, <3>2
  <2> QED  BY <2>2, <2>3 DEF Draining, Advances
<1>5. CASE ~s.stop /\ ~(q = <<>> \/ Cardinality(s.o.running) >= MaxConcurrent)
  <2>1. q # <<>> /\ Cardinality(s.o.running) < MaxConcurrent
    BY <1>2, <1>5
  <2>2. t \in Pending(s.o.tasks)
    BY <1>1, <2>1, HeadIsPending
  <2>3. CASE NoFit(s.o, t)
    <3> DEFINE p == [Shifted(s.o) EXCEPT !.queue = Append(@, t)]
    <3>1. r = [s EXCEPT !.o = p, !.skipped = @ + 1, !.stop = s.skipped + 1 >= Len(q)]
      BY <1>5, <2>2, <2>3 DEF DrainRound, NoFit, Shifted
    <3>2. /\ p \in Object /\ Books(p) /\ Follows(s.o, p) /\ SameSlots(s.o, p)
          /\ Len(p.queue) = Len(q)
          /\ \A j \in 1..(Len(q) - 1) : p.queue[j] = q[j + 1]
          /\ p.queue[Len(q)] = t
      BY <1>1, <2>1, SkippedHead
    <3> HIDE DEF p
    <3>11. PICK all \in BOOLEAN : all = (s.skipped + 1 >= Len(q))
      <4>1. (s.skipped + 1 >= Len(q)) = TRUE \/ (s.skipped + 1 >= Len(q)) = FALSE
        OBVIOUS
      <4> QED  BY <4>1, Zenon
    <3>12. PICK n \in Nat : n = s.skipped + 1
      BY <1>1
    <3>13. r = [s EXCEPT !.o = p, !.skipped = n, !.stop = all]
      BY <1>1, <3>1, <3>11, <3>12
    <3>14. r \in DrainState /\ r.o = p /\ r.skipped = n /\ r.stop = all
      BY <1>1, <3>2, <3>13 DEF DrainState
    <3>3. /\ r \in DrainState /\ r.o = p /\ r.skipped = s.skipped + 1
          /\ r.stop <=> s.skipped + 1 >= Len(q)
      BY <3>11, <3>12, <3>14
    <3>4. \A u : NoFit(p, u) <=> NoFit(s.o, u)
      BY <3>2 DEF NoFit, SameSlots
    <3>5. s.skipped < Len(q)
      <4>1. q \in Seq(Task)
        BY <1>1 DEF Object
      <4>2. Len(q) # 0
        BY <2>1, <4>1, EmptySeq
      <4> QED  BY <1>2, <1>5, <4>2 DEF Draining
    <3>6. ASSUME NEW j \in 1..Len(q), j > Len(q) - (s.skipped + 1)  PROVE NoFit(p, p.queue[j])
      <4>1. CASE j = Len(q)
        BY <2>3, <3>2, <3>4, <4>1
      <4>2. CASE j # Len(q)
        <5>1. j \in 1..(Len(q) - 1) /\ j + 1 \in 1..Len(q) /\ j + 1 > Len(q) - s.skipped
          BY <1>1, <1>2, <3>6, <4>2
        <5>2. NoFit(s.o, q[j + 1])
          BY <5>1 DEF Draining
        <5> QED  BY <3>2, <3>4, <5>1, <5>2
      <4> QED  BY <4>1, <4>2
    <3>7. ASSUME s.skipped + 1 >= Len(q)  PROVE Busy(p)
      <4>1. \A j \in 1..Len(q) : NoFit(p, p.queue[j])
        BY <1>1, <1>2, <3>6, <3>7
      <4>2. p.queue \in Seq(Task) /\ ToSet(p.queue) = Pending(p.tasks)
        BY <3>2 DEF Books, Queues
      <4>3. \A u \in Pending(p.tasks) : \E j \in 1..Len(q) : p.queue[j] = u
        BY <3>2, <4>2, QueueOf
      <4> QED  BY <4>1, <4>3 DEF Busy
    <3>8. Follows(o, p)
      BY <3>2, FollowsIsTransitive DEF Draining
    <3>9. Draining(o, r)
      <4>1. r.stop => Busy(r.o)
        BY <3>3, <3>7
      <4>2. r.skipped <= Len(r.o.queue) /\ (~r.stop => r.skipped < Len(r.o.queue))
        <5>1. Len(r.o.queue) = Len(q) /\ r.skipped = s.skipped + 1
          BY <3>2, <3>3
        <5> HIDE DEF r, q
        <5> QED  BY <1>1, <1>2, <3>3, <3>5, <5>1
      <4> QED  BY <3>2, <3>3, <3>6, <3>8, <4>1, <4>2 DEF Draining
    <3>10. Advances(s, r)
      BY <1>5, <3>2, <3>3 DEF Advances
    <3> QED  BY <3>9, <3>10
  <2>4. CASE ~NoFit(s.o, t) /\ s.engaged
    <3> DEFINE p == RefuseTask(Shifted(s.o), t)
    <3>1. r = [s EXCEPT !.o = p, !.skipped = 0]
      BY <1>5, <2>2, <2>4 DEF DrainRound, NoFit, Shifted
    <3>2. p \in Object /\ Books(p) /\ Follows(s.o, p) /\ Len(p.queue) = Len(q) - 1
      BY <1>1, <2>1, RefusedHead
    <3> HIDE DEF p
    <3> QED  BY <1>5, <3>1, <3>2, DrainRoundGoesOn
  <2>5. CASE ~NoFit(s.o, t) /\ ~s.engaged
    <3> DEFINE p == RunTask(Shifted(s.o), t)
    <3>1. r = [s EXCEPT !.o = p, !.skipped = 0]
      BY <1>5, <2>2, <2>5 DEF DrainRound, NoFit, Shifted
    <3>2. p \in Object /\ Books(p) /\ Follows(s.o, p) /\ Len(p.queue) = Len(q) - 1
      BY <1>1, <2>1, <2>5, StartedHead
    <3> HIDE DEF p
    <3> QED  BY <1>5, <3>1, <3>2, DrainRoundGoesOn
  <2> QED  BY <1>1, <2>3, <2>4, <2>5
<1> QED  BY <1>1, <1>3, <1>4, <1>5
\* Products of numbers, for the measure below.
LEMMA OneLess ==
    ASSUME NEW a \in Nat, NEW k \in Nat, a # 0
    PROVE  (a - 1) * k = a * k - k /\ a * k \in Nat /\ k <= a * k
<1>1. (a - 1) * k = a * k - k /\ a * k \in Nat
  OBVIOUS
<1>2. (a - 1) * k >= 0
  OBVIOUS
<1> QED  BY <1>1, <1>2

\* Drain is the last value of its loop, whichever way that is written down.
LEMMA DrainIsLoop ==
    ASSUME NEW o, NEW engaged, Rounds(o) \in Nat, NEW g,
           g = [i \in 0..Rounds(o) |->
                   IF i = 0 THEN Undrained(o, engaged) ELSE DrainRound(g[i - 1])]
    PROVE  \E f : /\ f = [i \in 0..Rounds(o) |->
                             IF i = 0 THEN Undrained(o, engaged) ELSE DrainRound(f[i - 1])]
                  /\ Drain(o, engaged) = f[Rounds(o)].o
<1> DEFINE n == Rounds(o)
           start == Undrained(o, engaged)
           F == CHOOSE f : f = [i \in 0..n |-> IF i = 0 THEN start
                                ELSE Then(f[i - 1], LAMBDA s : DrainRound(s))]
<1>1. \A x : Then(x, LAMBDA s : DrainRound(s)) = DrainRound(x)
  BY DEF Then
<1>2. g = [i \in 0..n |-> IF i = 0 THEN start ELSE Then(g[i - 1], LAMBDA s : DrainRound(s))]
  BY <1>1
<1>3. F = [i \in 0..n |-> IF i = 0 THEN start ELSE Then(F[i - 1], LAMBDA s : DrainRound(s))]
  BY <1>2
<1>4. Drain(o, engaged) = F[n].o
  BY Zenon DEF Drain, Looped
<1>5. F = [i \in 0..n |-> IF i = 0 THEN start ELSE DrainRound(F[i - 1])]
  <2> HIDE DEF F
  <2> QED  BY <1>1, <1>3
<1> HIDE DEF F
<1> QED  BY <1>4, <1>5

\* The measure of a drain goes down by one with every round that does not stop it.
LEMMA FuelBurns ==
    ASSUME NEW l \in Nat, NEW n \in Nat, NEW i \in Nat, NEW a \in Nat, NEW b \in Nat,
           NEW c \in Nat, NEW d \in Nat,
           b <= a, a <= l, a * (l + 1) + (i - 1) <= n + b,
           (c = a - 1 /\ d = 0) \/ (c = a /\ d = b + 1)
    PROVE  c * (l + 1) + i <= n + d
<1> DEFINE k == l + 1
<1>1. CASE c = a - 1 /\ d = 0
  <2>1. (a - 1) * k = a * k - k /\ a * k \in Nat
    BY <1>1, OneLess
  <2>2. PICK m \in Nat : m = a * k
    BY <2>1
  <2>3. m + (i - 1) <= n + b /\ c * k = m - k
    BY <1>1, <2>1, <2>2
  <2>4. m - k + i <= n
    BY <2>3
  <2> QED  BY <1>1, <2>3, <2>4
<1>2. CASE c = a /\ d = b + 1
  <2>1. PICK m \in Int : m = a * k
    OBVIOUS
  <2>2. m + (i - 1) <= n + b /\ c * k = m
    BY <1>2, <2>1
  <2> QED  BY <1>2, <2>2
<1> QED  BY <1>1, <1>2

\* When the rounds are used up the measure says that the queue is empty.
LEMMA FuelEnds ==
    ASSUME NEW l \in Nat, NEW n \in Nat, NEW a \in Nat, NEW b \in Nat,
           b <= a, a <= l, a * (l + 1) + n <= n + b
    PROVE  a = 0
<1> SUFFICES ASSUME a # 0  PROVE FALSE
  OBVIOUS
<1>1. l + 1 <= a * (l + 1) /\ a * (l + 1) \in Nat
  BY OneLess
<1>2. PICK m \in Nat : m = a * (l + 1)
  BY <1>1
<1> QED  BY <1>1, <1>2

\* What the rounds of a drain, of l waiting tasks, have still to do after the ith.
Fuel(l, i, s) ==
    s.stop \/ Len(s.o.queue) * (l + 1) + i <= l * (l + 1) + s.skipped

\* Where the loop of a drain of o may be after i rounds.
DrainStates(o, i) ==
    {s \in DrainState : /\ Draining(o, s) /\ Len(s.o.queue) <= Len(o.queue)
                        /\ Fuel(Len(o.queue), i, s)}

\* DrainStates, one by one.
LEMMA DrainStatesAre ==
    ASSUME NEW o, NEW i, NEW s
    PROVE  s \in DrainStates(o, i) <=>
              /\ Draining(o, s) /\ Len(s.o.queue) <= Len(o.queue)
              /\ Fuel(Len(o.queue), i, s)
BY DEF DrainStates, Draining

\* A round takes the loop from what holds after i - 1 rounds to what holds after i.
LEMMA DrainStep ==
    ASSUME NEW o \in Object, NEW i \in Nat, i # 0, NEW s \in DrainStates(o, i - 1)
    PROVE  DrainRound(s) \in DrainStates(o, i)
<1>1. Draining(o, s) /\ Len(s.o.queue) <= Len(o.queue) /\ Fuel(Len(o.queue), i - 1, s)
  BY DrainStatesAre
<1>2. PICK r : r = DrainRound(s)
  OBVIOUS
<1>3. Draining(o, r) /\ Advances(s, r)
  BY <1>1, <1>2, DrainRoundIs
<1>4. PICK l \in Nat : l = Len(o.queue)
  BY QueueLength
<1>5. PICK a \in Nat : a = Len(s.o.queue)
  BY <1>1, QueueLength DEF Draining, DrainState
<1>6. PICK c \in Nat : c = Len(r.o.queue)
  BY <1>3, QueueLength DEF Draining, DrainState
<1>7. PICK b \in Nat : b = s.skipped
  BY <1>1 DEF Draining, DrainState
<1>8. PICK d \in Nat : d = r.skipped
  BY <1>3 DEF Draining, DrainState
<1>9. a <= l /\ b <= a
  BY <1>1, <1>4, <1>5, <1>7 DEF Draining
<1>10. CASE r.stop
  <2>1. Fuel(Len(o.queue), i, r)
    BY <1>10 DEF Fuel
  <2>2. c <= l
    BY <1>3, <1>5, <1>6, <1>9 DEF Advances
  <2> QED  BY <1>2, <1>3, <1>4, <1>6, <2>1, <2>2, DrainStatesAre
<1>11. CASE ~r.stop
  <2>1. ~s.stop /\ ((c = a - 1 /\ d = 0) \/ (c = a /\ d = b + 1))
    BY <1>3, <1>5, <1>6, <1>7, <1>8, <1>11 DEF Advances
  <2>2. a * (l + 1) + (i - 1) <= l * (l + 1) + b
    BY <1>1, <1>4, <1>5, <1>7, <2>1 DEF Fuel
  <2>3. l * (l + 1) \in Nat
    OBVIOUS
  <2>4. PICK n \in Nat : n = l * (l + 1)
    BY <2>3
  <2>5. c * (l + 1) + i <= n + d
    BY <1>9, <2>1, <2>2, <2>4, FuelBurns
  <2>6. c <= l
    BY <1>9, <2>1
  <2>7. Fuel(Len(o.queue), i, r)
    BY <1>4, <1>6, <1>8, <2>4, <2>5 DEF Fuel
  <2> QED  BY <1>2, <1>3, <1>4, <1>6, <2>6, <2>7, DrainStatesAre
<1> QED  BY <1>10, <1>11

\* However long the loop of a drain may be, it has stopped when its rounds are over:
\* nothing that waits could start.
LEMMA DrainIs ==
    ASSUME NEW o \in Object, NEW engaged \in BOOLEAN, Books(o), NEW p, p = Drain(o, engaged)
    PROVE  p \in Object /\ Books(p) /\ Busy(p) /\ Follows(o, p)
<1> DEFINE l == Len(o.queue)
           n == Rounds(o)
           start == Undrained(o, engaged)
           S == [i \in 0..n |-> DrainStates(o, i)]
           step == [y \in (1..n) \X DrainState |-> DrainRound(y[2])]
<1>1. l \in Nat /\ n = l * (l + 1) /\ n \in Nat
  BY QueueLength DEF Rounds
<1> HIDE DEF n
<1>2. start \in DrainStates(o, 0)
  <2>1. start \in DrainState /\ start.o = o /\ start.skipped = 0 /\ start.stop = FALSE
    BY DEF Undrained, DrainState
  <2>2. Draining(o, start)
    BY <1>1, <2>1, ReachesIsReflexive DEF Draining, Follows
  <2>3. Fuel(l, 0, start)
    BY <1>1, <2>1 DEF Fuel
  <2>4. Len(start.o.queue) <= l
    BY <1>1, <2>1
  <2> HIDE DEF start
  <2> QED  BY <2>2, <2>3, <2>4, DrainStatesAre
<1>3. ASSUME NEW i \in 1..n, NEW s \in DrainStates(o, i - 1)
      PROVE  DrainRound(s) \in DrainStates(o, i) /\ step[<<i, s>>] = DrainRound(s)
  <2>1. i \in Nat /\ i # 0
    BY <1>1
  <2>2. s \in DrainState
    BY DEF DrainStates
  <2>3. step[<<i, s>>] = DrainRound(s)
    BY <2>2
  <2> QED  BY <2>1, <2>3, DrainStep
<1>4. PICK g : Iterates(g, n, start, step) /\ \A i \in 0..n : g[i] \in DrainStates(o, i)
  <2> HIDE DEF step, start
  <2>1. start \in S[0]
    BY <1>1, <1>2
  <2>2. ASSUME NEW i \in 1..n, NEW s \in S[i - 1]  PROVE step[<<i, s>>] \in S[i]
    <3>1. i - 1 \in 0..n /\ i \in 0..n
      BY <1>1
    <3> QED  BY <1>3, <3>1
  <2>3. \A i \in 0..n : S[i] = DrainStates(o, i)
    OBVIOUS
  <2> HIDE DEF S
  <2>4. \A i \in 1..n : \A x \in S[i - 1] : step[<<i, x>>] \in S[i]
    BY <2>2
  <2>5. n \in Nat
    BY <1>1
  <2>6. \E g : Iterates(g, n, start, step) /\ \A i \in 0..n : g[i] \in S[i]
    BY ONLY <2>1, <2>4, <2>5, LoopExists
  <2> QED  BY <2>3, <2>6
<1>5. g = [i \in 0..n |-> IF i = 0 THEN start ELSE DrainRound(g[i - 1])]
  <2> HIDE DEF step, start
  <2>1. ASSUME NEW i \in 1..n  PROVE step[<<i, g[i - 1]>>] = DrainRound(g[i - 1])
    <3>1. i - 1 \in 0..n
      BY <1>1
    <3> QED  BY <1>3, <1>4, <3>1
  <2>2. ASSUME NEW i \in 0..n
        PROVE  g[i] = IF i = 0 THEN start ELSE DrainRound(g[i - 1])
    <3>1. g[i] = IF i = 0 THEN start ELSE step[<<i, g[i - 1]>>]
      BY <1>4 DEF Iterates
    <3>2. i # 0 => i \in 1..n
      BY <1>1
    <3> QED  BY <2>1, <3>1, <3>2
  <2>3. g = [i \in 0..n |-> g[i]]
    BY <1>4 DEF Iterates
  <2> QED  BY <2>2, <2>3
<1>6. PICK f : /\ f = [i \in 0..n |-> IF i = 0 THEN start ELSE DrainRound(f[i - 1])]
               /\ p = f[n].o
  BY <1>1, <1>5, DrainIsLoop DEF n
<1>7. f[n] \in DrainStates(o, n)
  <2> DEFINE P == {i \in 0..n : f[i] \in DrainStates(o, i)}
  <2> HIDE DEF start, step
  <2>1. 0 \in P
    BY <1>1, <1>2, <1>6
  <2>2. ASSUME NEW i \in 1..n, i - 1 \in P  PROVE i \in P
    <3>1. i \in 0..n /\ i # 0 /\ f[i - 1] \in DrainStates(o, i - 1)
      BY <1>1, <2>2
    <3>2. f[i] = DrainRound(f[i - 1])
      BY <1>6, <3>1
    <3> QED  BY <1>3, <3>1, <3>2
  <2> HIDE DEF P
  <2>3. \A i \in 0..n : i \in P
    BY <1>1, <2>1, <2>2, UpTo
  <2>4. n \in P
    BY <1>1, <2>3
  <2> QED  BY <2>4 DEF P
<1>8. PICK s : s = f[n]
  OBVIOUS
<1>9. Draining(o, s) /\ Len(s.o.queue) <= l /\ Fuel(l, n, s)
  BY <1>7, <1>8, DrainStatesAre
<1>10. s \in DrainState /\ s.o \in Object /\ s.skipped \in Nat /\ Len(s.o.queue) \in Nat
  BY <1>9, QueueLength DEF Draining, DrainState
<1>11. Busy(s.o)
  <2>1. CASE s.stop
    BY <1>9, <2>1 DEF Draining
  <2>2. CASE ~s.stop
    <3>1. Len(s.o.queue) * (l + 1) + n <= n + s.skipped /\ s.skipped <= Len(s.o.queue)
      BY <1>1, <1>9, <2>2 DEF Draining, Fuel
    <3>2. Len(s.o.queue) = 0
      BY <1>1, <1>9, <1>10, <3>1, FuelEnds
    <3>3. ToSet(s.o.queue) = {}
      <4>1. s.o.queue \in Seq(Task)
        BY <1>10 DEF Object
      <4>2. PICK q \in Seq(Task) : q = s.o.queue
        BY <4>1
      <4>3. 1..Len(q) = {}
        BY <3>2, <4>2
      <4>4. ToSet(q) = {}
        BY <4>3, QueueOf
      <4> QED  BY <4>2, <4>4
    <3>4. Pending(s.o.tasks) = {}
      BY <1>9, <3>3 DEF Draining, Books
    <3> QED  BY <3>4 DEF Busy
  <2> QED  BY <2>1, <2>2
<1>12. p = s.o
  BY <1>6, <1>8
<1> QED  BY <1>9, <1>10, <1>11, <1>12 DEF Draining

(***************************************************************************)
(* The methods that drain, and those that end a task.                      *)
(***************************************************************************)

\* A queued task, before the drain: all that was not t is as it was.
Queued(o, t, waiting, x) ==
    /\ x \in Object /\ SameSlots(o, x) /\ x.writes = o.writes
    /\ x.queue = Append(o.queue, t) /\ x.callbacks = o.callbacks \cup waiting
    /\ DOMAIN x.tasks = DOMAIN o.tasks \cup {t}
    /\ Pending(x.tasks) = Pending(o.tasks) \cup {t}
    /\ Running(x.tasks) = Running(o.tasks) \ {t}

\* _enqueueWithId up to the drain: callback, status and queue.
LEMMA QueuedIs ==
    ASSUME NEW o \in Object, NEW t \in Task, NEW waiting \in SUBSET {t},
           NEW y, y = [o EXCEPT !.callbacks = @ \cup waiting],
           NEW x, x = [y EXCEPT !.tasks = Put(@, t, "pending", 0), !.queue = Append(@, t)]
    PROVE  Queued(o, t, waiting, x)
<1>1. o.tasks \in Rows /\ "pending" \in Status /\ 0 \in Nat /\ o.queue \in Seq(Task)
  BY DEF Object, Status
<1>2. PICK rows : rows = Put(o.tasks, t, "pending", 0)
  OBVIOUS
<1>3. /\ rows \in Rows
      /\ \A u : u \in DOMAIN rows <=> u = t \/ u \in DOMAIN o.tasks
      /\ \A u : u \in Pending(rows) <=> IF u = t THEN "pending" = "pending" ELSE u \in Pending(o.tasks)
      /\ \A u : u \in Running(rows) <=> IF u = t THEN "pending" = "running" ELSE u \in Running(o.tasks)
  BY <1>1, <1>2, PutIs
<1>4. /\ DOMAIN rows = DOMAIN o.tasks \cup {t} /\ Pending(rows) = Pending(o.tasks) \cup {t}
      /\ Running(rows) = Running(o.tasks) \ {t}
  BY <1>3
<1>5. PICK q : q = Append(o.queue, t)
  OBVIOUS
<1>6. q \in Seq(Task)
  BY <1>1, <1>5, AppendProperties
<1>7. PICK c : c = o.callbacks \cup waiting
  OBVIOUS
<1>8. c \in SUBSET Task
  BY <1>7 DEF Object
<1>9. y = [o EXCEPT !.callbacks = c]
  BY <1>7
<1>10. /\ y \in Object /\ y.tasks = o.tasks /\ y.queue = o.queue
       /\ y.callbacks = c /\ y.writes = o.writes /\ SameSlots(o, y)
  BY <1>8, <1>9 DEF Object, SameSlots
<1>11. x = [y EXCEPT !.tasks = rows, !.queue = q]
  BY <1>2, <1>5, <1>10
<1>12. /\ x \in Object /\ x.tasks = rows /\ x.queue = q /\ x.callbacks = y.callbacks
       /\ x.writes = y.writes /\ SameSlots(y, x)
  BY ZenonT(30), <1>3, <1>6, <1>10, <1>11 DEF Object, SameSlots
<1>13. x.callbacks = c /\ x.writes = o.writes /\ SameSlots(o, x)
  BY <1>10, <1>12 DEF SameSlots
<1> QED  BY <1>4, <1>5, <1>7, <1>12, <1>13 DEF Queued

\* There was room: the queue with one task more keeps to MAX_QUEUE.
LEMMA QueuedBooks ==
    ASSUME NEW o \in Object, Books(o), ~Full(o), NEW t \in Task \ DOMAIN o.tasks,
           NEW waiting \in SUBSET {t}, NEW x, Queued(o, t, waiting, x)
    PROVE  Books(x) /\ Reaches(o, x, {t})
<1>1. t \notin Pending(o.tasks) /\ t \notin Running(o.tasks)
  BY DEF Pending, Running
<1>2. PICK q \in Queues : q = o.queue
  BY DEF Books
<1>3. ToSet(q) = Pending(o.tasks)
  BY <1>2 DEF Books
<1>4. /\ Append(q, t) \in Queues /\ Len(Append(q, t)) = Len(q) + 1
      /\ ToSet(Append(q, t)) = ToSet(q) \cup {t}
  BY <1>1, <1>3, QueueAppend
<1>5. x.queue \in Queues /\ Len(x.queue) = Len(o.queue) + 1 /\ ToSet(x.queue) = Pending(x.tasks)
  BY <1>2, <1>3, <1>4 DEF Queued
<1>6. Running(x.tasks) = Running(o.tasks)
  BY <1>1 DEF Queued
<1>7. Len(x.queue) + Cardinality(x.running) <= MaxQueue
  <2>1. Len(o.queue) \in Nat /\ Cardinality(o.running) \in Nat /\ MaxQueue \in Nat
    BY QueueLength, RunningFinite, OrchestratorAssumption DEF Books
  <2>2. x.running = o.running /\ ~(Len(o.queue) + Cardinality(o.running) >= MaxQueue)
    BY DEF Queued, SameSlots, Full
  <2> QED  BY <1>5, <2>1, <2>2
<1>8. x.callbacks \subseteq Pending(x.tasks) \cup x.running
  BY DEF Queued, SameSlots, Books
<1>9. /\ x.running = Running(x.tasks) /\ x.activeTokens = SumTokens(x.running)
      /\ x.aborted \subseteq x.running /\ Cardinality(x.running) <= MaxConcurrent
      /\ Cardinality(x.running) > 1 => x.activeTokens <= MaxTokenBudget
  BY <1>6 DEF Queued, SameSlots, Books
<1>10. Books(x)
  BY <1>5, <1>7, <1>8, <1>9 DEF Books
<1>11. Reaches(o, x, {t})
  BY DEF Queued, SameSlots, Reaches
<1> QED  BY <1>10, <1>11

\* _enqueueWithId of a new task, with its drain.
LEMMA AcceptIs ==
    ASSUME NEW o \in Object, Books(o), ~Full(o), NEW t \in Task \ DOMAIN o.tasks,
           NEW waiting \in SUBSET {t}, NEW engaged \in BOOLEAN,
           NEW p, p = Accept([o EXCEPT !.callbacks = @ \cup waiting], t, engaged)
    PROVE  p \in Object /\ Books(p) /\ Busy(p) /\ Reaches(o, p, {t})
<1>1. PICK y : y = [o EXCEPT !.callbacks = @ \cup waiting]
  OBVIOUS
<1>2. PICK x : x = [y EXCEPT !.tasks = Put(@, t, "pending", 0), !.queue = Append(@, t)]
  OBVIOUS
<1>3. p = Drain(x, engaged)
  BY <1>1, <1>2 DEF Accept, Then
<1>4. Queued(o, t, waiting, x)
  BY <1>1, <1>2, QueuedIs
<1>5. x \in Object /\ Books(x) /\ Reaches(o, x, {t})
  BY <1>4, QueuedBooks DEF Queued
<1>6. p \in Object /\ Books(p) /\ Busy(p) /\ Follows(x, p)
  BY <1>3, <1>5, DrainIs
<1>7. Reaches(o, p, {t} \cup {})
  <2>1. {} \cap ({t} \cup Pending(o.tasks)) = {} /\ Reaches(x, p, {})
    BY <1>6 DEF Follows
  <2> QED  BY <1>5, <2>1, ReachesIsTransitive
<1>8. {t} \cup {} = {t}
  OBVIOUS
<1> QED  BY <1>6, <1>7, <1>8

\* The same for a task nobody waits for.
LEMMA AcceptUnawaitedIs ==
    ASSUME NEW o \in Object, Books(o), ~Full(o), NEW t \in Task \ DOMAIN o.tasks,
           NEW engaged \in BOOLEAN, NEW p, p = Accept(o, t, engaged)
    PROVE  p \in Object /\ Books(p) /\ Busy(p) /\ Reaches(o, p, {t})
<1>1. o = [o EXCEPT !.callbacks = @ \cup {}]
  BY DEF Object
<1>2. {} \in SUBSET {t} /\ p = Accept([o EXCEPT !.callbacks = @ \cup {}], t, engaged)
  BY <1>1
<1> QED  BY <1>2, AcceptIs

\* From o to p the pending task t has been cancelled.
Cancelled(o, t, p) ==
    /\ p \in Object /\ Books(p) /\ SameSlots(o, p) /\ p.writes = o.writes
    /\ DOMAIN p.tasks = DOMAIN o.tasks
    /\ Pending(p.tasks) = Pending(o.tasks) \ {t}
    /\ Follows(o, p) /\ (Busy(o) => Busy(p))

\* cancel of a waiting task takes it from queue, status and callbacks at once.
LEMMA CancelPendingIs ==
    ASSUME NEW o \in Object, Books(o), NEW t \in Pending(o.tasks),
           NEW p, p = CancelPending(o, t)
    PROVE  Cancelled(o, t, p)
<1>1. t \in DOMAIN o.tasks /\ t \in Task /\ t \notin Running(o.tasks)
  BY RowsAre DEF Pending, Running, Object
<1>2. PICK a : a = Ended(o, t)
  OBVIOUS
<1>3. PICK b : b = [a EXCEPT !.queue = RemoveFirst(@, t)]
  OBVIOUS
<1>4. p = FireCompletion(b, t)
  BY <1>2, <1>3 DEF CancelPending, Then
<1>5. /\ a \in Object /\ SameSlots(o, a)
      /\ a.queue = o.queue /\ a.callbacks = o.callbacks /\ a.writes = o.writes
      /\ DOMAIN a.tasks = DOMAIN o.tasks
      /\ Pending(a.tasks) = Pending(o.tasks) \ {t}
      /\ Running(a.tasks) = Running(o.tasks) \ {t}
  BY <1>1, <1>2, EndedIs
<1>6. PICK q \in Queues : q = o.queue
  BY DEF Books
<1>7. t \in ToSet(q) /\ ToSet(q) = Pending(o.tasks) /\ q \in Seq(Task)
  BY <1>6 DEF Books, Queues
<1>8. PICK r : r = RemoveFirst(q, t)
  OBVIOUS
<1>9. r \in Queues /\ Len(r) = Len(q) - 1 /\ ToSet(r) = Pending(o.tasks) \ {t} /\ r \in Seq(Task)
  <2>1. r \in Queues /\ Len(r) = Len(q) - 1 /\ ToSet(r) = ToSet(q) \ {t}
    BY <1>7, <1>8, QueueRemove
  <2>2. r \in Seq(Task)
    BY <2>1 DEF Queues
  <2> QED  BY <1>7, <2>1, <2>2
<1>10. b = [a EXCEPT !.queue = r]
  BY <1>3, <1>5, <1>6, <1>8
<1>11. /\ b \in Object /\ SameSlots(a, b) /\ b.queue = r /\ b.tasks = a.tasks
       /\ b.callbacks = a.callbacks /\ b.writes = a.writes
  BY <1>5, <1>9, <1>10 DEF Object, SameSlots
<1>12. /\ p \in Object /\ SameSlots(b, p)
       /\ p.queue = b.queue /\ p.tasks = b.tasks /\ p.writes = b.writes
       /\ p.callbacks = b.callbacks \ {t}
  BY <1>1, <1>4, <1>11, FireCompletionIs
<1>13. /\ SameSlots(o, p) /\ p.writes = o.writes /\ p.queue = r
       /\ p.callbacks = o.callbacks \ {t} /\ DOMAIN p.tasks = DOMAIN o.tasks
       /\ Pending(p.tasks) = Pending(o.tasks) \ {t}
       /\ Running(p.tasks) = Running(o.tasks)
  BY <1>1, <1>5, <1>11, <1>12 DEF SameSlots
<1>14. Books(p)
  <2>1. Len(p.queue) + Cardinality(p.running) <= MaxQueue
    <3>1. Len(q) \in Nat /\ Cardinality(o.running) \in Nat /\ MaxQueue \in Nat
      BY <1>6, QueueLength, RunningFinite, OrchestratorAssumption DEF Books
    <3>2. Len(q) + Cardinality(o.running) <= MaxQueue /\ p.running = o.running
      BY <1>6, <1>13 DEF Books, SameSlots
    <3> QED  BY <1>9, <1>13, <3>1, <3>2
  <2>2. /\ p.running = Running(p.tasks) /\ p.activeTokens = SumTokens(p.running)
        /\ p.aborted \subseteq p.running /\ Cardinality(p.running) <= MaxConcurrent
        /\ Cardinality(p.running) > 1 => p.activeTokens <= MaxTokenBudget
    BY <1>13 DEF SameSlots, Books
  <2>3. p.callbacks \subseteq Pending(p.tasks) \cup p.running
    BY <1>13 DEF SameSlots, Books
  <2> QED  BY <1>9, <1>13, <2>1, <2>2, <2>3 DEF Books
<1>15. Follows(o, p)
  BY <1>13 DEF Follows, Reaches, SameSlots
<1>16. Busy(o) => Busy(p)
  BY <1>13 DEF Busy, NoFit, SameSlots
<1> QED  BY <1>12, <1>13, <1>14, <1>15, <1>16 DEF Cancelled

\* The slot, the signal and the tokens go back; nothing else changes.
LEMMA FreedIs ==
    ASSUME NEW o \in Object, NEW t \in Task, NEW p, p = Freed(o, t)
    PROVE  /\ p \in Object /\ p.tasks = o.tasks /\ p.queue = o.queue
           /\ p.callbacks = o.callbacks /\ p.writes = o.writes /\ p.starts = o.starts
           /\ p.running = o.running \ {t} /\ p.aborted = o.aborted \ {t}
           /\ p.activeTokens = IF o.activeTokens > Tokens[t]
                               THEN o.activeTokens - Tokens[t] ELSE 0
<1>1. PICK n : n = IF o.activeTokens > Tokens[t] THEN o.activeTokens - Tokens[t] ELSE 0
  OBVIOUS
<1>2. n \in Nat
  <2>1. o.activeTokens \in Nat /\ Tokens[t] \in Nat
    BY OrchestratorAssumption DEF Object
  <2> QED  BY <1>1, <2>1
<1>3. p = [o EXCEPT !.running = @ \ {t}, !.aborted = @ \ {t}, !.activeTokens = n]
  BY <1>1 DEF Freed
<1>4. /\ p \in Object /\ p.tasks = o.tasks /\ p.queue = o.queue
      /\ p.callbacks = o.callbacks /\ p.writes = o.writes /\ p.starts = o.starts
      /\ p.running = o.running \ {t} /\ p.aborted = o.aborted \ {t}
      /\ p.activeTokens = n
  BY <1>2, <1>3 DEF Object
<1> QED  BY <1>1, <1>4

\* A driver has returned: what its task held is given back, and the books agree again.
LEMMA EndedRunning ==
    ASSUME NEW o \in Object, Books(o), NEW t \in o.running,
           NEW p, p = Save(FireCompletion(Freed(Ended(o, t), t), t))
    PROVE  p \in Object /\ Books(p) /\ Follows(o, p)
<1>1. t \in DOMAIN o.tasks /\ t \in Task /\ t \notin Pending(o.tasks) /\ t \in Running(o.tasks)
  BY RowsAre DEF Pending, Running, Object, Books
<1>2. PICK a : a = Ended(o, t)
  OBVIOUS
<1>3. PICK b : b = Freed(a, t)
  OBVIOUS
<1>4. PICK c : c = FireCompletion(b, t)
  OBVIOUS
<1>5. p = Save(c)
  BY <1>2, <1>3, <1>4
<1>6. /\ a \in Object /\ SameSlots(o, a)
      /\ a.queue = o.queue /\ a.callbacks = o.callbacks /\ a.writes = o.writes
      /\ DOMAIN a.tasks = DOMAIN o.tasks
      /\ Pending(a.tasks) = Pending(o.tasks) \ {t}
      /\ Running(a.tasks) = Running(o.tasks) \ {t}
  BY <1>1, <1>2, EndedIs
<1>7. /\ b \in Object /\ b.tasks = a.tasks /\ b.queue = a.queue
      /\ b.callbacks = a.callbacks /\ b.writes = a.writes /\ b.starts = a.starts
      /\ b.running = a.running \ {t} /\ b.aborted = a.aborted \ {t}
      /\ b.activeTokens = IF a.activeTokens > Tokens[t]
                          THEN a.activeTokens - Tokens[t] ELSE 0
  BY <1>1, <1>3, <1>6, FreedIs
<1>8. /\ c \in Object /\ SameSlots(b, c)
      /\ c.queue = b.queue /\ c.tasks = b.tasks /\ c.writes = b.writes
      /\ c.callbacks = b.callbacks \ {t}
  BY <1>1, <1>4, <1>7, FireCompletionIs
<1>9. /\ p \in Object /\ SameSlots(c, p)
      /\ p.queue = c.queue /\ p.tasks = c.tasks /\ p.callbacks = c.callbacks
      /\ Wrote(c, p)
  BY <1>5, <1>8, SaveIs
<1>10. /\ p.queue = o.queue /\ p.callbacks = o.callbacks \ {t} /\ p.starts = o.starts
       /\ p.running = o.running \ {t} /\ p.aborted = o.aborted \ {t}
       /\ DOMAIN p.tasks = DOMAIN o.tasks
       /\ Pending(p.tasks) = Pending(o.tasks) \ {t}
       /\ Running(p.tasks) = Running(o.tasks) \ {t}
  BY <1>6, <1>7, <1>8, <1>9 DEF SameSlots
<1>11. p.activeTokens = IF o.activeTokens > Tokens[t] THEN o.activeTokens - Tokens[t] ELSE 0
  <2>1. p.activeTokens = b.activeTokens /\ a.activeTokens = o.activeTokens
    BY <1>6, <1>8, <1>9 DEF SameSlots
  <2> QED  BY <1>7, <2>1
<1>12. Pending(p.tasks) = Pending(o.tasks)
  BY <1>1, <1>10
<1>13. /\ IsFiniteSet(o.running) /\ o.running \in SUBSET Task
       /\ Cardinality(o.running) \in Nat /\ Cardinality(p.running) = Cardinality(o.running) - 1
  <2>1. IsFiniteSet(o.running) /\ o.running \in SUBSET Task /\ Cardinality(o.running) \in Nat
    BY RunningFinite DEF Books
  <2>2. Cardinality(o.running \ {t}) = Cardinality(o.running) - 1
    BY <2>1, FS_RemoveElement
  <2> QED  BY <1>10, <2>1, <2>2
<1>14. /\ p.activeTokens = SumTokens(p.running) /\ p.activeTokens <= o.activeTokens
       /\ o.activeTokens \in Nat /\ p.activeTokens \in Nat
  <2>1. /\ SumTokens(o.running) = SumTokens(p.running) + Tokens[t]
        /\ SumTokens(p.running) \in Nat
    BY <1>10, <1>13, SumTokensRemove
  <2>2. PICK m \in Nat : m = SumTokens(p.running)
    BY <2>1
  <2>3. o.activeTokens = m + Tokens[t] /\ Tokens[t] \in Nat
    BY <1>1, <2>1, <2>2, OrchestratorAssumption DEF Books
  <2>4. p.activeTokens = m
    BY <1>11, <2>3
  <2> QED  BY <2>2, <2>3, <2>4
<1>15. Books(p)
  <2>1. p.queue \in Queues /\ ToSet(p.queue) = Pending(p.tasks)
    BY <1>10, <1>12 DEF Books
  <2>2. p.running = Running(p.tasks) /\ p.aborted \subseteq p.running
    BY <1>10 DEF Books
  <2>3. /\ Cardinality(p.running) <= MaxConcurrent
        /\ Len(p.queue) + Cardinality(p.running) <= MaxQueue
    <3>1. Len(o.queue) \in Nat /\ MaxQueue \in Nat /\ MaxConcurrent \in Nat
      BY QueueLength, OrchestratorAssumption
    <3>2. /\ Cardinality(o.running) <= MaxConcurrent
          /\ Len(o.queue) + Cardinality(o.running) <= MaxQueue
      BY DEF Books
    <3> QED  BY <1>10, <1>13, <3>1, <3>2
  <2>4. Cardinality(p.running) > 1 => p.activeTokens <= MaxTokenBudget
    <3>1. MaxTokenBudget \in Nat
      BY OrchestratorAssumption
    <3>2. Cardinality(o.running) > 1 => o.activeTokens <= MaxTokenBudget
      BY DEF Books
    <3> QED  BY <1>13, <1>14, <3>1, <3>2
  <2>5. p.callbacks \subseteq Pending(p.tasks) \cup p.running
    BY <1>10, <1>12 DEF Books
  <2> QED  BY <1>14, <2>1, <2>2, <2>3, <2>4, <2>5 DEF Books
<1>16. Follows(o, p)
  <2>1. \A j \in DOMAIN p.writes :
            \/ \E i \in DOMAIN c.writes : p.writes[j] = c.writes[i]
            \/ /\ DOMAIN p.writes[j].file \subseteq DOMAIN c.tasks
               /\ Pending(p.writes[j].file) \subseteq Pending(c.tasks)
    BY <1>8, <1>9, WroteFollows
  <2>2. c.writes = o.writes /\ c.tasks = p.tasks
    BY <1>6, <1>7, <1>8, <1>9
  <2> QED  BY <1>10, <1>12, <2>1, <2>2 DEF Follows, Reaches
<1> QED  BY <1>9, <1>15, <1>16

\* Pruning keeps the books.
LEMMA PruneBooks ==
    ASSUME NEW o \in Object, Books(o), NEW p, p = PruneHistory(o)
    PROVE  p \in Object /\ Books(p) /\ (Busy(o) => Busy(p)) /\ Follows(o, p)
<1>1. /\ p \in Object /\ SameSlots(o, p)
      /\ p.queue = o.queue /\ p.callbacks = o.callbacks /\ p.writes = o.writes
      /\ DOMAIN p.tasks \subseteq DOMAIN o.tasks
      /\ Pending(p.tasks) = Pending(o.tasks) /\ Running(p.tasks) = Running(o.tasks)
  BY PruneHistoryIs
<1>2. Books(p)
  BY <1>1 DEF Books, SameSlots
<1>3. Busy(o) => Busy(p)
  BY <1>1 DEF Busy, NoFit, SameSlots
<1>4. Follows(o, p)
  BY <1>1 DEF Follows, Reaches, SameSlots
<1> QED  BY <1>1, <1>2, <1>3, <1>4

\* The end of _runTask: with the drain in its finally no slot stays idle.
LEMMA FinishIs ==
    ASSUME orch \in Object, Books(orch), NEW t \in orch.running, NEW engaged \in BOOLEAN,
           NEW p, p = Then(Then(Completed(t), LAMBDA ended : Drain(ended, engaged)),
                           PruneHistory)
    PROVE  p \in Object /\ Books(p) /\ Busy(p) /\ Follows(orch, p)
<1>1. PICK a : a = Save(FireCompletion(Freed(Ended(orch, t), t), t))
  OBVIOUS
<1>2. PICK b : b = Drain(a, engaged)
  OBVIOUS
<1>3. p = PruneHistory(b)
  <2>1. Completed(t) = a
    BY <1>1 DEF Completed, Then
  <2>2. Then(Completed(t), LAMBDA ended : Drain(ended, engaged)) = b
    BY <1>2, <2>1 DEF Then
  <2> QED  BY <2>2 DEF Then
<1>4. a \in Object /\ Books(a) /\ Follows(orch, a)
  <2>1. PICK o \in Object : o = orch
    OBVIOUS
  <2> QED  BY <1>1, <2>1, EndedRunning
<1>5. b \in Object /\ Books(b) /\ Busy(b) /\ Follows(a, b)
  BY <1>2, <1>4, DrainIs
<1>6. p \in Object /\ Books(p) /\ Busy(p) /\ Follows(b, p)
  BY <1>3, <1>5, PruneBooks
<1>7. Follows(orch, b)
  BY <1>4, <1>5, FollowsIsTransitive
<1> QED  BY <1>6, <1>7, FollowsIsTransitive

\* A timer or a cancel marks a running task, which goes on running.
LEMMA AbortRunningIs ==
    ASSUME NEW o \in Object, Books(o), NEW t \in o.running,
           NEW p, p = [o EXCEPT !.aborted = @ \cup {t}]
    PROVE  /\ p \in Object /\ Books(p) /\ (Busy(o) => Busy(p)) /\ Follows(o, p)
<1>1. PICK a : a = o.aborted \cup {t}
  OBVIOUS
<1>2. a \in SUBSET Task /\ a \subseteq o.running
  BY <1>1 DEF Object, Books
<1>3. p = [o EXCEPT !.aborted = a]
  BY <1>1
<1>4. /\ p \in Object /\ p.tasks = o.tasks /\ p.queue = o.queue /\ p.running = o.running
      /\ p.activeTokens = o.activeTokens /\ p.callbacks = o.callbacks /\ p.aborted = a
      /\ p.writes = o.writes /\ p.starts = o.starts
  BY <1>2, <1>3 DEF Object
<1> QED  BY <1>2, <1>4 DEF Books, Busy, NoFit, Follows, Reaches

(***************************************************************************)
(* The writes.                                                             *)
(***************************************************************************)

\* Every write of w is one of v, old if that was.
Remain(v, w) ==
    \A k \in DOMAIN w : \E j \in DOMAIN v :
        w[k].file = v[j].file /\ (v[j].old => w[k].old)

\* What writes that began earlier are after a rename.
LEMMA AgedIs ==
    ASSUME NEW v \in Seq(Write), NEW i \in Int, NEW m, m = Aged(v, i)
    PROVE  /\ m \in Seq(Write) /\ Len(m) = Len(v) /\ Remain(v, m)
           /\ \A j \in 1..Len(v) : j < i => m[j].old
<1>1. DOMAIN v = 1..Len(v) /\ Len(v) \in Nat /\ \A j \in 1..Len(v) : v[j] \in Write
  BY LenProperties, ElementOfSeq
<1>2. ASSUME NEW j \in 1..Len(v)
      PROVE  /\ m[j] \in Write /\ m[j].file = v[j].file
             /\ (v[j].old => m[j].old) /\ (j < i => m[j].old)
  <2>1. (v[j].old \/ j < i) = TRUE \/ (v[j].old \/ j < i) = FALSE
    OBVIOUS
  <2>2. PICK old \in BOOLEAN : old = (v[j].old \/ j < i)
    BY <2>1, Zenon
  <2>3. m[j] = [file |-> v[j].file, old |-> old]
    BY <1>1, <2>2 DEF Aged
  <2>4. v[j].file \in Rows
    BY <1>1 DEF Write
  <2>5. m[j] \in Write /\ m[j].file = v[j].file /\ m[j].old = old
    BY <2>3, <2>4 DEF Write
  <2> QED  BY <2>2, <2>5
<1>3. m \in Seq(Write) /\ Len(m) = Len(v) /\ DOMAIN m = 1..Len(v)
  <2>1. m \in [1..Len(v) -> Write]
    BY <1>1, <1>2 DEF Aged
  <2> QED  BY <1>1, <2>1, LenProperties, IsASeq
<1> QED  BY <1>1, <1>2, <1>3 DEF Remain

\* From o to p the writes v have become w, and nothing else has changed.
Rewritten(o, p) ==
    /\ p \in Object /\ SameSlots(o, p) /\ p.tasks = o.tasks /\ p.queue = o.queue
    /\ p.callbacks = o.callbacks /\ Remain(o.writes, p.writes)

\* A rename takes one write away.
LEMMA WriteLandsIs ==
    ASSUME NEW o \in Object, NEW i \in DOMAIN o.writes,
           NEW p, p = [o EXCEPT !.writes = RemoveAt(Aged(@, i), i)]
    PROVE  Rewritten(o, p)
<1>1. PICK v \in Seq(Write) : v = o.writes
  BY DEF Object
<1>2. DOMAIN v = 1..Len(v) /\ Len(v) \in Nat
  BY LenProperties
<1>3. i \in 1..Len(v)
  BY <1>1, <1>2
<1>4. PICK m : m = Aged(v, i)
  OBVIOUS
<1>5. m \in Seq(Write) /\ Len(m) = Len(v) /\ Remain(v, m)
  <2>1. i \in Int
    BY <1>2, <1>3
  <2> QED  BY <1>4, <2>1, AgedIs
<1>6. PICK w : w = RemoveAt(m, i)
  OBVIOUS
<1>7. /\ w \in Seq(Write) /\ Len(w) = Len(m) - 1
      /\ \A k \in 1..(Len(m) - 1) : w[k] = IF k < i THEN m[k] ELSE m[k + 1]
  <2>1. m \in Seq(Write) /\ i \in 1..Len(m)
    BY <1>3, <1>5
  <2> QED  BY <1>6, <2>1, RemoveAtIs
<1>8. \A k \in DOMAIN w : \E j \in DOMAIN m : w[k] = m[j]
  <2>1. DOMAIN w = 1..(Len(m) - 1) /\ DOMAIN m = 1..Len(m) /\ Len(m) \in Nat
    BY <1>5, <1>7, LenProperties
  <2>2. \A k \in 1..(Len(m) - 1) : k \in 1..Len(m) /\ k + 1 \in 1..Len(m)
    BY <2>1
  <2> QED  BY <1>7, <2>1, <2>2
<1>9. Remain(v, w)
  BY <1>5, <1>8 DEF Remain
<1>10. p = [o EXCEPT !.writes = w]
  BY <1>1, <1>4, <1>6
<1>11. /\ p \in Object /\ SameSlots(o, p) /\ p.tasks = o.tasks /\ p.queue = o.queue
       /\ p.callbacks = o.callbacks /\ p.writes = w
  BY <1>7, <1>10 DEF Object, SameSlots
<1> QED  BY <1>1, <1>9, <1>11 DEF Rewritten

\* Writes are not in the books.
LEMMA RewrittenBooks ==
    ASSUME NEW o, Books(o), NEW p, Rewritten(o, p)
    PROVE  Books(p) /\ (Busy(o) => Busy(p))
BY DEF Rewritten, SameSlots, Books, Busy, NoFit

(***************************************************************************)
(* Stop: every pending task is cancelled.                                  *)
(***************************************************************************)

\* The loop of Bridge.stop over the pending tasks.
CancelAll(o) == Looped(o, Len(o.queue), LAMBDA x, i : CancelPending(x, o.queue[i]))

\* CancelAll is the last value of its loop.
LEMMA CancelAllIsLoop ==
    ASSUME NEW o, NEW n \in Nat, n = Len(o.queue), NEW g,
           g = [i \in 0..n |-> IF i = 0 THEN o ELSE CancelPending(g[i - 1], o.queue[i])]
    PROVE  \E f : /\ f = [i \in 0..n |->
                             IF i = 0 THEN o ELSE CancelPending(f[i - 1], o.queue[i])]
                  /\ CancelAll(o) = f[n]
<1> DEFINE F == CHOOSE f : f = [i \in 0..Len(o.queue) |-> IF i = 0 THEN o
                                ELSE Then(f[i - 1], LAMBDA s : CancelPending(s, o.queue[i]))]
<1>1. \A x, i : Then(x, LAMBDA s : CancelPending(s, o.queue[i])) = CancelPending(x, o.queue[i])
  BY DEF Then
<1>2. g = [i \in 0..Len(o.queue) |-> IF i = 0 THEN o
              ELSE Then(g[i - 1], LAMBDA s : CancelPending(s, o.queue[i]))]
  BY ZenonT(30), <1>1
<1>3. F = [i \in 0..Len(o.queue) |-> IF i = 0 THEN o
              ELSE Then(F[i - 1], LAMBDA s : CancelPending(s, o.queue[i]))]
  BY <1>2
<1>4. CancelAll(o) = F[Len(o.queue)]
  BY Zenon DEF CancelAll, Looped
<1>5. F = [i \in 0..n |-> IF i = 0 THEN o ELSE CancelPending(F[i - 1], o.queue[i])]
  <2> HIDE DEF F
  <2> QED  BY <1>1, <1>3
<1> HIDE DEF F
<1> QED  BY <1>4, <1>5

\* The first i tasks of the queue of o have been cancelled.
CancelStates(o, i) ==
    {x \in Object :
        /\ Books(x) /\ SameSlots(o, x) /\ x.writes = o.writes /\ Follows(o, x)
        /\ \A t : t \in Pending(x.tasks) <=>
                    \E j \in 1..Len(o.queue) : j > i /\ o.queue[j] = t}

\* Each round cancels the next task of the queue as it was before.
LEMMA CancelStep ==
    ASSUME NEW o \in Object, Books(o), NEW i \in 1..Len(o.queue), NEW x \in CancelStates(o, i - 1)
    PROVE  CancelPending(x, o.queue[i]) \in CancelStates(o, i)
<1>1. PICK q \in Queues : q = o.queue
  BY DEF Books
<1>2. PICK t : t = q[i]
  OBVIOUS
<1>3. Len(q) \in Nat /\ i \in 1..Len(q)
  BY <1>1, QueueLength
<1>4. /\ x \in Object /\ Books(x) /\ SameSlots(o, x) /\ x.writes = o.writes /\ Follows(o, x)
      /\ \A u : u \in Pending(x.tasks) <=> \E j \in 1..Len(q) : j > i - 1 /\ q[j] = u
  BY <1>1 DEF CancelStates
<1>5. t \in Pending(x.tasks)
  <2>1. i > i - 1
    BY <1>3
  <2> QED  BY <1>2, <1>3, <1>4, <2>1
<1>6. PICK p : p = CancelPending(x, t)
  OBVIOUS
<1>7. Cancelled(x, t, p)
  BY <1>4, <1>5, <1>6, CancelPendingIs
<1>8. ASSUME NEW u
      PROVE  u \in Pending(p.tasks) <=> \E j \in 1..Len(q) : j > i /\ q[j] = u
  <2>1. u \in Pending(p.tasks) <=> u # t /\ \E j \in 1..Len(q) : j > i - 1 /\ q[j] = u
    BY <1>4, <1>7 DEF Cancelled
  <2>2. ASSUME NEW j \in 1..Len(q), j > i - 1, q[j] = u, u # t  PROVE j > i
    BY <1>2, <1>3, <2>2
  <2>3. ASSUME NEW j \in 1..Len(q), j > i, q[j] = u  PROVE j > i - 1 /\ u # t
    BY <1>2, <1>3, <2>3 DEF Queues
  <2> QED  BY <2>1, <2>2, <2>3
<1>9. SameSlots(o, p) /\ p.writes = o.writes
  BY <1>4, <1>7 DEF Cancelled, SameSlots
<1>10. Follows(o, p)
  BY <1>4, <1>7, FollowsIsTransitive DEF Cancelled
<1>11. p \in CancelStates(o, i)
  BY <1>1, <1>7, <1>8, <1>9, <1>10 DEF CancelStates, Cancelled
<1> QED  BY <1>1, <1>2, <1>6, <1>11

\* After the loop nothing is pending.
LEMMA CancelAllIs ==
    ASSUME NEW o \in Object, Books(o), NEW p, p = CancelAll(o)
    PROVE  /\ p \in Object /\ Books(p) /\ SameSlots(o, p) /\ p.writes = o.writes
           /\ Follows(o, p) /\ Pending(p.tasks) = {}
<1> DEFINE n == Len(o.queue)
           S == [i \in 0..n |-> CancelStates(o, i)]
           step == [y \in (1..n) \X Object |-> CancelPending(y[2], o.queue[y[1]])]
<1>1. n \in Nat
  BY QueueLength
<1> HIDE DEF n
<1>2. o \in CancelStates(o, 0)
  <2>1. ASSUME NEW t
        PROVE  t \in Pending(o.tasks) <=> \E j \in 1..Len(o.queue) : j > 0 /\ o.queue[j] = t
    <3>1. PICK q \in Seq(Task) : q = o.queue
      BY DEF Object
    <3>2. t \in ToSet(q) <=> \E j \in 1..Len(q) : q[j] = t
      BY QueueOf
    <3>3. \A j \in 1..Len(q) : j > 0
      OBVIOUS
    <3>4. ToSet(q) = Pending(o.tasks)
      BY <3>1 DEF Books
    <3> QED  BY <3>1, <3>2, <3>3, <3>4
  <2>2. SameSlots(o, o) /\ Follows(o, o)
    BY ReachesIsReflexive DEF SameSlots, Follows
  <2> QED  BY <2>1, <2>2 DEF CancelStates
<1>3. ASSUME NEW i \in 1..n, NEW x \in CancelStates(o, i - 1)
      PROVE  /\ CancelPending(x, o.queue[i]) \in CancelStates(o, i)
             /\ step[<<i, x>>] = CancelPending(x, o.queue[i])
  <2>1. x \in Object
    BY DEF CancelStates
  <2>2. step[<<i, x>>] = CancelPending(x, o.queue[i])
    BY <2>1
  <2> QED  BY <2>2, CancelStep DEF n
<1>4. PICK g : Iterates(g, n, o, step) /\ \A i \in 0..n : g[i] \in CancelStates(o, i)
  <2> HIDE DEF step
  <2>1. o \in S[0]
    BY <1>1, <1>2
  <2>2. ASSUME NEW i \in 1..n, NEW x \in S[i - 1]  PROVE step[<<i, x>>] \in S[i]
    <3>1. i - 1 \in 0..n /\ i \in 0..n
      BY <1>1
    <3> QED  BY <1>3, <3>1
  <2>3. \A i \in 0..n : S[i] = CancelStates(o, i)
    OBVIOUS
  <2> HIDE DEF S
  <2>4. \A i \in 1..n : \A x \in S[i - 1] : step[<<i, x>>] \in S[i]
    BY <2>2
  <2>5. \E g : Iterates(g, n, o, step) /\ \A i \in 0..n : g[i] \in S[i]
    BY ONLY <1>1, <2>1, <2>4, LoopExists
  <2> QED  BY <2>3, <2>5
<1>5. g = [i \in 0..n |-> IF i = 0 THEN o ELSE CancelPending(g[i - 1], o.queue[i])]
  <2> HIDE DEF step
  <2>1. ASSUME NEW i \in 1..n  PROVE step[<<i, g[i - 1]>>] = CancelPending(g[i - 1], o.queue[i])
    <3>1. i - 1 \in 0..n
      BY <1>1
    <3> QED  BY <1>3, <1>4, <3>1
  <2>2. ASSUME NEW i \in 0..n
        PROVE  g[i] = IF i = 0 THEN o ELSE CancelPending(g[i - 1], o.queue[i])
    <3>1. g[i] = IF i = 0 THEN o ELSE step[<<i, g[i - 1]>>]
      BY <1>4 DEF Iterates
    <3>2. i # 0 => i \in 1..n
      BY <1>1
    <3> QED  BY <2>1, <3>1, <3>2
  <2>3. g = [i \in 0..n |-> g[i]]
    BY <1>4 DEF Iterates
  <2> QED  BY <2>2, <2>3
<1>6. PICK f : /\ f = [i \in 0..n |-> IF i = 0 THEN o ELSE CancelPending(f[i - 1], o.queue[i])]
               /\ p = f[n]
  BY <1>1, <1>5, CancelAllIsLoop DEF n
<1>7. f[n] \in CancelStates(o, n)
  <2> DEFINE P == {i \in 0..n : f[i] \in CancelStates(o, i)}
  <2> HIDE DEF step
  <2>1. 0 \in P
    BY <1>1, <1>2, <1>6
  <2>2. ASSUME NEW i \in 1..n, i - 1 \in P  PROVE i \in P
    <3>1. i \in 0..n /\ i # 0 /\ f[i - 1] \in CancelStates(o, i - 1)
      BY <1>1, <2>2
    <3>2. f[i] = CancelPending(f[i - 1], o.queue[i])
      BY <1>6, <3>1
    <3> QED  BY <1>3, <3>1, <3>2
  <2> HIDE DEF P
  <2>3. \A i \in 0..n : i \in P
    BY <1>1, <2>1, <2>2, UpTo
  <2>4. n \in P
    BY <1>1, <2>3
  <2> QED  BY <2>4 DEF P
<1>8. Pending(p.tasks) = {}
  <2>1. \A t : t \in Pending(p.tasks) => \E j \in 1..n : j > n
    BY <1>6, <1>7 DEF CancelStates, n
  <2>2. \A j \in 1..n : ~(j > n)
    BY <1>1
  <2> QED  BY <2>1, <2>2
<1> QED  BY <1>6, <1>7, <1>8 DEF CancelStates

\* Bridge.stop leaves nothing pending, and every write that is under way is old.
LEMMA StopIs ==
    ASSUME NEW o \in Object, Books(o), NEW q, q = CancelAll(o),
           NEW p, p = [q EXCEPT !.aborted = o.running, !.writes = Aged(@, Len(@) + 1)]
    PROVE  /\ p \in Object /\ Books(p) /\ Busy(p) /\ p.starts = o.starts
           /\ DOMAIN p.tasks \subseteq DOMAIN o.tasks /\ Pending(p.tasks) = {}
           /\ Remain(o.writes, p.writes) /\ \A i \in DOMAIN p.writes : p.writes[i].old
<1>1. /\ q \in Object /\ Books(q) /\ SameSlots(o, q) /\ q.writes = o.writes
      /\ Follows(o, q) /\ Pending(q.tasks) = {}
  BY CancelAllIs
<1>2. PICK v \in Seq(Write) : v = o.writes
  BY DEF Object
<1>3. PICK n \in Nat : n = Len(v)
  BY LenProperties
<1>4. PICK w : w = Aged(v, n + 1)
  OBVIOUS
<1>5. /\ w \in Seq(Write) /\ Len(w) = n /\ Remain(v, w)
      /\ \A j \in 1..n : j < n + 1 => w[j].old
  BY <1>3, <1>4, AgedIs
<1>6. \A j \in DOMAIN w : w[j].old
  <2>1. DOMAIN w = 1..n
    BY <1>5, LenProperties
  <2>2. \A j \in 1..n : j < n + 1
    BY <1>3
  <2> QED  BY <1>5, <2>1, <2>2
<1>7. p = [q EXCEPT !.aborted = o.running, !.writes = w]
  BY <1>1, <1>2, <1>3, <1>4
<1>8. /\ p \in Object /\ p.tasks = q.tasks /\ p.queue = q.queue /\ p.running = q.running
      /\ p.activeTokens = q.activeTokens /\ p.callbacks = q.callbacks
      /\ p.aborted = o.running /\ p.writes = w /\ p.starts = q.starts
  BY <1>1, <1>5, <1>7 DEF Object
<1>9. Books(p)
  BY <1>1, <1>8 DEF Books, SameSlots
<1>10. Busy(p)
  BY <1>1, <1>8 DEF Busy
<1>11. p.starts = o.starts /\ DOMAIN p.tasks \subseteq DOMAIN o.tasks
  BY <1>1, <1>8 DEF SameSlots, Follows, Reaches
<1> QED  BY <1>1, <1>2, <1>5, <1>6, <1>8, <1>9, <1>10, <1>11

(***************************************************************************)
(* Load: what the tasks file holds is restored, task by task.              *)
(***************************************************************************)

\* A saved task comes back as ended.
Restored(o, t, at) == [o EXCEPT !.tasks = Put(@, t, "ended", at)]

\* A task restored as ended is in no book.
LEMMA RestoredIs ==
    ASSUME NEW o \in Object, Books(o), NEW t \in Task \ DOMAIN o.tasks, NEW at \in Nat,
           NEW p, p = Restored(o, t, at)
    PROVE  /\ p \in Object /\ Books(p) /\ (Busy(o) => Busy(p)) /\ Reaches(o, p, {t})
           /\ Pending(p.tasks) = Pending(o.tasks) /\ p.starts = o.starts
<1>1. o.tasks \in Rows /\ "ended" \in Status
  BY DEF Object, Status
<1>2. PICK rows : rows = Put(o.tasks, t, "ended", at)
  OBVIOUS
<1>3. /\ rows \in Rows
      /\ \A u : u \in DOMAIN rows <=> u = t \/ u \in DOMAIN o.tasks
      /\ \A u : u \in Pending(rows) <=> IF u = t THEN "ended" = "pending" ELSE u \in Pending(o.tasks)
      /\ \A u : u \in Running(rows) <=> IF u = t THEN "ended" = "running" ELSE u \in Running(o.tasks)
  BY <1>1, <1>2, PutIs
<1>4. t \notin Pending(o.tasks) /\ t \notin Running(o.tasks)
  BY DEF Pending, Running
<1>5. /\ DOMAIN rows = DOMAIN o.tasks \cup {t} /\ Pending(rows) = Pending(o.tasks)
      /\ Running(rows) = Running(o.tasks)
  BY <1>3, <1>4
<1>6. p = [o EXCEPT !.tasks = rows]
  BY <1>2 DEF Restored
<1>7. /\ p \in Object /\ p.tasks = rows /\ SameSlots(o, p) /\ p.queue = o.queue
      /\ p.callbacks = o.callbacks /\ p.writes = o.writes
  BY <1>3, <1>6 DEF Object, SameSlots
<1>8. Books(p)
  BY <1>5, <1>7 DEF Books, SameSlots
<1>9. Busy(o) => Busy(p)
  BY <1>5, <1>7 DEF Busy, NoFit, SameSlots
<1>10. Reaches(o, p, {t})
  BY <1>5, <1>7 DEF Reaches, SameSlots
<1> QED  BY <1>5, <1>7, <1>8, <1>9, <1>10 DEF SameSlots

\* From o to p the saved task t has been restored, or was there.
Loaded(o, saved, t, p) ==
    /\ p \in Object /\ Books(p) /\ Busy(p)
    /\ \/ p = o /\ t \in DOMAIN o.tasks
       \/ /\ t \notin DOMAIN o.tasks /\ Reaches(o, p, {t})
          /\ \/ t \in Pending(saved)
             \/ Pending(p.tasks) = Pending(o.tasks) /\ p.starts = o.starts

\* One saved task: it is skipped, restored as ended or, with room, queued again.
LEMMA LoadTaskIs ==
    ASSUME NEW o \in Object, Books(o), Busy(o), NEW saved \in Rows, NEW t \in DOMAIN saved,
           NEW recovered \in BOOLEAN, NEW engaged \in BOOLEAN,
           NEW p, p = LoadTask(o, saved, t, recovered, engaged)
    PROVE  Loaded(o, saved, t, p)
<1>1. t \in Task /\ saved[t].doneAt \in Nat
  BY RowsAre DEF Row
<1>2. PICK at : at = IF saved[t].doneAt > 0 THEN saved[t].doneAt ELSE Now(o.tasks)
  OBVIOUS
<1>3. at \in Nat
  <2>1. Now(o.tasks) \in Nat
    BY NowIsTime DEF Object
  <2> QED  BY <1>1, <1>2, <2>1
<1>4. PICK restored : restored = Restored(o, t, at)
  OBVIOUS
<1>5. ASSUME t \notin DOMAIN o.tasks
      PROVE  /\ restored \in Object /\ Books(restored) /\ Busy(restored)
             /\ Reaches(o, restored, {t})
             /\ Pending(restored.tasks) = Pending(o.tasks) /\ restored.starts = o.starts
  <2>1. t \in Task \ DOMAIN o.tasks
    BY <1>1, <1>5
  <2> QED  BY <1>3, <1>4, <2>1, RestoredIs
<1>6. CASE t \in DOMAIN o.tasks
  <2>1. p = o
    BY <1>6 DEF LoadTask
  <2> QED  BY <1>6, <2>1 DEF Loaded
<1>7. CASE t \notin DOMAIN o.tasks /\ saved[t].status # "pending"
  <2>1. p = restored
    BY <1>2, <1>4, <1>7 DEF LoadTask, Restored
  <2> QED  BY <1>5, <1>7, <2>1 DEF Loaded
<1>8. CASE t \notin DOMAIN o.tasks /\ saved[t].status = "pending"
  <2>1. t \in Pending(saved)
    BY <1>8 DEF Pending
  <2>2. CASE recovered /\ ~Full(o)
    <3>1. p = Accept(o, t, engaged)
      BY <1>8, <2>2 DEF LoadTask
    <3>2. p \in Object /\ Books(p) /\ Busy(p) /\ Reaches(o, p, {t})
      BY <1>1, <1>8, <2>2, <3>1, AcceptUnawaitedIs
    <3> QED  BY <1>8, <2>1, <3>2 DEF Loaded
  <2>3. CASE ~(recovered /\ ~Full(o))
    <3>1. p = restored
      BY <1>2, <1>4, <1>8, <2>3 DEF LoadTask, Restored
    <3> QED  BY <1>5, <1>8, <3>1 DEF Loaded
  <2> QED  BY <2>2, <2>3
<1> QED  BY <1>6, <1>7, <1>8

\* From o to p no tasks but those of S have come in, in the tasks and in what is saved,
\* and no others were started.
Within(o, p, S) ==
    /\ DOMAIN p.tasks \subseteq DOMAIN o.tasks \cup S
    /\ \A t \in Task \ (DOMAIN o.tasks \cup S) : p.starts[t] = o.starts[t]
    /\ \A j \in DOMAIN p.writes :
        \/ \E i \in DOMAIN o.writes : p.writes[j] = o.writes[i]
        \/ DOMAIN p.writes[j].file \subseteq DOMAIN o.tasks \cup S

\* One step more takes in no other tasks.
LEMMA WithinReaches ==
    ASSUME NEW o, NEW p, NEW q, NEW S, NEW T, Within(o, p, S), Reaches(p, q, T), T \subseteq S
    PROVE  Within(o, q, S)
<1>1. Pending(p.tasks) \subseteq DOMAIN p.tasks
  BY DEF Pending
<1>2. DOMAIN q.tasks \subseteq DOMAIN o.tasks \cup S
  BY DEF Within, Reaches
<1>3. \A t \in Task \ (DOMAIN o.tasks \cup S) : q.starts[t] = o.starts[t]
  BY <1>1 DEF Within, Reaches
<1>4. ASSUME NEW j \in DOMAIN q.writes
      PROVE  \/ \E i \in DOMAIN o.writes : q.writes[j] = o.writes[i]
             \/ DOMAIN q.writes[j].file \subseteq DOMAIN o.tasks \cup S
  <2>1. CASE \E k \in DOMAIN p.writes : q.writes[j] = p.writes[k]
    BY <2>1 DEF Within
  <2>2. CASE DOMAIN q.writes[j].file \subseteq DOMAIN p.tasks \cup T
    BY <2>2 DEF Within
  <2> QED  BY <2>1, <2>2 DEF Reaches
<1> QED  BY <1>2, <1>3, <1>4 DEF Within

\* StartedOnce, and that what waits has not been started.
OnceOf(o) == \A t \in Task : o.starts[t] <= 1 /\ (t \in Pending(o.tasks) => o.starts[t] = 0)

\* What comes in was not started: still nothing has started twice.
LEMMA OnceReaches ==
    ASSUME NEW o \in Object, OnceOf(o), NEW p, NEW S, Reaches(o, p, S),
           \A t \in Task \cap S : o.starts[t] = 0
    PROVE  OnceOf(p)
<1> SUFFICES ASSUME NEW t \in Task
             PROVE  p.starts[t] <= 1 /\ (t \in Pending(p.tasks) => p.starts[t] = 0)
  BY DEF OnceOf
<1>1. o.starts[t] \in Nat
  BY DEF Object
<1>2. o.starts[t] <= 1 /\ (t \in Pending(o.tasks) \cup S => o.starts[t] = 0)
  BY DEF OnceOf
<1>3. t \in Pending(p.tasks) => t \in Pending(o.tasks) \cup S
  BY DEF Reaches
<1>4. CASE p.starts[t] = o.starts[t]
  BY <1>2, <1>3, <1>4
<1>5. CASE p.starts[t] = o.starts[t] + 1 /\ t \in (Pending(o.tasks) \cup S) \ Pending(p.tasks)
  BY <1>1, <1>2, <1>5
<1> QED  BY <1>4, <1>5 DEF Reaches

\* The file holds none of the tasks of o, and what it holds as pending was not started.
Unmet(o, saved) ==
    /\ OnceOf(o) /\ DOMAIN o.tasks \cap DOMAIN saved = {}
    /\ \A t \in Pending(saved) : o.starts[t] = 0

\* The first i tasks of the order have been restored.
LoadStates(o, saved, order, i) ==
    {x \in Object :
        /\ Books(x) /\ Busy(x) /\ Within(o, x, DOMAIN saved)
        /\ Unmet(o, saved) =>
            /\ OnceOf(x)
            /\ \A j \in DOMAIN order : j > i =>
                /\ order[j] \notin DOMAIN x.tasks
                /\ order[j] \in Pending(saved) => x.starts[order[j]] = 0}

\* A round restores the next task of the file and no other.
LEMMA LoadStep ==
    ASSUME NEW o \in Object, NEW saved \in Rows, NEW n \in Nat,
           NEW order \in [1..n -> DOMAIN saved],
           \A i, j \in 1..n : i # j => order[i] # order[j],
           NEW recovered \in BOOLEAN, NEW engaged \in BOOLEAN,
           NEW i \in 1..n, NEW x \in LoadStates(o, saved, order, i - 1)
    PROVE  LoadTask(x, saved, order[i], recovered, engaged) \in LoadStates(o, saved, order, i)
<1>1. /\ x \in Object /\ Books(x) /\ Busy(x) /\ Within(o, x, DOMAIN saved)
      /\ Unmet(o, saved) =>
            /\ OnceOf(x)
            /\ \A j \in 1..n : j > i - 1 =>
                /\ order[j] \notin DOMAIN x.tasks
                /\ order[j] \in Pending(saved) => x.starts[order[j]] = 0
  BY DEF LoadStates
<1>2. PICK t \in DOMAIN saved : t = order[i]
  OBVIOUS
<1>3. PICK p : p = LoadTask(x, saved, t, recovered, engaged)
  OBVIOUS
<1>4. Loaded(x, saved, t, p)
  <2>1. x \in Object /\ Books(x) /\ Busy(x) /\ t \in DOMAIN saved
    BY <1>1, <1>2
  <2> QED  BY <1>3, <2>1, LoadTaskIs
<1>5. Within(o, p, DOMAIN saved)
  BY <1>1, <1>2, <1>4, WithinReaches DEF Loaded
<1>6. ASSUME Unmet(o, saved)
      PROVE  /\ OnceOf(p)
             /\ \A j \in 1..n : j > i =>
                 /\ order[j] \notin DOMAIN p.tasks
                 /\ order[j] \in Pending(saved) => p.starts[order[j]] = 0
  <2>1. /\ OnceOf(x) /\ t \notin DOMAIN x.tasks
        /\ t \in Pending(saved) => x.starts[t] = 0
    <3>1. i > i - 1
      OBVIOUS
    <3> QED  BY <1>1, <1>2, <1>6, <3>1
  <2>2. Reaches(x, p, {t})
    BY <1>4, <2>1 DEF Loaded
  <2>3. OnceOf(p)
    <3>1. CASE t \in Pending(saved)
      <4>1. \A u \in Task \cap {t} : x.starts[u] = 0
        BY <2>1, <3>1
      <4> QED  BY <1>1, <2>1, <2>2, <4>1, OnceReaches
    <3>2. CASE t \notin Pending(saved)
      BY <1>4, <2>1, <3>2 DEF OnceOf, Loaded
    <3> QED  BY <3>1, <3>2
  <2>4. ASSUME NEW j \in 1..n, j > i
        PROVE  /\ order[j] \notin DOMAIN p.tasks
               /\ order[j] \in Pending(saved) => p.starts[order[j]] = 0
    <3>1. PICK u \in DOMAIN saved : u = order[j]
      OBVIOUS
    <3>2. u # t /\ j > i - 1
      BY <1>2, <2>4, <3>1
    <3>3. u \notin DOMAIN x.tasks /\ (u \in Pending(saved) => x.starts[u] = 0)
      BY <1>1, <1>6, <3>1, <3>2
    <3>4. u \notin Pending(x.tasks) /\ u \in Task
      BY <3>3, RowsAre DEF Pending
    <3>5. u \notin DOMAIN p.tasks /\ p.starts[u] = x.starts[u]
      BY <2>2, <3>2, <3>3, <3>4 DEF Reaches
    <3> QED  BY <3>1, <3>3, <3>5
  <2> QED  BY <2>3, <2>4
<1>7. p \in LoadStates(o, saved, order, i)
  BY <1>4, <1>5, <1>6 DEF LoadStates, Loaded
<1> QED  BY <1>2, <1>3, <1>7

\* The loop of loadPersistedTasks over the saved tasks, in the order of the file.
LoadAll(o, saved, order, recovered, engaged) ==
    Looped(o, Len(order), LAMBDA x, i : LoadTask(x, saved, order[i], recovered, engaged))

\* LoadAll is the last value of its loop.
LEMMA LoadAllIsLoop ==
    ASSUME NEW o, NEW saved, NEW order, NEW recovered, NEW engaged,
           NEW n \in Nat, n = Len(order), NEW g,
           g = [i \in 0..n |-> IF i = 0 THEN o
                   ELSE LoadTask(g[i - 1], saved, order[i], recovered, engaged)]
    PROVE  \E f : /\ f = [i \in 0..n |-> IF i = 0 THEN o
                             ELSE LoadTask(f[i - 1], saved, order[i], recovered, engaged)]
                  /\ LoadAll(o, saved, order, recovered, engaged) = f[n]
<1> DEFINE Round(x, i) ==
                Then(x, LAMBDA s : LoadTask(s, saved, order[i], recovered, engaged))
           F == CHOOSE f : f = [i \in 0..Len(order) |-> IF i = 0 THEN o ELSE Round(f[i - 1], i)]
<1>1. \A x, i : Round(x, i) = LoadTask(x, saved, order[i], recovered, engaged)
  BY DEF Then
<1>2. g = [i \in 0..Len(order) |-> IF i = 0 THEN o ELSE Round(g[i - 1], i)]
  BY <1>1
<1>3. F = [i \in 0..Len(order) |-> IF i = 0 THEN o ELSE Round(F[i - 1], i)]
  BY <1>2
<1>4. LoadAll(o, saved, order, recovered, engaged) = F[Len(order)]
  BY Zenon DEF LoadAll, Looped
<1>5. F = [i \in 0..n |-> IF i = 0 THEN o
              ELSE LoadTask(F[i - 1], saved, order[i], recovered, engaged)]
  <2> HIDE DEF F
  <2> QED  BY ZenonT(30), <1>1, <1>3
<1> HIDE DEF F
<1> QED  BY <1>4, <1>5

\* loadPersistedTasks, whole: books, limits, no idle slot, and nothing started twice.
LEMMA LoadAllIs ==
    ASSUME NEW o \in Object, Books(o), Busy(o), NEW saved \in Rows,
           NEW order \in SetToSeqs(DOMAIN saved),
           NEW recovered \in BOOLEAN, NEW engaged \in BOOLEAN,
           NEW p, p = LoadAll(o, saved, order, recovered, engaged)
    PROVE  /\ p \in Object /\ Books(p) /\ Busy(p) /\ Within(o, p, DOMAIN saved)
           /\ Unmet(o, saved) => OnceOf(p)
<1> DEFINE n == Cardinality(DOMAIN saved)
           Round(x, i) == LoadTask(x, saved, order[i], recovered, engaged)
           S == [i \in 0..n |-> LoadStates(o, saved, order, i)]
           step == [y \in (1..n) \X Object |-> Round(y[2], y[1])]
<1>1. n \in Nat
  BY RowsAre, FS_CardinalityType
<1>2. order \in [1..n -> DOMAIN saved] /\ \A i, j \in 1..n : i # j => order[i] # order[j]
  BY DEF SetToSeqs
<1> HIDE DEF n
<1>3. Len(order) = n /\ DOMAIN order = 1..n
  <2>1. order \in Seq(DOMAIN saved)
    BY <1>1, <1>2, IsASeq
  <2>2. DOMAIN order = 1..n /\ DOMAIN order = 1..Len(order) /\ Len(order) \in Nat
    BY <1>2, <2>1, LenProperties
  <2> QED  BY <1>1, <2>2
<1>4. o \in LoadStates(o, saved, order, 0)
  <2>1. Within(o, o, DOMAIN saved)
    BY DEF Within
  <2>2. ASSUME Unmet(o, saved)
        PROVE  /\ OnceOf(o)
               /\ \A j \in DOMAIN order : j > 0 =>
                    /\ order[j] \notin DOMAIN o.tasks
                    /\ order[j] \in Pending(saved) => o.starts[order[j]] = 0
    BY <1>2, <1>3, <2>2 DEF Unmet
  <2> QED  BY <2>1, <2>2 DEF LoadStates
<1>5. ASSUME NEW i \in 1..n, NEW x \in LoadStates(o, saved, order, i - 1)
      PROVE  Round(x, i) \in LoadStates(o, saved, order, i) /\ step[<<i, x>>] = Round(x, i)
  <2>1. x \in Object
    BY DEF LoadStates
  <2>2. step[<<i, x>>] = Round(x, i)
    BY <2>1
  <2>3. Round(x, i) \in LoadStates(o, saved, order, i)
    BY <1>1, <1>2, LoadStep
  <2> QED  BY <2>2, <2>3
<1> HIDE DEF Round
<1>6. PICK g : Iterates(g, n, o, step) /\ \A i \in 0..n : g[i] \in LoadStates(o, saved, order, i)
  <2> HIDE DEF step
  <2>1. o \in S[0]
    BY <1>1, <1>4
  <2>2. ASSUME NEW i \in 1..n, NEW x \in S[i - 1]  PROVE step[<<i, x>>] \in S[i]
    <3>1. i - 1 \in 0..n /\ i \in 0..n
      BY <1>1
    <3> QED  BY <1>5, <3>1
  <2>3. \A i \in 0..n : S[i] = LoadStates(o, saved, order, i)
    OBVIOUS
  <2> HIDE DEF S
  <2>4. \A i \in 1..n : \A x \in S[i - 1] : step[<<i, x>>] \in S[i]
    BY <2>2
  <2>5. \E g : Iterates(g, n, o, step) /\ \A i \in 0..n : g[i] \in S[i]
    BY ONLY <1>1, <2>1, <2>4, LoopExists
  <2> QED  BY <2>3, <2>5
<1>7. g = [i \in 0..n |-> IF i = 0 THEN o ELSE Round(g[i - 1], i)]
  <2> HIDE DEF step
  <2>1. ASSUME NEW i \in 1..n  PROVE step[<<i, g[i - 1]>>] = Round(g[i - 1], i)
    <3>1. i - 1 \in 0..n
      BY <1>1
    <3> QED  BY <1>5, <1>6, <3>1
  <2>2. ASSUME NEW i \in 0..n
        PROVE  g[i] = IF i = 0 THEN o ELSE Round(g[i - 1], i)
    <3>1. g[i] = IF i = 0 THEN o ELSE step[<<i, g[i - 1]>>]
      BY <1>6 DEF Iterates
    <3>2. i # 0 => i \in 1..n
      BY <1>1
    <3> QED  BY <2>1, <3>1, <3>2
  <2>3. g = [i \in 0..n |-> g[i]]
    BY <1>6 DEF Iterates
  <2> QED  BY <2>2, <2>3
<1>8. PICK f : f = [i \in 0..n |-> IF i = 0 THEN o ELSE Round(f[i - 1], i)] /\ p = f[n]
  <2>1. g = [i \in 0..n |-> IF i = 0 THEN o
                ELSE LoadTask(g[i - 1], saved, order[i], recovered, engaged)]
    BY <1>7 DEF Round
  <2>2. \E f : /\ f = [i \in 0..n |-> IF i = 0 THEN o
                          ELSE LoadTask(f[i - 1], saved, order[i], recovered, engaged)]
               /\ p = f[n]
    BY ONLY SMTT(30), <1>1, <1>3, <2>1, LoadAllIsLoop, p = LoadAll(o, saved, order, recovered, engaged)
  <2> QED  BY <2>2 DEF Round
<1>9. f[n] \in LoadStates(o, saved, order, n)
  <2> DEFINE P == {i \in 0..n : f[i] \in LoadStates(o, saved, order, i)}
  <2> HIDE DEF step
  <2>1. 0 \in P
    BY <1>1, <1>4, <1>8
  <2>2. ASSUME NEW i \in 1..n, i - 1 \in P  PROVE i \in P
    <3>1. i \in 0..n /\ i # 0 /\ f[i - 1] \in LoadStates(o, saved, order, i - 1)
      BY <1>1, <2>2
    <3>2. f[i] = Round(f[i - 1], i)
      BY <1>8, <3>1
    <3> QED  BY <1>5, <3>1, <3>2
  <2> HIDE DEF P
  <2>3. \A i \in 0..n : i \in P
    BY <1>1, <2>1, <2>2, UpTo
  <2>4. n \in P
    BY <1>1, <2>3
  <2> QED  BY <2>4 DEF P
<1> QED  BY <1>8, <1>9 DEF LoadStates

(***************************************************************************)
(* The inductive invariant.                                                *)
(***************************************************************************)

\* The types.
OrchestratorTypes ==
    /\ orch \in Object /\ disk \in Rows
    /\ phase \in {"down", "starting", "up", "stopping"}
    /\ fresh \subseteq Task /\ restarts \in Nat /\ lagging \in BOOLEAN

\* What nobody has submitted is known nowhere.
Unseen ==
    \A t \in fresh :
        /\ t \notin DOMAIN orch.tasks /\ t \notin DOMAIN disk /\ orch.starts[t] = 0
        /\ \A i \in DOMAIN orch.writes : t \notin DOMAIN orch.writes[i].file

\* Nothing pending was started: what waits now, and what the next process will find
\* in the file, or this one when it reads it.  Once the queue has been flushed nothing
\* waits, and a save that is not older than the flush holds nothing as pending.
Once ==
    ~lagging =>
        /\ OnceOf(orch)
        /\ phase # "up" => \A t \in Pending(disk) : orch.starts[t] = 0
        /\ phase = "starting" => DOMAIN orch.tasks \cap DOMAIN disk = {}
        /\ phase = "stopping" =>
            /\ Pending(orch.tasks) = {}
            /\ \A i \in DOMAIN orch.writes :
                orch.writes[i].old \/ Pending(orch.writes[i].file) = {}

\* A process that is gone has left no object behind.
Down == phase = "down" => orch = Constructed(orch.starts)

\* The inductive invariant.
OrchestratorInv ==
    /\ OrchestratorTypes /\ Books(orch) /\ Busy(orch) /\ Unseen /\ Once /\ Down

\* A new ClaudeOrchestrator is empty.
LEMMA ConstructedIs ==
    ASSUME NEW starts \in [Task -> Nat], NEW o, o = Constructed(starts)
    PROVE  /\ o \in Object /\ Books(o) /\ Busy(o) /\ o.starts = starts
           /\ DOMAIN o.tasks = {} /\ Pending(o.tasks) = {} /\ DOMAIN o.writes = {}
<1>1. Empty \in Rows /\ DOMAIN Empty = {}
  <2>1. DOMAIN Empty = {} /\ Empty \in [DOMAIN Empty -> Row] /\ IsFiniteSet({})
    BY FS_EmptySet DEF Empty
  <2> QED  BY <2>1, RowsAre
<1>2. <<>> \in Seq(Task) /\ <<>> \in Seq(Write) /\ <<>> \in Queues
  BY EmptySeq DEF Queues
<1>3. /\ o.tasks = Empty /\ o.queue = <<>> /\ o.running = {} /\ o.activeTokens = 0
      /\ o.callbacks = {} /\ o.aborted = {} /\ o.writes = <<>> /\ o.starts = starts
  BY DEF Constructed
<1>4. o \in Object
  BY <1>1, <1>2 DEF Constructed, Object
<1>5. Pending(o.tasks) = {} /\ Running(o.tasks) = {}
  BY <1>1, <1>3 DEF Pending, Running
<1>6. ToSet(o.queue) = {} /\ Len(o.queue) = 0 /\ DOMAIN o.writes = {}
  BY <1>3 DEF ToSet
<1>7. Cardinality(o.running) = 0 /\ o.activeTokens = SumTokens(o.running)
  BY <1>3, FS_EmptySet, NoTokens
<1>8. Books(o)
  <2>1. MaxConcurrent \in Nat /\ MaxQueue \in Nat
    BY OrchestratorAssumption
  <2> QED  BY <1>2, <1>3, <1>5, <1>6, <1>7, <2>1 DEF Books
<1> QED  BY <1>1, <1>3, <1>4, <1>5, <1>6, <1>8 DEF Busy

\* The first process begins with an empty object, and Legacy in the file.
LEMMA OrchestratorInit ==
    Init => OrchestratorInv
<1> SUFFICES ASSUME Init  PROVE OrchestratorInv
  OBVIOUS
<1> DEFINE none == [t \in Task |-> 0]
<1>1. none \in [Task -> Nat] /\ orch = Constructed(none)
  BY DEF Init
<1> HIDE DEF none
<1>2. /\ orch \in Object /\ Books(orch) /\ Busy(orch) /\ orch.starts = none
      /\ DOMAIN orch.tasks = {} /\ Pending(orch.tasks) = {} /\ DOMAIN orch.writes = {}
  BY <1>1, ConstructedIs
<1>3. disk \in Rows /\ DOMAIN disk = Legacy
  <2>1. DOMAIN disk = Legacy /\ Legacy \subseteq Task /\ IsFiniteSet(Legacy)
    BY OrchestratorAssumption DEF Init
  <2>2. disk \in [DOMAIN disk -> Row]
    <3>1. [status |-> "pending", doneAt |-> 0] \in Row
      BY DEF Row, Status
    <3> QED  BY <2>1, <3>1 DEF Init
  <2> QED  BY <2>1, <2>2, RowsAre
<1>4. \A t \in Task : orch.starts[t] = 0
  BY <1>2 DEF none
<1>5. /\ phase = "starting" /\ fresh = Task \ Legacy /\ restarts = 0 /\ lagging = FALSE
  BY DEF Init
<1>6. OrchestratorTypes
  BY <1>2, <1>3, <1>5 DEF OrchestratorTypes
<1>7. Unseen
  BY <1>2, <1>3, <1>4, <1>5 DEF Unseen
<1>8. Once
  <2>1. Pending(disk) \subseteq Task
    BY <1>3, RowsAre DEF Pending
  <2> QED  BY <1>2, <1>4, <1>5, <2>1 DEF Once, OnceOf
<1>9. Down
  BY <1>5 DEF Down
<1> QED  BY <1>2, <1>6, <1>7, <1>8, <1>9 DEF OrchestratorInv

\* Tasks come in from the fresh ones, which are then not so any more, or the file.
LEMMA UnseenStep ==
    ASSUME Unseen, fresh \subseteq Task, fresh' \subseteq fresh, disk' = disk,
           NEW S, Within(orch, orch', S), S \cap fresh' = {}
    PROVE  Unseen'
<1> SUFFICES ASSUME NEW t \in fresh'
             PROVE  /\ t \notin DOMAIN orch'.tasks /\ t \notin DOMAIN disk'
                    /\ orch'.starts[t] = 0
                    /\ \A i \in DOMAIN orch'.writes : t \notin DOMAIN orch'.writes[i].file
  BY DEF Unseen
<1>1. /\ t \in Task /\ t \notin S
      /\ t \notin DOMAIN orch.tasks /\ t \notin DOMAIN disk /\ orch.starts[t] = 0
      /\ \A i \in DOMAIN orch.writes : t \notin DOMAIN orch.writes[i].file
  BY DEF Unseen
<1> QED  BY <1>1 DEF Within

\* Within asks less than Reaches.
LEMMA ReachesWithin ==
    ASSUME NEW o, NEW p, NEW S, Reaches(o, p, S)
    PROVE  Within(o, p, S)
<1>1. Pending(o.tasks) \subseteq DOMAIN o.tasks
  BY DEF Pending
<1> QED  BY <1>1 DEF Reaches, Within

\* The steps of the object by itself, in which nothing new comes in.
LEMMA FollowsStep ==
    ASSUME OrchestratorInv, phase # "down",
           orch' \in Object, Books(orch'), Busy(orch'), Follows(orch, orch'),
           UNCHANGED <<phase, disk, fresh, restarts, lagging>>
    PROVE  OrchestratorInv'
<1>1. /\ OrchestratorTypes /\ Unseen /\ Once
  BY DEF OrchestratorInv
<1>2. Reaches(orch, orch', {})
  BY DEF Follows
<1>3. OrchestratorTypes'
  BY <1>1 DEF OrchestratorTypes
<1>4. Unseen'
  <2>1. Within(orch, orch', {})
    BY <1>2, ReachesWithin
  <2>2. fresh \subseteq Task /\ fresh' \subseteq fresh /\ disk' = disk /\ {} \cap fresh' = {}
    BY <1>1 DEF OrchestratorTypes
  <2> QED  BY <1>1, <2>1, <2>2, UnseenStep
<1>5. Once'
  <2> SUFFICES ASSUME ~lagging'
               PROVE  /\ OnceOf(orch')
                      /\ phase' # "up" => \A t \in Pending(disk') : orch'.starts[t] = 0
                      /\ phase' = "starting" => DOMAIN orch'.tasks \cap DOMAIN disk' = {}
                      /\ phase' = "stopping" =>
                          /\ Pending(orch'.tasks) = {}
                          /\ \A i \in DOMAIN orch'.writes :
                              orch'.writes[i].old \/ Pending(orch'.writes[i].file) = {}
    BY DEF Once
  <2>1. /\ OnceOf(orch)
        /\ phase # "up" => \A t \in Pending(disk) : orch.starts[t] = 0
        /\ phase = "starting" => DOMAIN orch.tasks \cap DOMAIN disk = {}
        /\ phase = "stopping" =>
            /\ Pending(orch.tasks) = {}
            /\ \A i \in DOMAIN orch.writes :
                orch.writes[i].old \/ Pending(orch.writes[i].file) = {}
    BY <1>1 DEF Once
  <2>2. OnceOf(orch')
    BY <1>1, <1>2, <2>1, OnceReaches DEF OrchestratorTypes
  <2>3. ASSUME phase' # "up", NEW t \in Pending(disk')  PROVE orch'.starts[t] = 0
    <3>1. t \in Task /\ t \in DOMAIN disk /\ t \in Pending(disk) /\ orch.starts[t] = 0
      BY <1>1, <2>1, <2>3, RowsAre DEF OrchestratorTypes, Pending
    <3>2. t \notin Pending(orch.tasks)
      BY <1>1, <2>1, <2>3, <3>1 DEF OrchestratorTypes, Pending
    <3> QED  BY <1>2, <3>1, <3>2 DEF Reaches
  <2>4. phase' = "starting" => DOMAIN orch'.tasks \cap DOMAIN disk' = {}
    BY <1>2, <2>1 DEF Reaches
  <2>5. phase' = "stopping" =>
            /\ Pending(orch'.tasks) = {}
            /\ \A i \in DOMAIN orch'.writes :
                orch'.writes[i].old \/ Pending(orch'.writes[i].file) = {}
    BY <1>2, <2>1 DEF Reaches
  <2> QED  BY <2>2, <2>3, <2>4, <2>5
<1>6. Down'
  BY DEF Down
<1> QED  BY <1>3, <1>4, <1>5, <1>6 DEF OrchestratorInv

\* A submission is of a task nobody had seen: it is nowhere, and was never started.
LEMMA EnqueueStep ==
    ASSUME OrchestratorInv, NEW t \in Task, Enqueue(t)
    PROVE  OrchestratorInv'
<1>1. OrchestratorTypes /\ Books(orch) /\ Unseen /\ Once
  BY DEF OrchestratorInv
<1>2. /\ t \in fresh /\ ~Full(orch) /\ phase # "down" /\ fresh' = fresh \ {t}
      /\ lagging' = (lagging \/ phase = "stopping")
      /\ phase' = phase /\ disk' = disk /\ restarts' = restarts
  BY DEF Enqueue
<1>3. PICK engaged \in BOOLEAN :
        orch' = Accept([orch EXCEPT !.callbacks = @ \cup ({t} \cap Awaited)], t, engaged)
  BY DEF Enqueue
<1>4. /\ t \in Task \ DOMAIN orch.tasks /\ t \notin DOMAIN disk /\ orch.starts[t] = 0
  BY <1>1, <1>2 DEF Unseen
<1>5. PICK o \in Object : o = orch
  BY <1>1 DEF OrchestratorTypes
<1>6. orch' \in Object /\ Books(orch') /\ Busy(orch') /\ Reaches(orch, orch', {t})
  <2>1. PICK waiting \in SUBSET {t} : waiting = {t} \cap Awaited
    OBVIOUS
  <2>2. PICK p : p = Accept([o EXCEPT !.callbacks = @ \cup waiting], t, engaged)
    OBVIOUS
  <2>3. Books(o) /\ ~Full(o) /\ t \in Task \ DOMAIN o.tasks
    BY <1>1, <1>2, <1>4, <1>5
  <2>4. p \in Object /\ Books(p) /\ Busy(p) /\ Reaches(o, p, {t})
    BY <2>2, <2>3, AcceptIs
  <2>5. orch' = p
    BY <1>3, <1>5, <2>1, <2>2
  <2> QED  BY <1>5, <2>4, <2>5
<1>7. OrchestratorTypes'
  BY <1>1, <1>2, <1>6 DEF OrchestratorTypes
<1>8. Within(orch, orch', {t})
  BY <1>6, ReachesWithin
<1>9. Unseen'
  <2>1. fresh \subseteq Task /\ fresh' \subseteq fresh /\ {t} \cap fresh' = {}
    BY <1>1, <1>2 DEF OrchestratorTypes
  <2> QED  BY <1>1, <1>2, <1>8, <2>1, UnseenStep
<1>10. Once'
  <2> SUFFICES ASSUME ~lagging'
               PROVE  /\ OnceOf(orch')
                      /\ phase' # "up" => \A u \in Pending(disk') : orch'.starts[u] = 0
                      /\ phase' = "starting" => DOMAIN orch'.tasks \cap DOMAIN disk' = {}
                      /\ phase' # "stopping"
    BY DEF Once
  <2>1. /\ phase # "stopping" /\ OnceOf(orch)
        /\ phase # "up" => \A u \in Pending(disk) : orch.starts[u] = 0
        /\ phase # "up" => DOMAIN orch.tasks \cap DOMAIN disk = {}
    BY <1>1, <1>2 DEF Once, OrchestratorTypes
  <2>2. OnceOf(orch')
    BY <1>4, <1>5, <1>6, <2>1, OnceReaches
  <2>3. ASSUME phase' # "up", NEW u \in Pending(disk')  PROVE orch'.starts[u] = 0
    <3>1. u \in DOMAIN disk /\ u \in Pending(disk) /\ u # t
      BY <1>2, <1>4 DEF Pending
    <3>2. u \in Task
      BY <1>1, <3>1, RowsAre DEF OrchestratorTypes
    <3>3. orch.starts[u] = 0 /\ u \notin DOMAIN orch.tasks
      BY <1>2, <2>1, <2>3, <3>1
    <3> QED  BY <1>8, <3>1, <3>2, <3>3 DEF Within
  <2>4. phase' = "starting" => DOMAIN orch'.tasks \cap DOMAIN disk' = {}
    BY <1>2, <1>4, <1>8, <2>1 DEF Within
  <2> QED  BY <1>2, <2>1, <2>2, <2>3, <2>4
<1>11. Down'
  BY <1>2 DEF Down
<1> QED  BY <1>6, <1>7, <1>9, <1>10, <1>11 DEF OrchestratorInv

\* A rename: what the file holds as pending is pending still, or the file is lagging.
LEMMA WriteStep ==
    ASSUME OrchestratorInv, NEW i \in DOMAIN orch.writes, WriteLands(i)
    PROVE  OrchestratorInv'
<1>1. OrchestratorTypes /\ Books(orch) /\ Busy(orch) /\ Unseen /\ Once /\ Down
  BY DEF OrchestratorInv
<1>2. /\ disk' = orch.writes[i].file
      /\ lagging' = (lagging \/ orch.writes[i].old \/ phase = "starting")
      /\ phase' = phase /\ fresh' = fresh /\ restarts' = restarts
      /\ orch' = [orch EXCEPT !.writes = RemoveAt(Aged(@, i), i)]
  BY DEF WriteLands
<1>3. PICK o \in Object : o = orch
  BY <1>1 DEF OrchestratorTypes
<1>4. Rewritten(orch, orch')
  <2>1. PICK p : p = [o EXCEPT !.writes = RemoveAt(Aged(@, i), i)]
    OBVIOUS
  <2>2. Rewritten(o, p)
    BY <1>3, <2>1, WriteLandsIs
  <2> QED  BY <1>2, <1>3, <2>1, <2>2
<1>5. orch' \in Object /\ Books(orch') /\ Busy(orch')
  BY <1>1, <1>4, RewrittenBooks DEF Rewritten
<1>6. orch.writes[i] \in Write
  <2>1. orch.writes \in Seq(Write)
    BY <1>3 DEF Object
  <2>2. i \in 1..Len(orch.writes)
    BY <2>1, LenProperties
  <2> QED  BY <2>1, <2>2, ElementOfSeq
<1>7. phase # "down"
  <2>1. ASSUME phase = "down"  PROVE FALSE
    <3>1. orch = Constructed(orch.starts) /\ orch.starts \in [Task -> Nat]
      BY <1>1, <1>3, <2>1 DEF Down, Object
    <3> QED  BY <3>1, ConstructedIs
  <2> QED  BY <2>1
<1>8. OrchestratorTypes'
  <2>1. disk' \in Rows /\ lagging' \in BOOLEAN
    BY <1>1, <1>2, <1>6 DEF Write, OrchestratorTypes
  <2> QED  BY <1>1, <1>2, <1>5, <2>1 DEF OrchestratorTypes
<1>9. Unseen'
  BY <1>1, <1>2, <1>4 DEF Unseen, Rewritten, SameSlots, Remain
<1>10. Once'
  <2> SUFFICES ASSUME ~lagging'
               PROVE  /\ OnceOf(orch')
                      /\ phase' # "up" => \A t \in Pending(disk') : orch'.starts[t] = 0
                      /\ phase' # "starting"
                      /\ phase' = "stopping" =>
                          /\ Pending(orch'.tasks) = {}
                          /\ \A k \in DOMAIN orch'.writes :
                              orch'.writes[k].old \/ Pending(orch'.writes[k].file) = {}
    BY DEF Once
  <2>1. /\ phase # "starting" /\ ~orch.writes[i].old /\ OnceOf(orch)
        /\ phase = "stopping" =>
            /\ Pending(orch.tasks) = {}
            /\ \A j \in DOMAIN orch.writes :
                orch.writes[j].old \/ Pending(orch.writes[j].file) = {}
    BY <1>1, <1>2 DEF Once
  <2>2. OnceOf(orch')
    BY <1>4, <2>1 DEF OnceOf, Rewritten, SameSlots
  <2>3. phase' # "up" => phase = "stopping"
    BY <1>1, <1>2, <1>7, <2>1 DEF OrchestratorTypes
  <2>4. phase = "stopping" => Pending(disk') = {}
    BY <1>2, <2>1
  <2>5. phase = "stopping" =>
            /\ Pending(orch'.tasks) = {}
            /\ \A k \in DOMAIN orch'.writes :
                orch'.writes[k].old \/ Pending(orch'.writes[k].file) = {}
    BY <1>4, <2>1 DEF Rewritten, Remain
  <2> QED  BY <1>2, <2>1, <2>2, <2>3, <2>4, <2>5
<1>11. Down'
  BY <1>2, <1>7 DEF Down
<1> QED  BY <1>5, <1>8, <1>9, <1>10, <1>11 DEF OrchestratorInv

\* The file is read: its pending tasks were not started, and are in no book yet.
LEMMA LoadStepInv ==
    ASSUME OrchestratorInv, Load
    PROVE  OrchestratorInv'
<1>1. OrchestratorTypes /\ Books(orch) /\ Busy(orch) /\ Unseen /\ Once
  BY DEF OrchestratorInv
<1>2. /\ phase = "starting" /\ phase' = "up" /\ disk' = disk /\ fresh' = fresh
      /\ restarts' = restarts /\ lagging' = lagging
  BY DEF Load
<1>3. PICK order \in SetToSeqs(DOMAIN disk), recovered \in BOOLEAN, engaged \in BOOLEAN :
        orch' = LoadAll(orch, disk, order, recovered, engaged)
  BY Zenon DEF Load, LoadAll
<1>4. PICK o \in Object : o = orch
  BY <1>1 DEF OrchestratorTypes
<1>5. PICK saved \in Rows : saved = disk
  BY <1>1 DEF OrchestratorTypes
<1>6. PICK p : p = LoadAll(o, saved, order, recovered, engaged)
  OBVIOUS
<1>7. /\ p \in Object /\ Books(p) /\ Busy(p) /\ Within(o, p, DOMAIN saved)
      /\ Unmet(o, saved) => OnceOf(p)
  <2>1. Books(o) /\ Busy(o) /\ order \in SetToSeqs(DOMAIN saved)
    BY <1>1, <1>3, <1>4, <1>5
  <2> QED  BY <1>3, <1>6, <2>1, LoadAllIs
<1>8. orch' = p
  BY <1>3, <1>4, <1>5, <1>6
<1>9. OrchestratorTypes'
  BY <1>1, <1>2, <1>7, <1>8 DEF OrchestratorTypes
<1>10. Unseen'
  <2>1. Within(orch, orch', DOMAIN disk)
    BY <1>4, <1>5, <1>7, <1>8
  <2>2. /\ fresh \subseteq Task /\ fresh' \subseteq fresh /\ disk' = disk
        /\ DOMAIN disk \cap fresh' = {}
    BY <1>1, <1>2 DEF OrchestratorTypes, Unseen
  <2> QED  BY <1>1, <2>1, <2>2, UnseenStep
<1>11. Once'
  <2>1. ~lagging => Unmet(orch, disk)
    BY <1>1, <1>2 DEF Once, Unmet
  <2>2. ~lagging' => OnceOf(orch')
    BY <1>2, <1>4, <1>5, <1>7, <1>8, <2>1
  <2> QED  BY <1>2, <2>2 DEF Once
<1>12. Down'
  BY <1>2 DEF Down
<1> QED  BY <1>7, <1>8, <1>9, <1>10, <1>11, <1>12 DEF OrchestratorInv

\* The flush is of the object as it is, and what it holds as pending starts no more.
LEMMA StopStep ==
    ASSUME OrchestratorInv, Stop
    PROVE  OrchestratorInv'
<1>1. OrchestratorTypes /\ Books(orch) /\ Busy(orch) /\ Unseen /\ Once
  BY DEF OrchestratorInv
<1>2. /\ phase = "up" /\ phase' = "stopping" /\ fresh' = fresh /\ restarts' = restarts
      /\ \/ disk' = Snapshot(orch) /\ lagging' = lagging
         \/ lagging' = TRUE /\ disk' = disk
  BY DEF Stop, FlushTasks
<1>3. orch' = [CancelAll(orch) EXCEPT !.aborted = orch.running, !.writes = Aged(@, Len(@) + 1)]
  BY Zenon DEF Stop, CancelAll
<1>4. PICK o \in Object : o = orch
  BY <1>1 DEF OrchestratorTypes
<1>5. PICK q : q = CancelAll(o)
  OBVIOUS
<1>6. PICK p : p = [q EXCEPT !.aborted = o.running, !.writes = Aged(@, Len(@) + 1)]
  OBVIOUS
<1>7. /\ p \in Object /\ Books(p) /\ Busy(p) /\ p.starts = o.starts
      /\ DOMAIN p.tasks \subseteq DOMAIN o.tasks /\ Pending(p.tasks) = {}
      /\ Remain(o.writes, p.writes) /\ \A i \in DOMAIN p.writes : p.writes[i].old
  <2>1. Books(o)
    BY <1>1, <1>4
  <2> QED  BY <1>5, <1>6, <2>1, StopIs
<1>8. orch' = p
  BY <1>3, <1>4, <1>5, <1>6
<1>9. /\ Snapshot(orch) \in Rows /\ DOMAIN Snapshot(orch) = DOMAIN orch.tasks
      /\ Pending(Snapshot(orch)) = Pending(orch.tasks)
  <2>1. /\ Snapshot(o) \in Rows
        /\ DOMAIN Snapshot(o) = DOMAIN o.tasks /\ Pending(Snapshot(o)) = Pending(o.tasks)
    BY SaveIs
  <2> QED  BY <1>4, <2>1
<1>10. OrchestratorTypes'
  BY <1>1, <1>2, <1>7, <1>8, <1>9 DEF OrchestratorTypes
<1>11. Unseen'
  <2> SUFFICES ASSUME NEW t \in fresh'
               PROVE  /\ t \notin DOMAIN orch'.tasks /\ t \notin DOMAIN disk'
                      /\ orch'.starts[t] = 0
                      /\ \A i \in DOMAIN orch'.writes : t \notin DOMAIN orch'.writes[i].file
    BY DEF Unseen
  <2>1. /\ t \notin DOMAIN orch.tasks /\ t \notin DOMAIN disk /\ orch.starts[t] = 0
        /\ \A i \in DOMAIN orch.writes : t \notin DOMAIN orch.writes[i].file
    BY <1>1, <1>2 DEF Unseen
  <2>2. t \notin DOMAIN disk'
    BY <1>2, <1>9, <2>1
  <2>3. t \notin DOMAIN orch'.tasks /\ orch'.starts[t] = 0
    BY <1>4, <1>7, <1>8, <2>1
  <2>4. \A i \in DOMAIN orch'.writes : t \notin DOMAIN orch'.writes[i].file
    BY <1>4, <1>7, <1>8, <2>1 DEF Remain
  <2> QED  BY <2>2, <2>3, <2>4
<1>12. Once'
  <2> SUFFICES ASSUME ~lagging'
               PROVE  /\ OnceOf(orch')
                      /\ \A t \in Pending(disk') : orch'.starts[t] = 0
                      /\ Pending(orch'.tasks) = {}
                      /\ \A i \in DOMAIN orch'.writes : orch'.writes[i].old
    BY <1>2 DEF Once
  <2>1. OnceOf(orch) /\ disk' = Snapshot(orch)
    BY <1>1, <1>2 DEF Once
  <2>2. OnceOf(orch')
    BY <1>4, <1>7, <1>8, <2>1 DEF OnceOf
  <2>3. ASSUME NEW t \in Pending(disk')  PROVE orch'.starts[t] = 0
    <3>1. t \in Pending(orch.tasks) /\ t \in Task
      BY <1>4, <1>9, <2>1, RowsAre DEF Object, Pending
    <3> QED  BY <1>4, <1>7, <1>8, <2>1, <3>1 DEF OnceOf
  <2> QED  BY <1>7, <1>8, <2>2, <2>3
<1>13. Down'
  BY <1>2 DEF Down
<1> QED  BY <1>7, <1>8, <1>10, <1>11, <1>12, <1>13 DEF OrchestratorInv

\* The process ends: the file is what is left.
LEMMA GoneStep ==
    ASSUME OrchestratorInv, Exit \/ Crash
    PROVE  OrchestratorInv'
<1>1. OrchestratorTypes /\ Unseen /\ Once
  BY DEF OrchestratorInv
<1>2. /\ phase' = "down" /\ disk' = disk /\ fresh' = fresh /\ restarts' = restarts
      /\ orch' = Constructed(orch.starts)
      /\ (phase = "stopping" /\ lagging' = lagging) \/ lagging' = TRUE
  BY DEF Exit, Crash, Gone
<1>3. orch.starts \in [Task -> Nat]
  BY <1>1 DEF OrchestratorTypes, Object
<1>4. /\ orch' \in Object /\ Books(orch') /\ Busy(orch') /\ orch'.starts = orch.starts
      /\ DOMAIN orch'.tasks = {} /\ Pending(orch'.tasks) = {} /\ DOMAIN orch'.writes = {}
  <2>1. PICK starts \in [Task -> Nat] : starts = orch.starts
    BY <1>3
  <2>2. PICK o : o = Constructed(starts)
    OBVIOUS
  <2>3. /\ o \in Object /\ Books(o) /\ Busy(o) /\ o.starts = starts
        /\ DOMAIN o.tasks = {} /\ Pending(o.tasks) = {} /\ DOMAIN o.writes = {}
    BY <2>2, ConstructedIs
  <2> QED  BY <1>2, <2>1, <2>2, <2>3
<1>5. OrchestratorTypes'
  BY <1>1, <1>2, <1>4 DEF OrchestratorTypes
<1>6. Unseen'
  BY <1>1, <1>2, <1>4 DEF Unseen
<1>7. Once'
  <2>1. ASSUME ~lagging'
        PROVE  OnceOf(orch) /\ \A t \in Pending(disk) : orch.starts[t] = 0
    BY <1>1, <1>2, <2>1 DEF Once
  <2>2. ~lagging' => OnceOf(orch')
    BY <1>4, <2>1 DEF OnceOf
  <2> QED  BY <1>2, <1>4, <2>1, <2>2 DEF Once
<1>8. Down'
  BY <1>2, <1>4 DEF Down
<1> QED  BY <1>4, <1>5, <1>6, <1>7, <1>8 DEF OrchestratorInv

\* The next process has an empty object.
LEMMA RestartStep ==
    ASSUME OrchestratorInv, Restart
    PROVE  OrchestratorInv'
<1>1. /\ OrchestratorTypes /\ Books(orch) /\ Busy(orch) /\ Unseen /\ Once /\ Down
  BY DEF OrchestratorInv
<1>2. /\ phase = "down" /\ phase' = "starting" /\ restarts' = restarts + 1
      /\ orch' = orch /\ disk' = disk /\ fresh' = fresh /\ lagging' = lagging
  BY DEF Restart
<1>3. DOMAIN orch.tasks = {}
  <2>1. PICK starts \in [Task -> Nat] : starts = orch.starts
    BY <1>1 DEF OrchestratorTypes, Object
  <2>2. orch = Constructed(starts)
    BY <1>1, <1>2, <2>1 DEF Down
  <2> QED  BY <2>2, ConstructedIs
<1>4. OrchestratorTypes'
  BY <1>1, <1>2 DEF OrchestratorTypes
<1>5. Unseen'
  BY <1>1, <1>2 DEF Unseen
<1>6. Once'
  BY <1>1, <1>2, <1>3 DEF Once
<1>7. Down'
  BY <1>2 DEF Down
<1> QED  BY <1>1, <1>2, <1>4, <1>5, <1>6, <1>7 DEF OrchestratorInv

\* Every step but those of the loops and the writes changes the object alone.
LEMMA ObjectStep ==
    ASSUME OrchestratorInv, NEW t \in Task, Cancel(t) \/ AbortRunning(t) \/ Finish(t)
    PROVE  OrchestratorInv'
<1>1. OrchestratorTypes /\ Books(orch) /\ Busy(orch)
  BY DEF OrchestratorInv
<1>2. PICK o \in Object : o = orch
  BY <1>1 DEF OrchestratorTypes
<1>3. phase # "down" /\ UNCHANGED <<phase, disk, fresh, restarts, lagging>>
  BY DEF Cancel, AbortRunning, Finish
<1>4. orch' \in Object /\ Books(orch') /\ Busy(orch') /\ Follows(orch, orch')
  <2>1. CASE Cancel(t)
    <3>1. t \in Pending(o.tasks) /\ orch' = CancelPending(o, t)
      BY <1>2, <2>1 DEF Cancel
    <3>2. Cancelled(o, t, orch')
      BY <1>1, <1>2, <3>1, CancelPendingIs
    <3> QED  BY <1>1, <1>2, <3>2 DEF Cancelled
  <2>2. CASE AbortRunning(t)
    <3>1. t \in o.running /\ Books(o)
      BY <1>1, <1>2, <2>2 DEF AbortRunning
    <3>2. PICK p : p = [o EXCEPT !.aborted = @ \cup {t}]
      OBVIOUS
    <3>3. p \in Object /\ Books(p) /\ (Busy(o) => Busy(p)) /\ Follows(o, p)
      BY <3>1, <3>2, AbortRunningIs
    <3>4. orch' = p
      BY <1>2, <2>2, <3>2 DEF AbortRunning
    <3> QED  BY <1>1, <1>2, <3>3, <3>4
  <2>3. CASE Finish(t)
    <3>1. PICK engaged \in BOOLEAN :
            orch' = Then(Then(Completed(t), LAMBDA ended : Drain(ended, engaged)), PruneHistory)
      BY <2>3, Zenon DEF Finish
    <3>2. t \in orch.running
      BY <2>3 DEF Finish
    <3> QED  BY <1>1, <3>1, <3>2, FinishIs DEF OrchestratorTypes
  <2> QED  BY <2>1, <2>2, <2>3
<1> QED  BY <1>3, <1>4, FollowsStep

\* Every step keeps the inductive invariant.
LEMMA OrchestratorStep ==
    ASSUME OrchestratorInv, [Next]_vars
    PROVE  OrchestratorInv'
<1>1. ASSUME NEW t \in Task, Enqueue(t)  PROVE OrchestratorInv'
  BY <1>1, EnqueueStep
<1>2. ASSUME NEW t \in Task, EnqueueRefused(t)  PROVE OrchestratorInv'
  <2>1. phase # "down" /\ fresh' = fresh \ {t} /\ UNCHANGED <<orch, phase, disk, restarts, lagging>>
    BY <1>2 DEF EnqueueRefused
  <2>2. fresh' \subseteq fresh
    BY <2>1
  <2> QED  BY <2>1, <2>2 DEF OrchestratorInv, OrchestratorTypes, Unseen, Once, Down
<1>3. ASSUME NEW t \in Task, Cancel(t) \/ AbortRunning(t) \/ Finish(t)  PROVE OrchestratorInv'
  BY <1>3, ObjectStep
<1>4. ASSUME NEW i \in DOMAIN orch.writes, WriteLands(i)  PROVE OrchestratorInv'
  BY <1>4, WriteStep
<1>5. CASE Load
  BY <1>5, LoadStepInv
<1>6. CASE Stop
  BY <1>6, StopStep
<1>7. CASE Exit \/ Crash
  BY <1>7, GoneStep
<1>8. CASE Restart
  BY <1>8, RestartStep
<1>9. CASE UNCHANGED vars
  BY <1>9 DEF OrchestratorInv, OrchestratorTypes, Unseen, Once, Down, vars
<1> QED  BY <1>1, <1>2, <1>3, <1>4, <1>5, <1>6, <1>7, <1>8, <1>9 DEF Next

\* The inductive invariant of claudeOrchestrator.ts: books, no idle slot and nothing
\* started twice, for any number of tasks, slots, estimates, limits and restarts.
THEOREM OrchestratorInvariant == Spec => []OrchestratorInv
<1>1. Init => OrchestratorInv
  BY OrchestratorInit
<1>2. OrchestratorInv /\ [Next]_vars => OrchestratorInv'
  BY OrchestratorStep
<1> QED  BY <1>1, <1>2, PTL DEF Spec

\* The fields of the object, and the rows of every tasks file, have their types.
THEOREM OrchestratorTyped == Spec => []TypeOK
<1>1. OrchestratorInv => TypeOK
  <2> SUFFICES ASSUME OrchestratorInv  PROVE TypeOK
    OBVIOUS
  <2>1. OrchestratorTypes
    BY DEF OrchestratorInv
  <2>2. \A rows \in Rows : IsRows(rows)
    BY RowsAre DEF IsRows, Row
  <2>3. IsRows(orch.tasks) /\ IsRows(disk)
    BY <2>1, <2>2 DEF OrchestratorTypes, Object
  <2>4. ASSUME NEW i \in DOMAIN orch.writes
        PROVE  IsRows(orch.writes[i].file) /\ orch.writes[i].old \in BOOLEAN
    <3>1. orch.writes \in Seq(Write)
      BY <2>1 DEF OrchestratorTypes, Object
    <3>2. i \in 1..Len(orch.writes)
      BY <3>1, LenProperties
    <3>3. orch.writes[i] \in Write
      BY <3>1, <3>2, ElementOfSeq
    <3> QED  BY <2>2, <3>3 DEF Write
  <2>5. /\ orch.queue \in Seq(Task) /\ orch.activeTokens \in Nat
        /\ orch.callbacks \cup orch.aborted \cup orch.running \subseteq Task
        /\ orch.starts \in [Task -> Nat]
    BY <2>1 DEF OrchestratorTypes, Object
  <2> QED  BY <2>1, <2>3, <2>4, <2>5 DEF TypeOK, OrchestratorTypes
<1> QED  BY <1>1, OrchestratorInvariant, PTL

\* Queue, running set and token count say the same as the status of the tasks, and
\* keep to MAX_CONCURRENT, MAX_QUEUE and the token budget, whatever is submitted,
\* cancelled, refused, ended, restored and saved in whatever order.
THEOREM TheBooksAgree == Spec => []BooksAgree
<1>1. OrchestratorInv => BooksAgree
  <2> SUFFICES ASSUME OrchestratorInv  PROVE BooksAgree
    OBVIOUS
  <2>1. Books(orch)
    BY DEF OrchestratorInv
  <2>2. Cardinality(ToSet(orch.queue)) = Len(orch.queue)
    <3>1. PICK q \in Queues : q = orch.queue
      BY <2>1 DEF Books
    <3> QED  BY <3>1, QueueCount
  <2> QED  BY <2>1, <2>2 DEF Books, BooksAgree, Running
<1> QED  BY <1>1, OrchestratorInvariant, PTL

\* _drain never stops too early: whatever goes round the queue, a task waits only while
\* all slots are taken or while it does not fit beside what runs.
THEOREM NoSlotIsIdle == Spec => []NoIdleSlot
<1>1. OrchestratorInv => NoIdleSlot
  BY DEF OrchestratorInv, Busy, NoFit, NoIdleSlot
<1> QED  BY <1>1, OrchestratorInvariant, PTL

\* The callback runAndWait registered belongs to a task that is waiting or running: no
\* refusal, cancellation or full queue leaves one behind.
THEOREM WhoWaitsIsAnswered == Spec => []WaitingIsLive
<1>1. OrchestratorInv => WaitingIsLive
  BY DEF OrchestratorInv, Books, Pending, Running, WaitingIsLive
<1> QED  BY <1>1, OrchestratorInvariant, PTL

\* Orderly shutdowns and restarts start no task twice, through unordered saves and any
\* number of processes, as long as the tasks file is not lagging.
THEOREM NothingRunsTwice == Spec => []StartedOnce
<1>1. OrchestratorInv => StartedOnce
  BY DEF OrchestratorInv, Once, OnceOf, StartedOnce
<1> QED  BY <1>1, OrchestratorInvariant, PTL
=============================================================================
