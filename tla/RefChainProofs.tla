--------------------------- MODULE RefChainProofs ---------------------------
(***************************************************************************)
(* Proofs about RefChainCode: the loops of the code decide the rule of     *)
(* RefChain on every log, over every history, in every clone.              *)
(***************************************************************************)
EXTENDS RefChainCode, PrefixLemmas, FiniteSetTheorems

-----------------------------------------------------------------------------
(* Loops that select entries.                                              *)

Ascending(at) == \A i, j \in DOMAIN at : i < j => at[i] < at[j]

\* at lists the members of S in ascending order.
Lists(at, S) ==
    /\ at \in [1..Cardinality(S) -> S]
    /\ Ascending(at)
    /\ \A x \in S : \E k \in 1..Cardinality(S) : at[k] = x

\* A loop over positions visits any of them in ascending order: a set of positions can be
\* listed so.
LEMMA OrderExists ==
    ASSUME NEW n \in Nat, NEW S \in SUBSET (1..n)
    PROVE  \E m \in Nat : \E at \in [1..m -> S] :
              Ascending(at) /\ \A x \in S : \E k \in 1..m : at[k] = x
<1> DEFINE Listed(T) == \E m \in Nat : \E at \in [1..m -> T] :
                           Ascending(at) /\ \A x \in T : \E k \in 1..m : at[k] = x
           G == {b \in Nat : \A T \in SUBSET (1..b) : Listed(T)}
<1>1. 0 \in G
  <2>. SUFFICES ASSUME NEW T \in SUBSET (1..0) PROVE Listed(T)
    OBVIOUS
  <2>1. T = {}
    OBVIOUS
  <2>2. [k \in 1..0 |-> 0] \in [1..0 -> T] /\ Ascending([k \in 1..0 |-> 0])
    BY <2>1 DEF Ascending
  <2>. QED BY <2>1, <2>2
<1>2. ASSUME NEW c \in Nat, c \in G, NEW T \in SUBSET (1..(c + 1))
      PROVE  Listed(T)
  <2> DEFINE b == c + 1
             U == T \ {b}
  <2>2. U \in SUBSET (1..c)
    BY <1>2
  <2>3. Listed(U)
    <3>. HIDE DEF Listed, U
    <3>. QED BY <1>2, <2>2
  <2>. PICK m \in Nat : \E at \in [1..m -> U] :
          Ascending(at) /\ \A x \in U : \E k \in 1..m : at[k] = x
    BY <2>3
  <2>4. PICK at \in [1..m -> U] :
          Ascending(at) /\ \A x \in U : \E k \in 1..m : at[k] = x
    OBVIOUS
  <2>. HIDE DEF U
  <2>5. CASE b \in T
    <3> DEFINE to == [k \in 1..(m + 1) |-> IF k = m + 1 THEN b ELSE at[k]]
    <3>1. to \in [1..(m + 1) -> T]
      BY <2>4, <2>5 DEF U
    <3>2. Ascending(to)
      <4>. SUFFICES ASSUME NEW i \in 1..(m + 1), NEW j \in 1..(m + 1), i < j
                    PROVE  to[i] < to[j]
        BY DEF Ascending
      <4>1. i \in 1..m /\ to[i] = at[i] /\ at[i] \in 1..c
        <5>1. i \in 1..m
          OBVIOUS
        <5>2. at[i] \in U
          BY <5>1, <2>4
        <5>3. to[i] = at[i]
          BY <5>1
        <5>4. at[i] \in 1..c
          BY <2>2, <5>2
        <5>. QED BY <5>1, <5>3, <5>4
      <4>2. CASE j = m + 1
        BY <4>1, <4>2
      <4>3. CASE j # m + 1
        BY <4>1, <4>3, <2>4 DEF Ascending
      <4>. QED BY <4>2, <4>3
    <3>3. ASSUME NEW x \in T
          PROVE  \E k \in 1..(m + 1) : to[k] = x
      <4>1. CASE x = b
        BY <4>1, m + 1 \in 1..(m + 1), to[m + 1] = b
      <4>2. CASE x # b
        <5>1. PICK k \in 1..m : at[k] = x
          BY <2>4, <4>2 DEF U
        <5>2. k \in 1..(m + 1) /\ to[k] = x
          BY <5>1
        <5>. QED BY <5>2
      <4>. QED BY <4>1, <4>2
    <3>. HIDE DEF to
    <3>4. m + 1 \in Nat
      OBVIOUS
    <3>. QED BY <3>1, <3>2, <3>3, <3>4
  <2>6. CASE b \notin T
    <3>1. U = T
      BY <2>6 DEF U
    <3>. QED BY <2>3, <3>1
  <2>. QED BY <2>5, <2>6
<1>3. \A c \in Nat : c \in G => c + 1 \in G
  <2>. HIDE DEF Listed
  <2>. QED BY <1>2
<1>4. n \in G
  <2>. HIDE DEF G
  <2>. QED BY <1>1, <1>3, SetInduction
<1>. QED BY <1>4

\* What InOrder lists.
LEMMA InOrderLists ==
    ASSUME NEW n \in Nat, NEW S \in SUBSET (1..n)
    PROVE  IsFiniteSet(S) /\ Cardinality(S) \in Nat /\ Lists(InOrder(S), S)
<1>. PICK m \in Nat : \E at \in [1..m -> S] :
        Ascending(at) /\ \A x \in S : \E k \in 1..m : at[k] = x
  BY OrderExists
<1>1. PICK at \in [1..m -> S] :
        Ascending(at) /\ \A x \in S : \E k \in 1..m : at[k] = x
  OBVIOUS
<1>2. at \in Bijection(1..m, S)
  <2>1. \A i, j \in 1..m : i # j => at[i] # at[j]
    <3>. SUFFICES ASSUME NEW i \in 1..m, NEW j \in 1..m, i # j
                  PROVE  at[i] # at[j]
      OBVIOUS
    <3>1. at[i] \in 1..n /\ at[j] \in 1..n /\ DOMAIN at = 1..m
      OBVIOUS
    <3>. QED BY <1>1, <3>1 DEF Ascending
  <2>. QED BY <1>1, <2>1 DEF Bijection, Injection, Surjection, IsInjective
<1>3. IsFiniteSet(S) /\ Cardinality(S) = m
  BY <1>2, FS_Interval, FS_Bijection DEF ExistsBijection
<1>4. at \in SetToSeqs(S)
  BY <1>2, <1>3 DEF SetToSeqs, Bijection, Injection, IsInjective
<1> DEFINE to == InOrder(S)
<1>5. to \in SetToSeqs(S) /\ Ascending(to)
  BY <1>1, <1>4 DEF InOrder, Ascending
<1>. HIDE DEF to
<1>6. to \in Injection(1..m, S)
  BY <1>3, <1>5 DEF SetToSeqs, Injection, IsInjective
<1>7. to \in Surjection(1..m, S)
  <2>1. IsFiniteSet(1..m) /\ Cardinality(1..m) = m
    BY FS_Interval
  <2>. QED BY <1>3, <1>6, <2>1, FS_Injection
<1>8. Lists(to, S)
  BY <1>3, <1>5, <1>7 DEF Lists, Surjection
<1>. QED BY <1>3, <1>8 DEF to

\* Where a list starts and ends, and that it leaves nothing out.
LEMMA ListNeighbours ==
    ASSUME NEW n \in Nat, NEW S \in SUBSET (1..n), NEW at, Lists(at, S)
    PROVE  /\ \A k \in 1..Cardinality(S), x \in S :
                 /\ k = 1 => at[k] <= x
                 /\ k = Cardinality(S) => x <= at[k]
           /\ \A k \in 2..Cardinality(S), x \in S : x <= at[k - 1] \/ at[k] <= x
           /\ \A i, j \in 1..Cardinality(S) : at[i] < at[j] <=> i < j
<1> DEFINE m == Cardinality(S)
<1>1. m \in Nat
  BY InOrderLists
<1>2. \A k \in 1..m : at[k] \in S /\ at[k] \in 1..n
  BY DEF Lists
<1>3. \A i, j \in 1..m : i < j => at[i] < at[j]
  BY DEF Lists, Ascending
<1>4. \A x \in S : \E k \in 1..m : at[k] = x
  BY DEF Lists
<1>. HIDE DEF m
<1>5. \A i, j \in 1..m : at[i] < at[j] <=> i < j
  <2>. SUFFICES ASSUME NEW i \in 1..m, NEW j \in 1..m PROVE at[i] < at[j] <=> i < j
    OBVIOUS
  <2>1. at[i] \in 1..n /\ at[j] \in 1..n
    BY <1>2
  <2>2. i < j \/ i = j \/ j < i
    BY <1>1
  <2>. QED BY <1>3, <2>1, <2>2
<1>6. ASSUME NEW k \in 1..m, NEW x \in S
      PROVE  (k = 1 => at[k] <= x) /\ (k = m => x <= at[k])
  <2>1. PICK l \in 1..m : at[l] = x
    BY <1>4
  <2>2. at[l] \in 1..n /\ at[k] \in 1..n
    BY <1>2
  <2>3. ~ (at[l] < at[k] /\ k = 1) /\ ~ (at[k] < at[l] /\ k = m)
    BY <1>1, <1>5
  <2>. QED BY <2>1, <2>2, <2>3
<1>7. ASSUME NEW k \in 2..m, NEW x \in S
      PROVE  x <= at[k - 1] \/ at[k] <= x
  <2>1. PICK l \in 1..m : at[l] = x
    BY <1>4
  <2>2. k \in 1..m /\ k - 1 \in 1..m
    BY <1>1
  <2>3. at[l] \in 1..n /\ at[k] \in 1..n /\ at[k - 1] \in 1..n
    BY <1>2, <2>2
  <2>4. ~ (at[k - 1] < at[l] /\ at[l] < at[k])
    BY <1>1, <1>5, <2>2
  <2>. QED BY <2>1, <2>3, <2>4
<1>. QED BY <1>5, <1>6, <1>7 DEF m

\* What a loop that selects entries ends with.
LEMMA SelectedIs ==
    ASSUME NEW T, NEW s \in Seq(T), NEW S \in SUBSET (1..Len(s))
    PROVE  /\ Selected(s, S) \in Seq(T)
           /\ Len(Selected(s, S)) = Cardinality(S)
           /\ Cardinality(S) \in Nat
           /\ Lists(InOrder(S), S)
           /\ \A k \in 1..Cardinality(S) :
                 InOrder(S)[k] \in S /\ Selected(s, S)[k] = s[InOrder(S)[k]]
<1> DEFINE at == InOrder(S)
           m  == Cardinality(S)
<1>1. m \in Nat /\ Lists(at, S)
  <2>1. Len(s) \in Nat
    OBVIOUS
  <2>. QED BY <2>1, InOrderLists
<1>2. \A k \in 1..m : at[k] \in S /\ s[at[k]] \in T
  <2>1. \A k \in 1..m : at[k] \in S
    BY <1>1 DEF Lists
  <2>2. \A i \in S : s[i] \in T
    OBVIOUS
  <2>. QED BY <2>1, <2>2
<1>. HIDE DEF at, m
<1>3. Selected(s, S) = [k \in 1..m |-> s[at[k]]]
  BY DEF Selected, at, m
<1>. QED BY <1>1, <1>2, <1>3 DEF at, m

-----------------------------------------------------------------------------
(* RefRecords and dropRepeats.                                             *)

\* The entries of a ref in log order: neighbours in the list are consecutive in
\* the log, and the last one is the latest (Log.RefRecords).
LEMMA RecordsInOrder ==
    ASSUME log \in Log, NEW ref \in Refs
    PROVE  LET E == refRecords(ref) IN
           /\ E \in Seq(RefRecord)
           /\ \A k \in 2..Len(E) : \E i, j \in 1..Len(log) :
                 Consecutive(log, ref, i, j) /\ E[k - 1] = log[i] /\ E[k] = log[j]
           /\ \A i, j \in 1..Len(log) : Consecutive(log, ref, i, j) =>
                 \E k \in 2..Len(E) : E[k - 1] = log[i] /\ E[k] = log[j]
           /\ \A i \in RefRecords(log, ref) : \E k \in 1..Len(E) : E[k] = log[i]
           /\ E # <<>> => \E i \in 1..Len(log) : IsLatest(log, ref, i) /\ E[Len(E)] = log[i]
           /\ \A i \in 1..Len(log) : IsLatest(log, ref, i) => E # <<>>
<1> DEFINE E == refRecords(ref)
           S == RefRecords(log, ref)
           at == InOrder(S)
           m == Cardinality(S)
<1>1. S \in SUBSET (1..Len(log)) /\ log \in Seq(Entry) /\ Len(log) \in Nat
  BY DEF RefRecords, Log
<1>2. E = Selected(log, S)
  BY DEF refRecords, RefRecords
<1>. HIDE DEF S, E
<1>3. /\ E \in Seq(Entry)
      /\ Len(E) = m
      /\ m \in Nat
      /\ Lists(at, S)
      /\ \A k \in 1..m : at[k] \in S /\ E[k] = log[at[k]]
  BY <1>1, <1>2, SelectedIs
<1>4. /\ \A k \in 1..m, x \in S :
            /\ k = 1 => at[k] <= x
            /\ k = m => x <= at[k]
      /\ \A k \in 2..m, x \in S : x <= at[k - 1] \/ at[k] <= x
      /\ \A i, j \in 1..m : at[i] < at[j] <=> i < j
  BY <1>1, <1>3, ListNeighbours
<1>5. \A x \in S : \E k \in 1..m : at[k] = x
  BY <1>3 DEF Lists
<1>. HIDE DEF at, m
<1>6. E \in Seq(RefRecord)
  <2>1. \A k \in 1..Len(E) : E[k] \in RefRecord
    BY <1>3 DEF S, RefRecords
  <2>. QED BY <1>3, <2>1
<1>7. ASSUME NEW k \in 2..Len(E)
      PROVE  \E i, j \in 1..Len(log) :
                Consecutive(log, ref, i, j) /\ E[k - 1] = log[i] /\ E[k] = log[j]
  <2>1. k \in 1..m /\ k - 1 \in 1..m /\ k \in 2..m /\ k - 1 < k
    BY <1>3
  <2>2. /\ at[k] \in S /\ at[k - 1] \in S
        /\ E[k] = log[at[k]] /\ E[k - 1] = log[at[k - 1]]
    BY <1>3, <2>1
  <2>3. Consecutive(log, ref, at[k - 1], at[k])
    BY <1>4, <2>1, <2>2 DEF Consecutive, S
  <2>. QED BY <1>1, <2>2, <2>3
<1>8. ASSUME NEW i \in 1..Len(log), NEW j \in 1..Len(log), Consecutive(log, ref, i, j)
      PROVE  \E k \in 2..Len(E) : E[k - 1] = log[i] /\ E[k] = log[j]
  <2>1. i \in S /\ j \in S /\ i < j /\ \A x \in S : x <= i \/ j <= x
    BY <1>8 DEF Consecutive, S
  <2>2. PICK k \in 1..m : at[k] = j
    BY <1>5, <2>1
  <2>3. PICK l \in 1..m : at[l] = i
    BY <1>5, <2>1
  <2>4. l < k
    BY <1>4, <2>1, <2>2, <2>3
  <2>5. k \in 2..m /\ k - 1 \in 1..m /\ l <= k - 1
    BY <1>3, <2>4
  <2>6. at[k - 1] \in S /\ at[k - 1] < j
    BY <1>3, <1>4, <2>2, <2>5
  <2>7. at[k - 1] \in 1..Len(log) /\ i \in 1..Len(log) /\ at[k - 1] <= i
    <3>1. at[k - 1] \in 1..Len(log)
      BY <1>1, <2>6
    <3>2. at[k - 1] <= i \/ j <= at[k - 1]
      BY <2>1, <2>6
    <3>. QED BY <1>1, <3>1, <3>2, <2>6
  <2>8. l = k - 1
    <3>1. ~ (l < k - 1)
      <4>1. ~ (at[l] < at[k - 1])
        BY <1>1, <2>3, <2>7
      <4>. QED BY <1>4, <2>5, <4>1
    <3>. QED BY <1>3, <2>5, <3>1
  <2>. QED BY <1>3, <2>2, <2>3, <2>5, <2>8
<1>9. ASSUME NEW i \in S
      PROVE  \E k \in 1..Len(E) : E[k] = log[i]
  BY <1>3, <1>5
<1>10. ASSUME E # <<>>
       PROVE  \E i \in 1..Len(log) : IsLatest(log, ref, i) /\ E[Len(E)] = log[i]
  <2>1. m \in 1..m
    BY <1>3, <1>10
  <2>2. at[m] \in S /\ E[m] = log[at[m]] /\ \A x \in S : x <= at[m]
    BY <1>3, <1>4, <2>1
  <2>. QED BY <1>1, <1>3, <2>2 DEF IsLatest, S
<1>11. ASSUME NEW i \in 1..Len(log), IsLatest(log, ref, i)
       PROVE  E # <<>>
  <2>1. PICK k \in 1..m : at[k] = i
    BY <1>5, <1>11 DEF IsLatest, S
  <2>. QED BY <1>3, <2>1
<1>. QED BY <1>6, <1>7, <1>8, <1>9, <1>10, <1>11 DEF E, S

\* Repeats are collapsed and nothing else: neighbours that are left are neighbours
\* that differ, and the other way round (dropRepeats).
LEMMA RepeatsDropped ==
    ASSUME NEW E \in Seq(RefRecord)
    PROVE  LET D == dropRepeats(E) IN
           /\ D \in Seq(RefRecord)
           /\ \A k \in 2..Len(D) : \E i \in 2..Len(E) :
                 /\ E[i - 1].object # E[i].object
                 /\ D[k - 1].object = E[i - 1].object
                 /\ D[k].object = E[i].object
           /\ \A i \in 2..Len(E) : E[i - 1].object # E[i].object =>
                 \E k \in 2..Len(D) :
                    /\ D[k - 1].object = E[i - 1].object
                    /\ D[k].object = E[i].object
<1> DEFINE D == dropRepeats(E)
           n == Len(E)
           S == {i \in 1..Len(E) : i = 1 \/ E[i - 1].object # E[i].object}
           at == InOrder(S)
           m == Cardinality(S)
<1>1. S \in SUBSET (1..n) /\ n \in Nat /\ (n # 0 => 1 \in S)
  OBVIOUS
<1>2. D = Selected(E, S)
  BY DEF dropRepeats
<1>S. \A i \in 2..n : i \in S <=> E[i - 1].object # E[i].object
  OBVIOUS
<1>. HIDE DEF S, D
<1>3. /\ D \in Seq(RefRecord)
      /\ Len(D) = m
      /\ m \in Nat
      /\ Lists(at, S)
      /\ \A k \in 1..m : at[k] \in S /\ D[k] = E[at[k]]
  BY <1>1, <1>2, SelectedIs
<1>4. /\ \A k \in 1..m, x \in S : k = 1 => at[k] <= x
      /\ \A k \in 2..m, x \in S : x <= at[k - 1] \/ at[k] <= x
      /\ \A i, j \in 1..m : at[i] < at[j] <=> i < j
  BY <1>1, <1>3, ListNeighbours
<1>5. \A x \in S : \E k \in 1..m : at[k] = x
  BY <1>3 DEF Lists
<1>. HIDE DEF at, m, n
<1>6. ASSUME NEW k \in 2..m
      PROVE  /\ at[k] \in 2..n /\ at[k] \in S
             /\ D[k - 1].object = E[at[k] - 1].object
             /\ D[k].object = E[at[k]].object
  <2>1. k \in 1..m /\ k - 1 \in 1..m /\ k - 1 < k
    BY <1>3
  <2>2. /\ at[k] \in S /\ at[k - 1] \in S
        /\ D[k] = E[at[k]] /\ D[k - 1] = E[at[k - 1]]
    BY <1>3, <2>1
  <2>3. at[k] \in 1..n /\ at[k - 1] \in 1..n /\ at[k - 1] < at[k]
    BY <1>1, <1>4, <2>1, <2>2
  <2> DEFINE a == at[k - 1]
             b == at[k]
             G == {d \in Nat : a + d < b => E[a + d].object = E[a].object}
  <2>4. 0 \in G
    BY <2>3
  <2>5. ASSUME NEW d \in Nat, d \in G, a + (d + 1) < b
        PROVE  E[a + (d + 1)].object = E[a].object
    <3>1. a + (d + 1) \in 2..n /\ (a + (d + 1)) - 1 = a + d
      BY <1>1, <2>3, <2>5
    <3>2. a + (d + 1) \notin S
      <4>1. ~ (a + (d + 1) <= a) /\ ~ (b <= a + (d + 1))
        BY <2>3, <2>5
      <4>. QED BY <1>4, <4>1
    <3>3. E[a + d].object = E[a + (d + 1)].object
      BY <1>S, <3>1, <3>2
    <3>4. a + d < b
      BY <2>3, <2>5
    <3>. QED BY <2>5, <3>3, <3>4
  <2>6. b - 1 - a \in G
    <3>1. b - 1 - a \in Nat
      BY <2>3
    <3>2. \A d \in Nat : d \in G => d + 1 \in G
      BY <2>5
    <3>. HIDE DEF G, a, b
    <3>. QED BY <2>4, <3>1, <3>2, SetInduction
  <2>7. E[b - 1].object = E[a].object
    <3>1. a + (b - 1 - a) = b - 1 /\ b - 1 < b
      BY <2>3
    <3>. QED BY <2>6, <3>1
  <2>. QED BY <1>1, <2>2, <2>3, <2>7
<1>7. ASSUME NEW k \in 2..Len(D)
      PROVE  \E i \in 2..n :
                /\ E[i - 1].object # E[i].object
                /\ D[k - 1].object = E[i - 1].object
                /\ D[k].object = E[i].object
  BY <1>S, <1>3, <1>6
<1>8. ASSUME NEW i \in 2..n, E[i - 1].object # E[i].object
      PROVE  \E k \in 2..Len(D) :
                /\ D[k - 1].object = E[i - 1].object
                /\ D[k].object = E[i].object
  <2>1. PICK k \in 1..m : at[k] = i
    BY <1>S, <1>5, <1>8
  <2>2. k # 1
    <3>1. ~ (i <= 1) /\ 1 \in S
      BY <1>1
    <3>. QED BY <1>4, <2>1, <3>1
  <2>3. k \in 2..m
    BY <1>3, <2>2
  <2>. QED BY <1>3, <1>6, <2>1, <2>3
<1>. QED BY <1>3, <1>7, <1>8 DEF D, n

-----------------------------------------------------------------------------
(* git merge-base --is-ancestor in a clone.                                *)

\* A walk visits commits the clone has, the one it starts from among them.
LEMMA WalkStarts ==
    ASSUME NEW P \in SUBSET Objects, NEW d \in P
    PROVE  /\ d \in Visited[P][d]
           /\ Visited[P][d] \subseteq P
           /\ \A x \in P :
                 x \in Visited[P][d] <=>
                    \A C \in SUBSET P : d \in C /\ HasParents(P, C) => x \in C
<1>1. Visited[P][d] = {x \in P : \A C \in SUBSET P : d \in C /\ HasParents(P, C) => x \in C}
  BY DEF Visited
<1>. QED BY <1>1

\* What a walk visits are ancestors, whatever the clone lacks.
LEMMA VisitedAreAncestors ==
    ASSUME NEW P \in SUBSET Objects, NEW d \in P, NEW x \in Visited[P][d]
    PROVE  IsAncestor(x, d)
<1> DEFINE C == {y \in P : IsAncestor(y, d)}
<1>1. d \in C
  BY AncestryAssumption DEF IsAncestor
<1>2. HasParents(P, C)
  <2>. SUFFICES ASSUME NEW y \in C, NEW z \in P, IsParent(z, y)
                PROVE  z \in C
    BY DEF HasParents
  <2>1. IsAncestor(z, y) /\ IsAncestor(y, d)
    BY DEF IsParent
  <2>. QED BY <2>1, AncestryAssumption DEF IsAncestor
<1>3. x \in P /\ C \in SUBSET P
  BY WalkStarts
<1>. HIDE DEF C
<1>4. x \in C
  BY <1>1, <1>2, <1>3, WalkStarts
<1>. QED BY <1>4 DEF C

\* A walk from a visited commit visits nothing new.
LEMMA VisitedTransitive ==
    ASSUME NEW P \in SUBSET Objects, NEW d \in P, NEW y \in Visited[P][d],
           NEW x \in Visited[P][y]
    PROVE  x \in Visited[P][d]
<1>1. y \in P
  BY WalkStarts
<1>2. x \in P
  BY <1>1, WalkStarts
<1>3. ASSUME NEW C \in SUBSET P, d \in C, HasParents(P, C)
      PROVE  x \in C
  <2>1. y \in C
    BY <1>1, <1>3, WalkStarts
  <2>. QED BY <1>1, <1>2, <1>3, <2>1, WalkStarts
<1>. QED BY <1>2, <1>3, WalkStarts

\* A non-empty set of objects has one with no proper ancestor in the set.
LEMMA Oldest ==
    ASSUME NEW T \in SUBSET Objects, T # {}
    PROVE  \E x \in T : \A y \in T : IsAncestor(y, x) => y = x
<1> DEFINE Below(x) == {y \in T : IsAncestor(y, x)}
           N == {Cardinality(Below(x)) : x \in T}
<1>1. \A x \in T : IsFiniteSet(Below(x)) /\ Cardinality(Below(x)) \in Nat
  <2>. SUFFICES ASSUME NEW x \in T
                PROVE  IsFiniteSet(Below(x)) /\ Cardinality(Below(x)) \in Nat
    OBVIOUS
  <2>1. Below(x) \in SUBSET Objects
    OBVIOUS
  <2>. HIDE DEF Below
  <2>. QED BY <2>1, HistoryAssumption, FS_Subset, FS_CardinalityType
<1>2. PICK c \in N : \A e \in N : c <= e
  <2>1. N \subseteq Nat /\ N # {}
    BY <1>1
  <2>. HIDE DEF N
  <2>. QED BY <2>1, LeastNatural
<1>3. PICK x \in T : c = Cardinality(Below(x))
  BY <1>2
<1>4. ASSUME NEW y \in T, IsAncestor(y, x), y # x
      PROVE  FALSE
  <2>1. Below(y) \in SUBSET Below(x)
    BY <1>4, AncestryAssumption DEF IsAncestor
  <2>2. x \in Below(x) /\ x \notin Below(y)
    BY <1>4, AncestryAssumption, HistoryAssumption DEF IsAncestor
  <2>3. Cardinality(Below(y)) <= Cardinality(Below(x))
        /\ Cardinality(Below(y)) # Cardinality(Below(x))
    <3>. HIDE DEF Below
    <3>. QED BY <1>1, <2>1, <2>2, FS_Subset
  <2>4. c <= Cardinality(Below(y))
    <3>1. Cardinality(Below(y)) \in N
      OBVIOUS
    <3>. QED BY <1>2, <3>1
  <2>. HIDE DEF Below, N
  <2>. QED BY <1>1, <1>3, <2>3, <2>4
<1>. QED BY <1>4

\* A non-empty set of objects has one with no proper descendant in the set.
LEMMA Youngest ==
    ASSUME NEW T \in SUBSET Objects, T # {}
    PROVE  \E x \in T : \A y \in T : IsAncestor(x, y) => y = x
<1> DEFINE Above(x) == {y \in T : IsAncestor(x, y)}
           N == {Cardinality(Above(x)) : x \in T}
<1>1. \A x \in T : IsFiniteSet(Above(x)) /\ Cardinality(Above(x)) \in Nat
  <2>. SUFFICES ASSUME NEW x \in T
                PROVE  IsFiniteSet(Above(x)) /\ Cardinality(Above(x)) \in Nat
    OBVIOUS
  <2>1. Above(x) \in SUBSET Objects
    OBVIOUS
  <2>. HIDE DEF Above
  <2>. QED BY <2>1, HistoryAssumption, FS_Subset, FS_CardinalityType
<1>2. PICK c \in N : \A e \in N : c <= e
  <2>1. N \subseteq Nat /\ N # {}
    BY <1>1
  <2>. HIDE DEF N
  <2>. QED BY <2>1, LeastNatural
<1>3. PICK x \in T : c = Cardinality(Above(x))
  BY <1>2
<1>4. ASSUME NEW y \in T, IsAncestor(x, y), y # x
      PROVE  FALSE
  <2>1. Above(y) \in SUBSET Above(x)
    BY <1>4, AncestryAssumption DEF IsAncestor
  <2>2. x \in Above(x) /\ x \notin Above(y)
    BY <1>4, AncestryAssumption, HistoryAssumption DEF IsAncestor
  <2>3. Cardinality(Above(y)) <= Cardinality(Above(x))
        /\ Cardinality(Above(y)) # Cardinality(Above(x))
    <3>. HIDE DEF Above
    <3>. QED BY <1>1, <2>1, <2>2, FS_Subset
  <2>4. c <= Cardinality(Above(y))
    <3>1. Cardinality(Above(y)) \in N
      OBVIOUS
    <3>. QED BY <1>2, <3>1
  <2>. HIDE DEF Above, N
  <2>. QED BY <1>1, <1>3, <2>3, <2>4
<1>. QED BY <1>4

\* In a clone that has every object a walk visits every ancestor: ancestry is made
\* up of parent links.
LEMMA AncestorsAreVisited ==
    ASSUME NEW x \in Objects, NEW d \in Objects, IsAncestor(x, d)
    PROVE  x \in Visited[Objects][d]
<1>. SUFFICES ASSUME NEW C \in SUBSET Objects, d \in C, HasParents(Objects, C), x \notin C
              PROVE  FALSE
  BY WalkStarts
<1> DEFINE T == {y \in C : IsAncestor(x, y)}
<1>1. PICK y \in T : \A z \in T : IsAncestor(z, y) => z = y
  <2>1. T \in SUBSET Objects /\ d \in T
    OBVIOUS
  <2>. HIDE DEF T
  <2>. QED BY <2>1, Oldest
<1>2. y # x /\ IsAncestor(x, y) /\ y \in Objects
  BY <1>1
<1> DEFINE U == {z \in Objects : IsAncestor(x, z) /\ IsAncestor(z, y) /\ z # y}
<1>3. PICK u \in U : \A z \in U : IsAncestor(u, z) => z = u
  <2>1. U \in SUBSET Objects /\ x \in U
    BY <1>2, AncestryAssumption DEF IsAncestor
  <2>. HIDE DEF U
  <2>. QED BY <2>1, Youngest
<1>4. IsParent(u, y)
  <2>. SUFFICES ASSUME NEW z \in Objects \ {u, y}, IsAncestor(u, z), IsAncestor(z, y)
                PROVE  FALSE
    BY <1>3 DEF IsParent
  <2>1. z \in U
    BY <1>3, AncestryAssumption DEF IsAncestor
  <2>. QED BY <1>3, <2>1
<1>5. u \in C
  BY <1>1, <1>3, <1>4 DEF HasParents
<1>6. u \in T /\ IsAncestor(u, y) /\ u # y
  BY <1>3, <1>5
<1>. QED BY <1>1, <1>6

\* Comparisons in a clone: yes only for ancestors, and for all of them if nothing
\* is missing.
LEMMA CloneAncestry ==
    ASSUME present \in SUBSET Objects, NEW x \in Objects, NEW y \in Objects
    PROVE  /\ isAncestor(x, y) = "yes" <=>
                 {x, y} \subseteq present /\ x \in Visited[present][y]
           /\ isAncestor(x, y) = "yes" => IsAncestor(x, y)
           /\ present = Objects /\ IsAncestor(x, y) => isAncestor(x, y) = "yes"
<1>1. isAncestor(x, y) = "yes" <=> {x, y} \subseteq present /\ x \in Visited[present][y]
  BY DEF isAncestor
<1>2. isAncestor(x, y) = "yes" => IsAncestor(x, y)
  BY <1>1, VisitedAreAncestors
<1>3. present = Objects /\ IsAncestor(x, y) => isAncestor(x, y) = "yes"
  BY <1>1, AncestorsAreVisited
<1>. QED BY <1>1, <1>2, <1>3

-----------------------------------------------------------------------------
(* The walk.                                                               *)

\* What checkRefChain asks of two neighbouring entries in this clone.
StepHolds(ref, x, y) == x = y \/ (ref \notin Tags /\ isAncestor(x, y) = "yes")

\* Dropping repeats and walking what is left compares every two neighbours.
LEMMA WalkComparesNeighbours ==
    ASSUME log \in Log, NEW ref \in Refs
    PROVE  chainCode(ref) <=>
              \A k \in 2..Len(refRecords(ref)) :
                 StepHolds(ref, refRecords(ref)[k - 1].object, refRecords(ref)[k].object)
<1> DEFINE E == refRecords(ref)
           D == dropRepeats(E)
<1>1. E \in Seq(RefRecord)
  BY RecordsInOrder
<1>. HIDE DEF E
<1>2. /\ D \in Seq(RefRecord)
      /\ \A k \in 2..Len(D) : \E i \in 2..Len(E) :
            /\ E[i - 1].object # E[i].object
            /\ D[k - 1].object = E[i - 1].object
            /\ D[k].object = E[i].object
      /\ \A i \in 2..Len(E) : E[i - 1].object # E[i].object =>
            \E k \in 2..Len(D) :
               /\ D[k - 1].object = E[i - 1].object
               /\ D[k].object = E[i].object
  BY <1>1, RepeatsDropped
<1>3. chainCode(ref) <=> chainLoop(ref, D)
  BY DEF chainCode, E
<1>. HIDE DEF D
<1>4. CASE ref \in Tags
  <2>1. Len(D) <= 1 <=> \A k \in 2..Len(E) : E[k - 1].object = E[k].object
    <3>1. Len(D) \in Nat
      BY <1>2
    <3>2. ASSUME Len(D) <= 1, NEW k \in 2..Len(E)
          PROVE  E[k - 1].object = E[k].object
      <4>1. 2..Len(D) = {}
        BY <3>1, <3>2
      <4>. QED BY <1>2, <4>1
    <3>3. ASSUME \A k \in 2..Len(E) : E[k - 1].object = E[k].object
          PROVE  Len(D) <= 1
      <4>1. 2 \notin 2..Len(D)
        BY <1>2, <3>3
      <4>. QED BY <3>1, <4>1
    <3>. QED BY <3>2, <3>3
  <2>2. \A k \in 2..Len(E) : StepHolds(ref, E[k - 1].object, E[k].object)
                                <=> E[k - 1].object = E[k].object
    BY <1>4 DEF StepHolds
  <2>3. chainLoop(ref, D) <=> Len(D) <= 1
    BY <1>4 DEF chainLoop
  <2>. QED BY <1>3, <2>1, <2>2, <2>3 DEF E
<1>5. CASE ref \notin Tags
  <2>1. chainLoop(ref, D) <=>
           \A k \in 2..Len(D) : isAncestor(D[k - 1].object, D[k].object) = "yes"
    BY <1>5 DEF chainLoop
  <2>2. ASSUME \A k \in 2..Len(D) : isAncestor(D[k - 1].object, D[k].object) = "yes",
               NEW i \in 2..Len(E)
        PROVE  StepHolds(ref, E[i - 1].object, E[i].object)
    <3>1. CASE E[i - 1].object = E[i].object
      BY <3>1 DEF StepHolds
    <3>2. CASE E[i - 1].object # E[i].object
      <4>1. PICK k \in 2..Len(D) :
              D[k - 1].object = E[i - 1].object /\ D[k].object = E[i].object
        BY <1>2, <3>2
      <4>2. isAncestor(D[k - 1].object, D[k].object) = "yes"
        BY <2>2
      <4>. QED BY <1>5, <4>1, <4>2 DEF StepHolds
    <3>. QED BY <3>1, <3>2
  <2>3. ASSUME \A i \in 2..Len(E) : StepHolds(ref, E[i - 1].object, E[i].object),
               NEW k \in 2..Len(D)
        PROVE  isAncestor(D[k - 1].object, D[k].object) = "yes"
    <3>1. PICK i \in 2..Len(E) :
            /\ E[i - 1].object # E[i].object
            /\ D[k - 1].object = E[i - 1].object
            /\ D[k].object = E[i].object
      BY <1>2
    <3>2. StepHolds(ref, E[i - 1].object, E[i].object)
      BY <2>3
    <3>3. isAncestor(E[i - 1].object, E[i].object) = "yes"
      BY <3>1, <3>2 DEF StepHolds
    <3>. QED BY <3>1, <3>3
  <2>. QED BY <1>3, <2>1, <2>2, <2>3 DEF E
<1>. QED BY <1>4, <1>5

\* In terms of the log: the walk compares consecutive entries of the ref.
LEMMA WalkComparesConsecutive ==
    ASSUME log \in Log, NEW ref \in Refs
    PROVE  chainCode(ref) <=>
              \A i, j \in 1..Len(log) : Consecutive(log, ref, i, j) =>
                 StepHolds(ref, log[i].object, log[j].object)
<1> DEFINE E == refRecords(ref)
<1>1. /\ \A k \in 2..Len(E) : \E i, j \in 1..Len(log) :
            Consecutive(log, ref, i, j) /\ E[k - 1] = log[i] /\ E[k] = log[j]
      /\ \A i, j \in 1..Len(log) : Consecutive(log, ref, i, j) =>
            \E k \in 2..Len(E) : E[k - 1] = log[i] /\ E[k] = log[j]
  BY RecordsInOrder
<1>2. chainCode(ref) <=>
         \A k \in 2..Len(E) : StepHolds(ref, E[k - 1].object, E[k].object)
  BY WalkComparesNeighbours
<1>. HIDE DEF E
<1>3. ASSUME \A k \in 2..Len(E) : StepHolds(ref, E[k - 1].object, E[k].object),
             NEW i \in 1..Len(log), NEW j \in 1..Len(log), Consecutive(log, ref, i, j)
      PROVE  StepHolds(ref, log[i].object, log[j].object)
  <2>1. PICK k \in 2..Len(E) : E[k - 1] = log[i] /\ E[k] = log[j]
    BY <1>1, <1>3
  <2>2. StepHolds(ref, E[k - 1].object, E[k].object)
    BY <1>3
  <2>. QED BY <2>1, <2>2
<1>4. ASSUME \A i, j \in 1..Len(log) : Consecutive(log, ref, i, j) =>
                StepHolds(ref, log[i].object, log[j].object),
             NEW k \in 2..Len(E)
      PROVE  StepHolds(ref, E[k - 1].object, E[k].object)
  <2>1. PICK i \in 1..Len(log), j \in 1..Len(log) :
          Consecutive(log, ref, i, j) /\ E[k - 1] = log[i] /\ E[k] = log[j]
    BY <1>1
  <2>2. StepHolds(ref, log[i].object, log[j].object)
    BY <1>4, <2>1
  <2>. QED BY <2>1, <2>2
<1>. QED BY <1>2, <1>3, <1>4

\* The objects of entries that name a ref.
LEMMA RecordObjects ==
    ASSUME log \in Log, NEW ref, NEW i \in RefRecords(log, ref)
    PROVE  i \in 1..Len(log) /\ log[i].object \in Objects
BY DEF RefRecords, RefRecord

LEMMA NotATag ==
    ASSUME NEW ref \in Refs
    PROVE  ref \notin Tags <=> ref \in Branches
BY RefsAssumption DEF Refs

\* A walk that accepts a chain in any clone accepts what RefChain's rule accepts.
LEMMA WalkIsSound ==
    ASSUME log \in Log, present \in SUBSET Objects, NEW ref \in Refs, chainCode(ref)
    PROVE  checkRefChain(log, ref)
<1>. SUFFICES ASSUME NEW i \in 1..Len(log), NEW j \in 1..Len(log), Consecutive(log, ref, i, j)
              PROVE  \/ log[i].object = log[j].object
                     \/ ref \in Branches /\ IsAncestor(log[i].object, log[j].object)
  BY DEF checkRefChain
<1>1. StepHolds(ref, log[i].object, log[j].object)
  BY WalkComparesConsecutive
<1>2. log[i].object \in Objects /\ log[j].object \in Objects
  BY RecordObjects DEF Consecutive
<1>. QED BY <1>1, <1>2, CloneAncestry, NotATag DEF StepHolds

\* In a clone that has every object it accepts every chain the rule accepts.
LEMMA WalkIsComplete ==
    ASSUME log \in Log, present = Objects, NEW ref \in Refs, checkRefChain(log, ref)
    PROVE  chainCode(ref)
<1>. SUFFICES ASSUME NEW i \in 1..Len(log), NEW j \in 1..Len(log), Consecutive(log, ref, i, j)
              PROVE  StepHolds(ref, log[i].object, log[j].object)
  BY WalkComparesConsecutive
<1>1. \/ log[i].object = log[j].object
      \/ ref \in Branches /\ IsAncestor(log[i].object, log[j].object)
  BY DEF checkRefChain
<1>2. log[i].object \in Objects /\ log[j].object \in Objects
  BY RecordObjects DEF Consecutive
<1>. QED BY <1>1, <1>2, CloneAncestry, NotATag DEF StepHolds

\* The log and the clone, as every behaviour has them.
ChainType == log \in Log /\ present \in SUBSET Objects

LEMMA ChainTypeCorrect == Spec => []ChainType
<1>1. Init => ChainType
  BY DEF Init, ChainType, Log
<1>2. ChainType /\ [Next]_<<log, present>> => ChainType'
  BY DEF Next, ChainType, Log
<1>. QED BY <1>1, <1>2, PTL DEF Spec

\* Selecting a ref's entries, collapsing repeats and walking what is left
\* (RefRecords, dropRepeats, checkRefChain) decides the rule of RefChain on every
\* log over every history, in a clone that has every object.
THEOREM WalkIsRule == Spec => []WalkDecidesRule
<1>1. ChainType => WalkDecidesRule
  BY WalkIsSound, WalkIsComplete DEF ChainType, WalkDecidesRule
<1>. QED BY <1>1, ChainTypeCorrect, PTL

\* Whatever a clone lacks, it accepts nothing the whole history would refuse
\* (checkRefChain, verifySingleRef).
THEOREM ClonesFailClosed == Spec => []MissingObjectsFailClosed
<1>1. ASSUME ChainType, NEW ref \in Refs, NEW local \in Objects, verifyCode(ref, local)
      PROVE  verifySingleRef(log, ref, local)
  <2> DEFINE E == refRecords(ref)
  <2>1. E \in Seq(RefRecord) /\ E # <<>> /\ chainCode(ref)
        /\ IF ref \in Tags THEN local = Last(E).object
           ELSE isAncestor(local, Last(E).object) = "yes"
    BY <1>1, RecordsInOrder DEF ChainType, verifyCode
  <2>2. PICK i \in 1..Len(log) : IsLatest(log, ref, i) /\ E[Len(E)] = log[i]
    BY <1>1, <2>1, RecordsInOrder DEF ChainType
  <2>3. Last(E) = log[i]
    BY <2>2 DEF Last
  <2>. HIDE DEF E
  <2>4. log[i].object \in Objects
    BY <1>1, <2>2, RecordObjects DEF ChainType, IsLatest
  <2>5. IF ref \in Tags THEN local = log[i].object ELSE IsAncestor(local, log[i].object)
    BY <1>1, <2>1, <2>3, <2>4, CloneAncestry DEF ChainType
  <2>6. checkRefChain(log, ref)
    BY <1>1, <2>1, WalkIsSound DEF ChainType
  <2>. QED BY <2>2, <2>5, <2>6 DEF verifySingleRef
<1>2. ChainType => MissingObjectsFailClosed
  BY <1>1, WalkIsSound DEF ChainType, MissingObjectsFailClosed
<1>. QED BY <1>2, ChainTypeCorrect, PTL

\* From any entry of the ref to the last: each step of the walk keeps it contained
\* in the objects the clone has.
LEMMA LastContainsAll ==
    ASSUME ChainType, NEW ref \in Refs, NEW STATE E, E = refRecords(ref), E # <<>>,
           chainCode(ref), ref \notin Tags => Last(E).object \in present,
           NEW k \in 1..Len(E)
    PROVE  IF ref \in Tags THEN E[k].object = Last(E).object
           ELSE isAncestor(E[k].object, Last(E).object) = "yes"
<1> DEFINE n == Len(E)
           last == Last(E).object
           Holds(x) == IF ref \in Tags THEN x = last ELSE isAncestor(x, last) = "yes"
           G == {d \in Nat : d < n => Holds(E[n - d].object)}
<1>1. E \in Seq(RefRecord) /\ n \in Nat /\ n # 0 /\ last = E[n].object
  BY RecordsInOrder DEF ChainType, Last
<1>2. \A i \in 1..n : E[i].object \in Objects
  <2>1. \A i \in 1..n : E[i] \in RefRecord
    BY <1>1
  <2>. QED BY <2>1 DEF RefRecord
<1>3. \A i \in 2..n : StepHolds(ref, E[i - 1].object, E[i].object)
  BY WalkComparesNeighbours DEF ChainType
<1>4. last \in Objects /\ present \in SUBSET Objects
  BY <1>1, <1>2 DEF ChainType
<1>. HIDE DEF n, last
<1>5. 0 \in G
  <2>1. Holds(last)
    <3>1. ref \notin Tags => isAncestor(last, last) = "yes"
      BY <1>4, WalkStarts, CloneAncestry DEF last
    <3>. QED BY <3>1
  <2>. QED BY <1>1, <2>1
<1>6. ASSUME NEW d \in Nat, d \in G, d + 1 < n
      PROVE  Holds(E[n - (d + 1)].object)
  <2> DEFINE x == E[n - (d + 1)].object
             y == E[n - d].object
  <2>1. n - d \in 2..n /\ (n - d) - 1 = n - (d + 1) /\ n - (d + 1) \in 1..n /\ d < n
    BY <1>1, <1>6
  <2>2. StepHolds(ref, x, y) /\ x \in Objects /\ y \in Objects
    <3>1. StepHolds(ref, E[(n - d) - 1].object, E[n - d].object)
      BY <1>3, <2>1
    <3>2. n - d \in 1..n
      BY <1>1, <2>1
    <3>. QED BY <1>2, <2>1, <3>1, <3>2
  <2>3. Holds(y)
    BY <1>6, <2>1
  <2>. HIDE DEF x, y
  <2>4. CASE x = y
    BY <2>3, <2>4 DEF x
  <2>5. CASE x # y
    <3>1. ref \notin Tags /\ isAncestor(x, y) = "yes" /\ isAncestor(y, last) = "yes"
      BY <2>2, <2>3, <2>5 DEF StepHolds
    <3>2. /\ {x, y, last} \subseteq present
          /\ x \in Visited[present][y] /\ y \in Visited[present][last]
      BY <1>4, <2>2, <3>1, CloneAncestry
    <3>3. x \in Visited[present][last]
      BY <1>4, <3>2, VisitedTransitive
    <3>4. isAncestor(x, last) = "yes"
      BY <1>4, <2>2, <3>2, <3>3, CloneAncestry
    <3>. QED BY <3>1, <3>4 DEF x
  <2>. QED BY <2>4, <2>5
<1>7. n - k \in G
  <2>1. \A d \in Nat : d \in G => d + 1 \in G
    <3>. HIDE DEF Holds
    <3>. QED BY <1>6
  <2>2. n - k \in Nat
    BY <1>1 DEF n
  <2>. HIDE DEF G
  <2>. QED BY <1>5, <2>1, <2>2, SetInduction
<1>8. n - k < n /\ n - (n - k) = k
  BY <1>1 DEF n
<1>9. Holds(E[k].object)
  <2>. HIDE DEF Holds
  <2>. QED BY <1>7, <1>8
<1>. QED BY <1>9 DEF last

\* What verification accepts contains every state the log ever recorded for the
\* branch, and is the only object it ever recorded for the tag (verifySingleRef), on
\* every log and in every clone.
THEOREM AcceptanceCoversHistory == Spec => []AcceptedCoversHistory
<1>1. ASSUME ChainType, NEW ref \in Refs, NEW local \in Objects, verifyCode(ref, local),
             NEW i \in RefRecords(log, ref)
      PROVE  IF ref \in Tags THEN log[i].object = local ELSE verifyCode(ref, log[i].object)
  <2> DEFINE E == refRecords(ref)
  <2>1. E # <<>> /\ chainCode(ref)
        /\ IF ref \in Tags THEN local = Last(E).object
           ELSE isAncestor(local, Last(E).object) = "yes"
    BY <1>1 DEF verifyCode
  <2>2. PICK k \in 1..Len(E) : E[k] = log[i]
    BY <1>1, RecordsInOrder DEF ChainType
  <2>3. ref \notin Tags => Last(E).object \in present
    BY <2>1 DEF isAncestor
  <2>4. IF ref \in Tags THEN E[k].object = Last(E).object
        ELSE isAncestor(E[k].object, Last(E).object) = "yes"
    BY <1>1, <2>1, <2>3, LastContainsAll
  <2>. QED BY <2>1, <2>2, <2>4 DEF verifyCode
<1>2. ChainType => AcceptedCoversHistory
  BY <1>1 DEF AcceptedCoversHistory
<1>. QED BY <1>2, ChainTypeCorrect, PTL
=============================================================================
