---------------------------- MODULE MerkleProofs ----------------------------
(***************************************************************************)
(* Proofs about Merkle for logs of every length.                           *)
(*                                                                         *)
(* A tree is taken level by level: Up combines neighbours and carries an   *)
(* odd last hash along.  A tree has the root of the level above its leaves *)
(* (RootUp), and everything follows from that by induction: how a root     *)
(* splits, that it determines its leaves, which hash a node has, and what  *)
(* the two sides of a consistency proof compute at every level.            *)
(***************************************************************************)
EXTENDS Merkle, PrefixLemmas

-----------------------------------------------------------------------------
(* Recursive functions over the naturals, with values in a known set.      *)

Fits(V, b, step) == b \in V /\ step \in [Nat -> [V -> V]]

Runs(f, b, step) == f[0] = b /\ \A k \in Nat : f[k + 1] = step[k][f[k]]

\* What a recursive definition says of a function before its values are known.
Obeys(g, V, b, step) ==
    /\ g = [k \in Nat |-> g[k]]
    /\ g[0] = b
    /\ \A k \in Nat : g[k] \in V => g[k + 1] = step[k][g[k]]

\* A recursive definition has a solution.
LEMMA RecursionExists ==
    ASSUME NEW V, NEW b, NEW step, Fits(V, b, step)
    PROVE  \E f : f \in [Nat -> V] /\ Runs(f, b, step)
<1> DEFINE Upto(n, g) == g[0] = b /\ \A k \in 0..(n - 1) : g[k + 1] = step[k][g[k]]
           G == {n \in Nat : \E g \in [0..n -> V] : Upto(n, g)}
<1>0. b \in V /\ step \in [Nat -> [V -> V]]
  BY DEF Fits
<1>1. 0 \in G
  <2>1. [k \in 0..0 |-> b] \in [0..0 -> V] /\ Upto(0, [k \in 0..0 |-> b])
    BY <1>0
  <2>. QED BY <2>1
<1>2. ASSUME NEW n \in Nat, n \in G PROVE n + 1 \in G
  <2>1. PICK g \in [0..n -> V] : Upto(n, g)
    BY <1>2
  <2> DEFINE h == [k \in 0..(n + 1) |-> IF k = n + 1 THEN step[n][g[n]] ELSE g[k]]
  <2>2. h \in [0..(n + 1) -> V] /\ Upto(n + 1, h)
    BY <1>0, <2>1
  <2>. HIDE DEF h
  <2>. QED BY <2>2
<1>3. Nat \subseteq G
  <2>. HIDE DEF G
  <2>. QED BY <1>1, <1>2, SetInduction
<1> DEFINE to(n) == CHOOSE g \in [0..n -> V] : Upto(n, g)
<1>4. \A n \in Nat : to(n) \in [0..n -> V] /\ Upto(n, to(n))
  BY <1>3
<1>. HIDE DEF to, G
<1>5. ASSUME NEW n \in Nat PROVE to(n + 1)[n] = to(n)[n]
  <2> DEFINE H == {k \in Nat : k <= n => to(n + 1)[k] = to(n)[k]}
  <2>1. 0 \in H
    BY <1>4
  <2>2. ASSUME NEW k \in Nat, k \in H PROVE k + 1 \in H
    <3>. SUFFICES ASSUME k + 1 <= n PROVE to(n + 1)[k + 1] = to(n)[k + 1]
      OBVIOUS
    <3>1. k \in 0..(n - 1) /\ k \in 0..((n + 1) - 1) /\ to(n + 1)[k] = to(n)[k]
      BY <2>2
    <3>2. to(n + 1)[k + 1] = step[k][to(n + 1)[k]]
      BY <1>4, <3>1
    <3>3. to(n)[k + 1] = step[k][to(n)[k]]
      BY <1>4, <3>1
    <3>. QED BY <3>1, <3>2, <3>3
  <2>3. Nat \subseteq H
    <3>. HIDE DEF H
    <3>. QED BY <2>1, <2>2, SetInduction
  <2>. QED BY <2>3
<1> DEFINE f == [n \in Nat |-> to(n)[n]]
<1>6. f \in [Nat -> V] /\ f[0] = b
  BY <1>4
<1>7. ASSUME NEW k \in Nat PROVE f[k + 1] = step[k][f[k]]
  <2>1. Upto(k + 1, to(k + 1)) /\ k \in 0..((k + 1) - 1)
    BY <1>4
  <2>. QED BY <1>5, <2>1
<1>. HIDE DEF f
<1>. QED BY <1>6, <1>7 DEF Runs

\* Whatever obeys a recursive definition is the function it defines.
LEMMA RecursionRuns ==
    ASSUME NEW V, NEW b, NEW step, Fits(V, b, step), NEW g, Obeys(g, V, b, step)
    PROVE  g \in [Nat -> V] /\ Runs(g, b, step)
<1> DEFINE H == {k \in Nat : g[k] \in V}
<1>1. Nat \subseteq H
  <2>1. 0 \in H /\ \A k \in Nat : k \in H => k + 1 \in H
    BY DEF Fits, Obeys
  <2>. HIDE DEF H
  <2>. QED BY <2>1, SetInduction
<1>. QED BY <1>1 DEF Obeys, Runs

\* The same for functions on the first numbers only.
FitsUpto(N, V, b, step) == b \in V /\ step \in [0..(N - 1) -> [V -> V]]

RunsUpto(f, N, b, step) == f[0] = b /\ \A k \in 0..(N - 1) : f[k + 1] = step[k][f[k]]

ObeysUpto(g, N, V, b, step) ==
    /\ g = [k \in 0..N |-> g[k]]
    /\ g[0] = b
    /\ \A k \in 0..(N - 1) : g[k] \in V => g[k + 1] = step[k][g[k]]

\* Such a definition has a solution too,
LEMMA RecursionUpto ==
    ASSUME NEW N \in Nat, NEW V, NEW b, NEW step, FitsUpto(N, V, b, step)
    PROVE  \E f : f \in [0..N -> V] /\ RunsUpto(f, N, b, step)
<1> DEFINE all == [k \in Nat |-> IF k < N THEN step[k] ELSE [v \in V |-> v]]
<1>1. Fits(V, b, all)
  BY DEF Fits, FitsUpto
<1>2. PICK f : f \in [Nat -> V] /\ Runs(f, b, all)
  <2>. HIDE DEF all
  <2>. QED BY <1>1, RecursionExists
<1> DEFINE g == [k \in 0..N |-> f[k]]
<1>3. g \in [0..N -> V] /\ g[0] = b
  BY <1>2 DEF Runs
<1>4. ASSUME NEW k \in 0..(N - 1) PROVE g[k + 1] = step[k][g[k]]
  <2>1. f[k + 1] = all[k][f[k]] /\ all[k] = step[k]
    BY <1>2 DEF Runs
  <2>. QED BY <2>1
<1>. HIDE DEF g
<1>. QED BY <1>3, <1>4 DEF RunsUpto

\* and whatever obeys it is the function it defines.
LEMMA RunsAsDefined ==
    ASSUME NEW N \in Nat, NEW V, NEW b, NEW step, FitsUpto(N, V, b, step),
           NEW g, ObeysUpto(g, N, V, b, step)
    PROVE  g \in [0..N -> V] /\ RunsUpto(g, N, b, step)
<1> DEFINE H == {k \in Nat : k <= N => g[k] \in V}
<1>1. Nat \subseteq H
  <2>1. 0 \in H
    BY DEF FitsUpto, ObeysUpto
  <2>2. ASSUME NEW k \in Nat, k \in H PROVE k + 1 \in H
    <3>. SUFFICES ASSUME k + 1 <= N PROVE g[k + 1] \in V
      OBVIOUS
    <3>1. k \in 0..(N - 1) /\ g[k] \in V
      BY <2>2
    <3>2. g[k + 1] = step[k][g[k]]
      BY <3>1 DEF ObeysUpto
    <3>. QED BY <3>1, <3>2 DEF FitsUpto
  <2>. HIDE DEF H
  <2>. QED BY <2>1, <2>2, SetInduction
<1>2. \A k \in 0..N : g[k] \in V
  BY <1>1
<1>3. g \in [0..N -> V]
  BY <1>2 DEF ObeysUpto
<1>4. \A k \in 0..(N - 1) : k \in 0..N
  OBVIOUS
<1>5. RunsUpto(g, N, b, step)
  BY <1>2, <1>4 DEF ObeysUpto, RunsUpto
<1>. QED BY <1>3, <1>5

-----------------------------------------------------------------------------
(* Shifts.                                                                 *)

\* The functions that Shl and Shr apply.
ShlOf(i) == LET f[k \in Nat] == IF k = 0 THEN i ELSE 2 * f[k - 1] IN f
ShrOf(i) == LET f[k \in Nat] == IF k = 0 THEN i ELSE f[k - 1] \div 2 IN f

\* Shl doubles once for every place.
LEMMA ShlStep ==
    ASSUME NEW i \in Nat
    PROVE  /\ \A k \in Nat : Shl(i, k) \in Nat
           /\ Shl(i, 0) = i
           /\ \A k \in Nat : Shl(i, k + 1) = 2 * Shl(i, k)
<1> DEFINE step == [k \in Nat |-> [v \in Nat |-> 2 * v]]
           Def(f) == f = [k \in Nat |-> IF k = 0 THEN i ELSE 2 * f[k - 1]]
<1>1. Fits(Nat, i, step)
  BY DEF Fits
<1>2. \E f : Def(f)
  <2>. HIDE DEF step
  <2>1. PICK f : f \in [Nat -> Nat] /\ Runs(f, i, step)
    BY <1>1, RecursionExists
  <2>2. \A k \in Nat : f[k + 1] = 2 * f[k]
    BY <2>1 DEF Runs, step
  <2>3. \A k \in Nat : f[k] = IF k = 0 THEN i ELSE 2 * f[k - 1]
    BY <2>1, <2>2 DEF Runs
  <2>. QED BY <2>1, <2>3
<1>3. Def(ShlOf(i))
  BY <1>2 DEF ShlOf
<1>4. ASSUME NEW f, Def(f) PROVE Obeys(f, Nat, i, step)
  <2>1. f = [k \in Nat |-> f[k]]
    BY <1>4
  <2>2. f[0] = i /\ \A k \in Nat : f[k + 1] = 2 * f[k]
    BY <1>4
  <2>. HIDE DEF Def
  <2>. QED BY <2>1, <2>2 DEF Obeys
<1>5. ShlOf(i) \in [Nat -> Nat] /\ Runs(ShlOf(i), i, step)
  <2>. HIDE DEF step, Def
  <2>. QED BY <1>1, <1>3, <1>4, RecursionRuns
<1>6. \A k : Shl(i, k) = ShlOf(i)[k]
  BY DEF Shl, ShlOf
<1>7. \A k \in Nat : ShlOf(i)[k] \in Nat /\ ShlOf(i)[k + 1] = 2 * ShlOf(i)[k]
  BY <1>5 DEF Runs
<1>8. ShlOf(i)[0] = i
  BY <1>5 DEF Runs
<1>. QED BY <1>6, <1>7, <1>8

\* Shr halves once for every place.
LEMMA ShrStep ==
    ASSUME NEW i \in Nat
    PROVE  /\ \A k \in Nat : Shr(i, k) \in Nat
           /\ Shr(i, 0) = i
           /\ \A k \in Nat : Shr(i, k + 1) = Shr(i, k) \div 2
<1> DEFINE step == [k \in Nat |-> [v \in Nat |-> v \div 2]]
           Def(f) == f = [k \in Nat |-> IF k = 0 THEN i ELSE f[k - 1] \div 2]
<1>1. Fits(Nat, i, step)
  BY DEF Fits
<1>2. \E f : Def(f)
  <2>. HIDE DEF step
  <2>1. PICK f : f \in [Nat -> Nat] /\ Runs(f, i, step)
    BY <1>1, RecursionExists
  <2>2. \A k \in Nat : f[k + 1] = f[k] \div 2
    BY <2>1 DEF Runs, step
  <2>3. \A k \in Nat : f[k] = IF k = 0 THEN i ELSE f[k - 1] \div 2
    BY <2>1, <2>2 DEF Runs
  <2>. QED BY <2>1, <2>3
<1>3. Def(ShrOf(i))
  BY <1>2 DEF ShrOf
<1>4. ASSUME NEW f, Def(f) PROVE Obeys(f, Nat, i, step)
  <2>1. f = [k \in Nat |-> f[k]]
    BY <1>4
  <2>2. f[0] = i /\ \A k \in Nat : f[k + 1] = f[k] \div 2
    BY <1>4
  <2>. HIDE DEF Def
  <2>. QED BY <2>1, <2>2 DEF Obeys
<1>5. ShrOf(i) \in [Nat -> Nat] /\ Runs(ShrOf(i), i, step)
  <2>. HIDE DEF step, Def
  <2>. QED BY <1>1, <1>3, <1>4, RecursionRuns
<1>6. \A k : Shr(i, k) = ShrOf(i)[k]
  BY DEF Shr, ShrOf
<1>7. \A k \in Nat : ShrOf(i)[k] \in Nat /\ ShrOf(i)[k + 1] = ShrOf(i)[k] \div 2
  BY <1>5 DEF Runs
<1>8. ShrOf(i)[0] = i
  BY <1>5 DEF Runs
<1>. QED BY <1>6, <1>7, <1>8

\* Shifting by one more place is doubling, or halving, first.
LEMMA ShiftFirst ==
    \A k \in Nat : /\ \A i \in Nat : Shl(2 * i, k) = Shl(i, k + 1)
                   /\ \A a \in Nat : Shr(a \div 2, k) = Shr(a, k + 1)
<1> DEFINE G == {k \in Nat : /\ \A i \in Nat : Shl(2 * i, k) = Shl(i, k + 1)
                             /\ \A a \in Nat : Shr(a \div 2, k) = Shr(a, k + 1)}
<1>1. 0 \in G
  <2>1. ASSUME NEW i \in Nat PROVE Shl(2 * i, 0) = Shl(i, 0 + 1)
    <3>1. Shl(2 * i, 0) = 2 * i
      BY ShlStep
    <3>. QED BY <3>1, ShlStep
  <2>2. ASSUME NEW a \in Nat PROVE Shr(a \div 2, 0) = Shr(a, 0 + 1)
    <3>1. Shr(a \div 2, 0) = a \div 2
      BY ShrStep
    <3>. QED BY <3>1, ShrStep
  <2>. QED BY <2>1, <2>2
<1>2. ASSUME NEW k \in Nat, k \in G PROVE k + 1 \in G
  <2>1. ASSUME NEW i \in Nat PROVE Shl(2 * i, k + 1) = Shl(i, (k + 1) + 1)
    <3>1. Shl(2 * i, k + 1) = 2 * Shl(2 * i, k)
      BY ShlStep
    <3>2. Shl(i, (k + 1) + 1) = 2 * Shl(i, k + 1)
      BY ShlStep
    <3>. QED BY <1>2, <3>1, <3>2
  <2>2. ASSUME NEW a \in Nat PROVE Shr(a \div 2, k + 1) = Shr(a, (k + 1) + 1)
    <3>0. a \div 2 \in Nat
      OBVIOUS
    <3>1. Shr(a \div 2, k + 1) = Shr(a \div 2, k) \div 2
      BY <3>0, ShrStep
    <3>2. Shr(a, (k + 1) + 1) = Shr(a, k + 1) \div 2
      BY ShrStep
    <3>. QED BY <1>2, <3>1, <3>2
  <2>. QED BY <2>1, <2>2
<1>3. Nat \subseteq G
  <2>. HIDE DEF G
  <2>. QED BY <1>1, <1>2, SetInduction
<1>. QED BY <1>3

\* A node starts at or before leaf a exactly if its index is at most that of the
\* node above a.
LEMMA ShiftsAdjoint ==
    \A k \in Nat : \A i, a \in Nat : Shl(i, k) <= a <=> i <= Shr(a, k)
<1> DEFINE G == {k \in Nat : \A i, a \in Nat : Shl(i, k) <= a <=> i <= Shr(a, k)}
<1>1. 0 \in G
  BY ShlStep, ShrStep
<1>2. ASSUME NEW k \in Nat, k \in G PROVE k + 1 \in G
  <2>. SUFFICES ASSUME NEW i \in Nat, NEW a \in Nat
                PROVE  Shl(i, k + 1) <= a <=> i <= Shr(a, k + 1)
    OBVIOUS
  <2>1. Shl(i, k) \in Nat /\ Shl(i, k + 1) = 2 * Shl(i, k)
    BY ShlStep
  <2>2. Shl(i, k + 1) <= a <=> Shl(i, k) <= a \div 2
    BY <2>1
  <2>3. a \div 2 \in Nat
    OBVIOUS
  <2>4. Shl(i, k) <= a \div 2 <=> i <= Shr(a \div 2, k)
    BY <1>2, <2>3
  <2>. QED BY <2>2, <2>4, ShiftFirst
<1>3. Nat \subseteq G
  <2>. HIDE DEF G
  <2>. QED BY <1>1, <1>2, SetInduction
<1>. QED BY <1>3

\* Enough places shift everything out.
LEMMA ShrEnds ==
    \A a, k \in Nat : a < k => Shr(a, k) = 0
<1>. SUFFICES ASSUME NEW a \in Nat PROVE \A k \in Nat : a < k => Shr(a, k) = 0
  OBVIOUS
<1> DEFINE G == {k \in Nat : Shr(a, k) = 0 \/ Shr(a, k) + k <= a}
<1>1. 0 \in G
  BY ShrStep
<1>2. ASSUME NEW k \in Nat, k \in G PROVE k + 1 \in G
  <2>1. Shr(a, k) \in Nat /\ Shr(a, k + 1) = Shr(a, k) \div 2
    BY ShrStep
  <2>. QED BY <1>2, <2>1
<1>3. Nat \subseteq G
  <2>. HIDE DEF G
  <2>. QED BY <1>1, <1>2, SetInduction
<1>4. ASSUME NEW k \in Nat, a < k PROVE Shr(a, k) = 0
  <2>1. k \in G /\ Shr(a, k) \in Nat
    BY <1>3, ShrStep
  <2>. QED BY <1>4, <2>1
<1>. QED BY <1>4

LowBits(n, k) == Shr(n, k) % 2 = 1 /\ \A j \in 0..(k - 1) : Shr(n, j) % 2 = 0

\* TrailingZeros finds the lowest bit.
LEMMA LowestBit ==
    ASSUME NEW n \in Nat, n > 0
    PROVE  TrailingZeros(n) \in 0..n /\ LowBits(n, TrailingZeros(n))
<1> DEFINE G == {c \in Nat : c > 0 => \E k \in 0..c : LowBits(c, k)}
<1>1. ASSUME NEW c \in Nat, \A d \in 0..(c - 1) : d \in G PROVE c \in G
  <2>. SUFFICES ASSUME c > 0 PROVE \E k \in 0..c : LowBits(c, k)
    OBVIOUS
  <2>1. CASE c % 2 = 1
    <3>1. LowBits(c, 0)
      BY <2>1, ShrStep DEF LowBits
    <3>. QED BY <3>1
  <2>2. CASE c % 2 = 0
    <3> DEFINE q == c \div 2
    <3>1. q \in Nat /\ q > 0 /\ q < c /\ q \in 0..(c - 1)
      BY <2>2
    <3>2. PICK k \in 0..q : LowBits(q, k)
      BY <1>1, <3>1
    <3>. HIDE DEF q
    <3>3. Shr(c, k + 1) = Shr(q, k)
      BY ShiftFirst DEF q
    <3>4. ASSUME NEW j \in 0..((k + 1) - 1) PROVE Shr(c, j) % 2 = 0
      <4>1. CASE j = 0
        BY <2>2, <4>1, ShrStep
      <4>2. CASE j # 0
        <5>1. j - 1 \in Nat /\ j - 1 \in 0..(k - 1) /\ (j - 1) + 1 = j
          BY <3>1, <4>2
        <5>2. Shr(c, (j - 1) + 1) = Shr(q, j - 1)
          BY <5>1, ShiftFirst DEF q
        <5>. QED BY <3>2, <5>1, <5>2 DEF LowBits
      <4>. QED BY <4>1, <4>2
    <3>5. LowBits(c, k + 1) /\ k + 1 \in 0..c
      BY <3>1, <3>2, <3>3, <3>4 DEF LowBits
    <3>. QED BY <3>5
  <2>. QED BY <2>1, <2>2
<1>2. n \in G
  <2>. HIDE DEF G
  <2>. QED BY <1>1, CourseOfValues
<1>3. TrailingZeros(n) = CHOOSE k \in 0..n : LowBits(n, k)
  BY DEF TrailingZeros, LowBits
<1>. QED BY <1>2, <1>3

\* There is one lowest bit.
LEMMA LowestBitUnique ==
    ASSUME NEW n \in Nat, NEW j \in Nat, NEW k \in Nat, LowBits(n, j), LowBits(n, k)
    PROVE  j = k
<1>1. ~ (j < k)
  <2>1. j < k => j \in 0..(k - 1)
    OBVIOUS
  <2>. QED BY <2>1 DEF LowBits
<1>2. ~ (k < j)
  <2>1. k < j => k \in 0..(j - 1)
    OBVIOUS
  <2>. QED BY <2>1 DEF LowBits
<1>. QED BY <1>1, <1>2

\* An odd number has its lowest bit in front.
LEMMA ZerosOfOdd ==
    ASSUME NEW n \in Nat, n % 2 = 1
    PROVE  TrailingZeros(n) = 0
<1>1. LowBits(n, 0)
  BY ShrStep DEF LowBits
<1>. QED BY <1>1, LowestBit, LowestBitUnique

\* Halving moves the lowest bit by one place.
LEMMA ZerosOfEven ==
    ASSUME NEW q \in Nat, q > 0
    PROVE  TrailingZeros(2 * q) = TrailingZeros(q) + 1
<1> DEFINE k == TrailingZeros(q)
<1>1. k \in Nat /\ LowBits(q, k)
  BY LowestBit
<1>2. 2 * q \in Nat /\ 2 * q > 0 /\ (2 * q) \div 2 = q
  OBVIOUS
<1>. HIDE DEF k
<1>3. \A j \in Nat : Shr(2 * q, j + 1) = Shr(q, j)
  BY <1>2, ShiftFirst
<1>4. ASSUME NEW j \in 0..((k + 1) - 1) PROVE Shr(2 * q, j) % 2 = 0
  <2>1. CASE j = 0
    BY <1>2, <2>1, ShrStep
  <2>2. CASE j # 0
    <3>1. j - 1 \in Nat /\ j - 1 \in 0..(k - 1) /\ (j - 1) + 1 = j
      BY <1>1, <2>2
    <3>. QED BY <1>1, <1>3, <3>1 DEF LowBits
  <2>. QED BY <2>1, <2>2
<1>5. LowBits(2 * q, k + 1)
  BY <1>1, <1>3, <1>4 DEF LowBits
<1>6. TrailingZeros(2 * q) \in Nat /\ LowBits(2 * q, TrailingZeros(2 * q))
  BY <1>2, LowestBit
<1>. QED BY <1>1, <1>2, <1>5, <1>6, LowestBitUnique DEF k

\* The largest perfect subtree that ends at m does end at m.
LEMMA SubtreeEnds ==
    ASSUME NEW m \in Nat, m > 0
    PROVE  /\ TrailingZeros(m) \in Nat
           /\ Shl(Shr(m - 1, TrailingZeros(m)) + 1, TrailingZeros(m)) = m
<1> DEFINE G == {c \in Nat : c > 0 =>
                    Shl(Shr(c - 1, TrailingZeros(c)) + 1, TrailingZeros(c)) = c}
<1>1. ASSUME NEW c \in Nat, \A d \in 0..(c - 1) : d \in G PROVE c \in G
  <2>. SUFFICES ASSUME c > 0
                PROVE  Shl(Shr(c - 1, TrailingZeros(c)) + 1, TrailingZeros(c)) = c
    OBVIOUS
  <2>1. CASE c % 2 = 1
    <3>1. TrailingZeros(c) = 0 /\ Shr(c - 1, 0) = c - 1
      BY <2>1, ZerosOfOdd, ShrStep
    <3>. QED BY <3>1, ShlStep
  <2>2. CASE c % 2 = 0
    <3> DEFINE q == c \div 2
               k == TrailingZeros(q)
    <3>1. q \in Nat /\ q > 0 /\ q \in 0..(c - 1) /\ c = 2 * q
      BY <2>2
    <3>2. Shl(Shr(q - 1, k) + 1, k) = q
      BY <1>1, <3>1
    <3>. HIDE DEF q
    <3>3. k \in Nat /\ TrailingZeros(c) = k + 1
      BY <3>1, LowestBit, ZerosOfEven
    <3>. HIDE DEF k
    <3>4. c - 1 \in Nat /\ (c - 1) \div 2 = q - 1 /\ q - 1 \in Nat
      BY <3>1
    <3>5. Shr(c - 1, k + 1) = Shr(q - 1, k)
      BY <3>3, <3>4, ShiftFirst
    <3>6. Shr(q - 1, k) \in Nat /\ Shr(q - 1, k) + 1 \in Nat
      <4>1. Shr(q - 1, k) \in Nat
        BY <3>3, <3>4, ShrStep
      <4>. QED BY <4>1
    <3>7. Shl(Shr(q - 1, k) + 1, k + 1) = 2 * Shl(Shr(q - 1, k) + 1, k)
      BY <3>3, <3>6, ShlStep
    <3>. QED BY <3>1, <3>2, <3>3, <3>5, <3>7
  <2>. QED BY <2>1, <2>2
<1>2. m \in G
  <2>. HIDE DEF G
  <2>. QED BY <1>1, CourseOfValues
<1>. QED BY <1>2, LowestBit

\* Shifts keep the order.
LEMMA ShiftsMonotone ==
    ASSUME NEW l \in Nat, NEW a \in Nat, NEW b \in Nat, a <= b
    PROVE  Shl(a, l) <= Shl(b, l) /\ Shr(a, l) <= Shr(b, l)
<1>1. Shl(a, l) \in Nat /\ Shl(b, l) \in Nat /\ Shr(a, l) \in Nat /\ Shr(b, l) \in Nat
  BY ShlStep, ShrStep
<1>2. Shl(a, l) <= Shl(b, l)
  <2>1. Shr(Shl(b, l), l) \in Nat
    BY <1>1, ShrStep
  <2>2. b <= Shr(Shl(b, l), l)
    BY <1>1, ShiftsAdjoint
  <2>3. a <= Shr(Shl(b, l), l)
    BY <2>1, <2>2
  <2>. QED BY <1>1, <2>3, ShiftsAdjoint
<1>3. Shr(a, l) <= Shr(b, l)
  <2>1. Shl(Shr(a, l), l) \in Nat
    BY <1>1, ShlStep
  <2>2. Shl(Shr(a, l), l) <= a
    BY <1>1, ShiftsAdjoint
  <2>3. Shl(Shr(a, l), l) <= b
    BY <2>1, <2>2
  <2>. QED BY <1>1, <2>3, ShiftsAdjoint
<1>. QED BY <1>2, <1>3

-----------------------------------------------------------------------------
(* The hashes that can be computed from entries, as a set.                 *)

Grown(X) == X \cup {HashChildren(p[1], p[2]) : p \in X \X X}

GrowsUpto(n, g) ==
    /\ g[0] = {HashLeaf(e) : e \in Entry} \cup {emptyRoot}
    /\ \A k \in 0..(n - 1) : g[k + 1] = Grown(g[k])

\* The hashes of trees of at most n levels.
HashesUpto(n) == (CHOOSE g : GrowsUpto(n, g))[n]

Hashes == UNION {HashesUpto(n) : n \in Nat}

\* HashesUpto is defined by recursion: leaves first, then one level more.
LEMMA HashesGrow ==
    /\ HashesUpto(0) = {HashLeaf(e) : e \in Entry} \cup {emptyRoot}
    /\ \A n \in Nat : HashesUpto(n + 1) = Grown(HashesUpto(n))
<1> DEFINE B == {HashLeaf(e) : e \in Entry} \cup {emptyRoot}
           to(n) == CHOOSE g : GrowsUpto(n, g)
           G == {n \in Nat : \E g : GrowsUpto(n, g)}
<1>1. 0 \in G
  <2>1. GrowsUpto(0, [k \in 0..0 |-> B])
    BY DEF GrowsUpto
  <2>. QED BY <2>1
<1>2. ASSUME NEW n \in Nat, n \in G PROVE n + 1 \in G
  <2>1. PICK g : GrowsUpto(n, g)
    BY <1>2
  <2> DEFINE h == [k \in 0..(n + 1) |-> IF k = n + 1 THEN Grown(g[n]) ELSE g[k]]
  <2>2. GrowsUpto(n + 1, h)
    BY <2>1 DEF GrowsUpto
  <2>. HIDE DEF h
  <2>. QED BY <2>2
<1>3. Nat \subseteq G
  <2>. HIDE DEF G
  <2>. QED BY <1>1, <1>2, SetInduction
<1>4. \A n \in Nat : GrowsUpto(n, to(n))
  BY <1>3
<1>. HIDE DEF to, G
<1>5. ASSUME NEW n \in Nat PROVE to(n + 1)[n] = to(n)[n]
  <2> DEFINE H == {k \in Nat : k <= n => to(n + 1)[k] = to(n)[k]}
  <2>1. 0 \in H
    <3>1. GrowsUpto(n, to(n)) /\ GrowsUpto(n + 1, to(n + 1))
      BY <1>4
    <3>. QED BY <3>1 DEF GrowsUpto
  <2>2. ASSUME NEW k \in Nat, k \in H PROVE k + 1 \in H
    <3>. SUFFICES ASSUME k + 1 <= n PROVE to(n + 1)[k + 1] = to(n)[k + 1]
      OBVIOUS
    <3>1. k \in 0..(n - 1) /\ k \in 0..((n + 1) - 1) /\ to(n + 1)[k] = to(n)[k]
      BY <2>2
    <3>2. to(n + 1)[k + 1] = Grown(to(n + 1)[k])
      BY <1>4, <3>1 DEF GrowsUpto
    <3>3. to(n)[k + 1] = Grown(to(n)[k])
      BY <1>4, <3>1 DEF GrowsUpto
    <3>. QED BY <3>1, <3>2, <3>3
  <2>3. Nat \subseteq H
    <3>. HIDE DEF H
    <3>. QED BY <2>1, <2>2, SetInduction
  <2>. QED BY <2>3
<1>6. \A n : HashesUpto(n) = to(n)[n]
  BY DEF HashesUpto, to
<1>7. ASSUME NEW n \in Nat PROVE HashesUpto(n + 1) = Grown(HashesUpto(n))
  <2>1. to(n + 1)[n + 1] = Grown(to(n + 1)[n])
    BY <1>4 DEF GrowsUpto
  <2>. QED BY <1>5, <1>6, <2>1
<1>. QED BY <1>4, <1>6, <1>7 DEF GrowsUpto

\* Leaves are hashes, and so is what two hashes are combined to.
LEMMA HashesClosed ==
    /\ emptyRoot \in Hashes
    /\ \A e \in Entry : HashLeaf(e) \in Hashes
    /\ \A l, r \in Hashes : HashChildren(l, r) \in Hashes
<1>1. ASSUME NEW i \in Nat, NEW j \in Nat PROVE HashesUpto(i) \subseteq HashesUpto(i + j)
  <2> DEFINE G == {c \in Nat : HashesUpto(i) \subseteq HashesUpto(i + c)}
  <2>1. 0 \in G
    OBVIOUS
  <2>2. ASSUME NEW c \in Nat, c \in G PROVE c + 1 \in G
    <3>1. HashesUpto((i + c) + 1) = Grown(HashesUpto(i + c)) /\ (i + c) + 1 = i + (c + 1)
      BY HashesGrow
    <3>2. HashesUpto(i + c) \subseteq Grown(HashesUpto(i + c))
      BY DEF Grown
    <3>. QED BY <2>2, <3>1, <3>2
  <2>3. Nat \subseteq G
    <3>. HIDE DEF G
    <3>. QED BY <2>1, <2>2, SetInduction
  <2>. QED BY <2>3
<1>2. ASSUME NEW l \in Hashes, NEW r \in Hashes PROVE HashChildren(l, r) \in Hashes
  <2>1. PICK i \in Nat : l \in HashesUpto(i)
    BY DEF Hashes
  <2>2. PICK j \in Nat : r \in HashesUpto(j)
    BY DEF Hashes
  <2>3. l \in HashesUpto(i + j) /\ r \in HashesUpto(i + j)
    <3>1. i + j = j + i
      OBVIOUS
    <3>. QED BY <1>1, <2>1, <2>2, <3>1
  <2> DEFINE X == HashesUpto(i + j)
  <2>4. HashChildren(l, r) \in Grown(X)
    <3>1. <<l, r>> \in X \X X
      BY <2>3
    <3>. HIDE DEF X
    <3>2. HashChildren(<<l, r>>[1], <<l, r>>[2]) \in Grown(X)
      BY <3>1 DEF Grown
    <3>. QED BY <3>2
  <2>5. HashesUpto((i + j) + 1) = Grown(X) /\ i + j \in Nat /\ (i + j) + 1 \in Nat
    BY HashesGrow
  <2>. HIDE DEF X
  <2>. QED BY <2>4, <2>5 DEF Hashes
<1>3. HashesUpto(0) \subseteq Hashes
  BY DEF Hashes
<1>. QED BY <1>2, <1>3, HashesGrow

\* Hashes are the terms they are computed from.
LEMMA ChildrenInjective ==
    ASSUME NEW a, NEW b, NEW c, NEW d, HashChildren(a, b) = HashChildren(c, d)
    PROVE  a = c /\ b = d
BY DEF HashChildren

-----------------------------------------------------------------------------
(* Collapsing a list of hashes.                                            *)

\* The function that Collapse applies.
CollapseOf(hashes) ==
    LET acc[k \in 0..(Len(hashes) - 1)] ==
            IF k = 0 THEN hashes[Len(hashes)]
            ELSE HashChildren(hashes[Len(hashes) - k], acc[k - 1])
    IN  acc

\* Collapse combines from the last hash to the first.
LEMMA CollapseStep ==
    ASSUME NEW h \in Seq(Hashes), h # <<>>
    PROVE  /\ CollapseOf(h) \in [0..(Len(h) - 1) -> Hashes]
           /\ CollapseOf(h)[0] = h[Len(h)]
           /\ \A k \in 0..(Len(h) - 2) :
                 CollapseOf(h)[k + 1] = HashChildren(h[Len(h) - (k + 1)], CollapseOf(h)[k])
           /\ Collapse(h) = CollapseOf(h)[Len(h) - 1]
           /\ Collapse(h) \in Hashes
<1> DEFINE n == Len(h)
           N == n - 1
           step == [k \in 0..(N - 1) |-> [v \in Hashes |-> HashChildren(h[n - (k + 1)], v)]]
           Def(f) == f = [k \in 0..(n - 1) |-> IF k = 0 THEN h[n]
                                               ELSE HashChildren(h[n - k], f[k - 1])]
<1>0. n \in Nat /\ n > 0 /\ N \in Nat /\ \A k \in 1..n : h[k] \in Hashes
  OBVIOUS
<1>1. FitsUpto(N, Hashes, h[n], step)
  <2>1. \A k \in 0..(N - 1) : h[n - (k + 1)] \in Hashes
    BY <1>0
  <2>. HIDE DEF n, N
  <2>. QED BY <1>0, <2>1, HashesClosed DEF FitsUpto
<1>2. \E f : Def(f)
  <2>. HIDE DEF step
  <2>1. PICK f : f \in [0..N -> Hashes] /\ RunsUpto(f, N, h[n], step)
    BY <1>0, <1>1, RecursionUpto
  <2>2. \A k \in 0..(N - 1) : f[k + 1] = HashChildren(h[n - (k + 1)], f[k])
    BY <1>0, <2>1 DEF RunsUpto, step
  <2>3. \A k \in 0..(n - 1) : f[k] = IF k = 0 THEN h[n] ELSE HashChildren(h[n - k], f[k - 1])
    <3>. TAKE k \in 0..(n - 1)
    <3>1. CASE k = 0
      BY <2>1, <3>1 DEF RunsUpto
    <3>2. CASE k # 0
      <4>1. k - 1 \in 0..(N - 1) /\ (k - 1) + 1 = k
        BY <1>0, <3>2
      <4>. QED BY <2>2, <3>2, <4>1
    <3>. QED BY <3>1, <3>2
  <2>. QED BY <2>1, <2>3
<1>3. Def(CollapseOf(h))
  BY <1>2 DEF CollapseOf
<1>4. ASSUME NEW f, Def(f) PROVE ObeysUpto(f, N, Hashes, h[n], step)
  <2>1. f = [k \in 0..N |-> f[k]]
    BY <1>4
  <2>2. f[0] = h[n]
    BY <1>0, <1>4
  <2>3. \A k \in 0..(N - 1) : f[k + 1] = HashChildren(h[n - (k + 1)], f[k])
    BY <1>0, <1>4
  <2>. HIDE DEF Def, n, N
  <2>. QED BY <1>0, <2>1, <2>2, <2>3 DEF ObeysUpto
<1>. HIDE DEF Def
<1>5. CollapseOf(h) \in [0..N -> Hashes] /\ RunsUpto(CollapseOf(h), N, h[n], step)
  <2>. HIDE DEF step, n, N
  <2>. QED BY <1>0, <1>1, <1>3, <1>4, RunsAsDefined
<1>6. \A k \in 0..(N - 1) : CollapseOf(h)[k + 1] = HashChildren(h[n - (k + 1)], CollapseOf(h)[k])
  <2>. HIDE DEF n, N
  <2>. QED BY <1>0, <1>5 DEF RunsUpto
<1>7. Collapse(h) = CollapseOf(h)[n - 1]
  BY DEF Collapse, CollapseOf
<1>. QED BY <1>0, <1>5, <1>6, <1>7 DEF RunsUpto

\* What a part of a sequence holds.
LEMMA SubSeqIs ==
    ASSUME NEW S, NEW s \in Seq(S), NEW a \in Nat, NEW b \in Nat,
           1 <= a, a <= b + 1, b <= Len(s)
    PROVE  /\ SubSeq(s, a, b) \in Seq(S)
           /\ Len(SubSeq(s, a, b)) = (b - a) + 1
           /\ \A i \in 1..((b - a) + 1) : SubSeq(s, a, b)[i] = s[(a + i) - 1]
<1>1. (b - a) + 1 \in Nat
  OBVIOUS
<1>2. \A i \in 1..((b - a) + 1) : (a + i) - 1 \in 1..Len(s)
  OBVIOUS
<1>. QED BY <1>1, <1>2

\* The last K + 1 hashes of Q and, but for the last d, of R: the first K are the
\* same, and the rest collapses to the same hash.
EndAlike(Q, R, d, K) ==
    /\ Q \in Seq(Hashes) /\ Q # <<>> /\ R \in Seq(Hashes) /\ R # <<>>
    /\ d \in Nat /\ K \in Nat /\ K < Len(Q) /\ d + K < Len(R)
    /\ CollapseOf(Q)[0] = CollapseOf(R)[d]
    /\ \A j \in 1..K : Q[Len(Q) - j] = R[Len(R) - (d + j)]

\* Lists that end alike collapse alike.
LEMMA CollapseShift ==
    ASSUME NEW Q, NEW R, NEW d, NEW K, EndAlike(Q, R, d, K)
    PROVE  CollapseOf(Q)[K] = CollapseOf(R)[d + K]
<1>. USE DEF EndAlike
<1> DEFINE G == {k \in Nat : k <= K => CollapseOf(Q)[k] = CollapseOf(R)[d + k]}
<1>1. 0 \in G
  OBVIOUS
<1>2. ASSUME NEW k \in Nat, k \in G PROVE k + 1 \in G
  <2>. SUFFICES ASSUME k + 1 <= K PROVE CollapseOf(Q)[k + 1] = CollapseOf(R)[d + (k + 1)]
    OBVIOUS
  <2>0. Len(Q) \in Nat /\ Len(R) \in Nat
    OBVIOUS
  <2>1. k \in 0..(Len(Q) - 2) /\ d + k \in 0..(Len(R) - 2) /\ k + 1 \in 1..K
        /\ (d + k) + 1 = d + (k + 1)
    BY <2>0
  <2>2. CollapseOf(Q)[k + 1] = HashChildren(Q[Len(Q) - (k + 1)], CollapseOf(Q)[k])
    BY <2>1, CollapseStep
  <2>3. CollapseOf(R)[d + (k + 1)]
           = HashChildren(R[Len(R) - (d + (k + 1))], CollapseOf(R)[d + k])
    <3>1. CollapseOf(R)[(d + k) + 1]
             = HashChildren(R[Len(R) - ((d + k) + 1)], CollapseOf(R)[d + k])
      BY <2>1, CollapseStep
    <3>. QED BY <2>1, <3>1
  <2>4. Q[Len(Q) - (k + 1)] = R[Len(R) - (d + (k + 1))]
    BY <2>1
  <2>. QED BY <1>2, <2>2, <2>3, <2>4
<1>3. Nat \subseteq G
  <2>. HIDE DEF G
  <2>. QED BY <1>1, <1>2, SetInduction
<1>. QED BY <1>3

\* One hash collapses to itself.
LEMMA CollapseOne ==
    ASSUME NEW x \in Hashes
    PROVE  Collapse(<<x>>) = x
<1>1. <<x>> \in Seq(Hashes) /\ <<x>> # <<>> /\ Len(<<x>>) = 1 /\ <<x>>[1] = x
  OBVIOUS
<1> DEFINE h == <<x>>
<1>. HIDE DEF h
<1>2. Collapse(h) = CollapseOf(h)[Len(h) - 1] /\ CollapseOf(h)[0] = h[Len(h)]
  BY <1>1, CollapseStep DEF h
<1>3. Len(h) - 1 = 0 /\ h[Len(h)] = x
  BY <1>1 DEF h
<1>. QED BY <1>2, <1>3 DEF h

\* The last two hashes are combined first.
LEMMA CollapseLastTwo ==
    ASSUME NEW r \in Seq(Hashes), NEW a \in Hashes, NEW b \in Hashes
    PROVE  Collapse(Append(Append(r, a), b)) = Collapse(Append(r, HashChildren(a, b)))
<1> DEFINE R == Append(Append(r, a), b)
           c == HashChildren(a, b)
           Q == Append(r, c)
           K == Len(r)
<1>0. c \in Hashes
  BY HashesClosed
<1>. HIDE DEF c
<1>1. K \in Nat /\ R \in Seq(Hashes) /\ Q \in Seq(Hashes) /\ R # <<>> /\ Q # <<>>
  BY <1>0
<1>2. Len(R) = K + 2 /\ Len(Q) = K + 1 /\ R[K + 2] = b /\ R[K + 1] = a /\ Q[K + 1] = c
  BY <1>0
<1>3. \A j \in 1..K : Q[Len(Q) - j] = R[Len(R) - (1 + j)]
  <2>. TAKE j \in 1..K
  <2>1. Len(Q) - j = (K + 1) - j /\ Len(R) - (1 + j) = (K + 1) - j /\ (K + 1) - j \in 1..K
    BY <1>1, <1>2
  <2>2. \A i \in 1..K : Q[i] = r[i] /\ R[i] = r[i]
    BY <1>0
  <2>. HIDE DEF Q, R, K
  <2>. QED BY <2>1, <2>2
<1>. HIDE DEF Q, R, K
<1>4. CollapseOf(Q)[0] = c
  BY <1>1, <1>2, CollapseStep
<1>5. CollapseOf(R)[1] = c
  <2>1. CollapseOf(R)[0] = b
    BY <1>1, <1>2, CollapseStep
  <2>2. 0 \in 0..(Len(R) - 2) /\ Len(R) - (0 + 1) = K + 1
    BY <1>1, <1>2
  <2>3. CollapseOf(R)[0 + 1] = HashChildren(R[Len(R) - (0 + 1)], CollapseOf(R)[0])
    BY <1>1, <2>2, CollapseStep
  <2>. QED BY <1>2, <2>1, <2>2, <2>3 DEF c
<1>6. CollapseOf(Q)[K] = CollapseOf(R)[1 + K]
  <2>1. 1 \in Nat /\ K < Len(Q) /\ 1 + K < Len(R)
    BY <1>1, <1>2
  <2>2. EndAlike(Q, R, 1, K)
    BY <1>1, <1>3, <1>4, <1>5, <2>1 DEF EndAlike
  <2>. QED BY <2>2, CollapseShift
<1>7. Collapse(Q) = CollapseOf(Q)[Len(Q) - 1] /\ Collapse(R) = CollapseOf(R)[Len(R) - 1]
  BY <1>1, CollapseStep
<1>8. Len(Q) - 1 = K /\ Len(R) - 1 = 1 + K
  BY <1>1, <1>2
<1>9. Collapse(R) = Collapse(Q)
  BY <1>6, <1>7, <1>8
<1>. QED BY <1>9 DEF Q, R, c

\* The first hash is combined with what the others collapse to.
LEMMA CollapseFirst ==
    ASSUME NEW x \in Hashes, NEW y \in Seq(Hashes), y # <<>>
    PROVE  Collapse(<<x>> \o y) = HashChildren(x, Collapse(y))
<1> DEFINE R == <<x>> \o y
           n == Len(y)
<1>1. n \in Nat /\ n > 0 /\ R \in Seq(Hashes) /\ R # <<>> /\ Len(R) = n + 1 /\ R[1] = x
  OBVIOUS
<1>2. \A i \in 1..n : R[i + 1] = y[i]
  OBVIOUS
<1>3. \A j \in 1..(n - 1) : y[n - j] = R[Len(R) - (0 + j)]
  <2>. TAKE j \in 1..(n - 1)
  <2>1. n - j \in 1..n /\ Len(R) - (0 + j) = (n - j) + 1
    BY <1>1
  <2>. HIDE DEF R, n
  <2>. QED BY <1>2, <2>1
<1>. HIDE DEF R
<1>4. CollapseOf(y)[0] = y[n] /\ Collapse(y) = CollapseOf(y)[n - 1]
  BY CollapseStep
<1>5. CollapseOf(R)[0] = y[n]
  <2>1. n \in 1..n
    BY <1>1
  <2>. QED BY <1>1, <1>2, <2>1, CollapseStep
<1>6. CollapseOf(y)[n - 1] = CollapseOf(R)[0 + (n - 1)]
  <2>1. n - 1 \in Nat /\ n - 1 < Len(y) /\ 0 + (n - 1) < Len(R)
    BY <1>1
  <2>2. EndAlike(y, R, 0, n - 1)
    BY <1>1, <1>3, <1>4, <1>5, <2>1 DEF EndAlike
  <2>. QED BY <2>2, CollapseShift
<1>7. CollapseOf(R)[n] = HashChildren(x, CollapseOf(R)[n - 1])
  <2>1. n - 1 \in 0..(Len(R) - 2) /\ (n - 1) + 1 = n /\ Len(R) - n = 1
    BY <1>1
  <2>2. CollapseOf(R)[(n - 1) + 1] = HashChildren(R[Len(R) - ((n - 1) + 1)], CollapseOf(R)[n - 1])
    BY <1>1, <2>1, CollapseStep
  <2>. QED BY <1>1, <2>1, <2>2
<1>8. Collapse(R) = CollapseOf(R)[n]
  <2>1. Len(R) - 1 = n
    BY <1>1
  <2>. QED BY <1>1, <2>1, CollapseStep
<1>9. 0 + (n - 1) = n - 1
  BY <1>1
<1>. QED BY <1>4, <1>6, <1>7, <1>8, <1>9 DEF R

\* The end of a list may be collapsed on its own first.
LEMMA CollapseEnd ==
    ASSUME NEW R \in Seq(Hashes), NEW x \in Hashes, NEW k \in 0..Len(R)
    PROVE  LET T == Append(SubSeq(R, k + 1, Len(R)), x)
           IN  /\ T \in Seq(Hashes) /\ T # <<>>
               /\ Collapse(Append(SubSeq(R, 1, k), Collapse(T))) = Collapse(Append(R, x))
<1> DEFINE L == Len(R)
           T == Append(SubSeq(R, k + 1, L), x)
           A == Append(R, x)
           c == Collapse(T)
           Q == Append(SubSeq(R, 1, k), c)
<1>0. L \in Nat /\ k \in Nat /\ k <= L
  OBVIOUS
<1> DEFINE D == SubSeq(R, k + 1, L)
           B == SubSeq(R, 1, k)
<1>01. D \in Seq(Hashes) /\ Len(D) = L - k /\ \A i \in 1..(L - k) : D[i] = R[k + i]
  <2>1. k + 1 \in Nat /\ 1 <= k + 1 /\ k + 1 <= L + 1 /\ L <= Len(R)
        /\ (L - (k + 1)) + 1 = L - k /\ \A i \in 1..(L - k) : ((k + 1) + i) - 1 = k + i
    BY <1>0
  <2>2. /\ D \in Seq(Hashes) /\ Len(D) = (L - (k + 1)) + 1
        /\ \A i \in 1..((L - (k + 1)) + 1) : D[i] = R[((k + 1) + i) - 1]
    <3>. HIDE DEF L
    <3>. QED BY <1>0, <2>1, SubSeqIs
  <2>. HIDE DEF D, L
  <2>. QED BY <2>1, <2>2
<1>02. B \in Seq(Hashes) /\ Len(B) = k /\ \A i \in 1..k : B[i] = R[i]
  <2>1. 1 <= k + 1 /\ (k - 1) + 1 = k /\ \A i \in 1..k : (1 + i) - 1 = i
    BY <1>0
  <2>2. /\ B \in Seq(Hashes) /\ Len(B) = (k - 1) + 1
        /\ \A i \in 1..((k - 1) + 1) : B[i] = R[(1 + i) - 1]
    BY <1>0, <2>1, SubSeqIs
  <2>. HIDE DEF B, L
  <2>. QED BY <2>1, <2>2
<1>. HIDE DEF D, B
<1>1. /\ L \in Nat /\ k \in Nat /\ k <= L
      /\ T \in Seq(Hashes) /\ T # <<>> /\ Len(T) = (L - k) + 1 /\ T[(L - k) + 1] = x
      /\ A \in Seq(Hashes) /\ A # <<>> /\ Len(A) = L + 1 /\ A[L + 1] = x
  <2>1. T = Append(D, x)
    BY DEF D
  <2>. HIDE DEF T
  <2>. QED BY <1>0, <1>01, <2>1
<1>2. \A i \in 1..L : A[i] = R[i]
  OBVIOUS
<1>3. \A i \in 1..(L - k) : T[i] = R[k + i]
  <2>1. T = Append(D, x)
    BY DEF D
  <2>. HIDE DEF T
  <2>. QED BY <1>0, <1>01, <2>1
<1>4. c \in Hashes
  <2>. HIDE DEF T
  <2>. QED BY <1>1, CollapseStep
<1>. HIDE DEF T, A, c
<1>5. Q \in Seq(Hashes) /\ Q # <<>> /\ Len(Q) = k + 1 /\ Q[k + 1] = c
      /\ \A i \in 1..k : Q[i] = R[i]
  <2>1. Q = Append(B, c)
    BY DEF B
  <2>. HIDE DEF Q
  <2>. QED BY <1>0, <1>02, <1>4, <2>1
<1>. HIDE DEF Q, L
<1>6. c = CollapseOf(A)[L - k]
  <2>1. CollapseOf(T)[0] = x /\ CollapseOf(A)[0] = x /\ c = CollapseOf(T)[Len(T) - 1]
    BY <1>1, CollapseStep DEF c
  <2>2. L - k \in Nat /\ L - k < Len(T) /\ 0 + (L - k) < Len(A) /\ Len(T) - 1 = L - k
        /\ 0 + (L - k) = L - k
    BY <1>1
  <2>3. \A j \in 1..(L - k) : T[Len(T) - j] = A[Len(A) - (0 + j)]
    <3>. TAKE j \in 1..(L - k)
    <3>1. Len(T) - j = (L - k) + 1 - j /\ (L - k) + 1 - j \in 1..(L - k)
          /\ Len(A) - (0 + j) = k + ((L - k) + 1 - j)
          /\ k + ((L - k) + 1 - j) \in 1..L
      BY <1>1
    <3>. QED BY <1>2, <1>3, <3>1
  <2>4. CollapseOf(T)[L - k] = CollapseOf(A)[0 + (L - k)]
    <3>1. EndAlike(T, A, 0, L - k)
      BY <1>1, <2>1, <2>2, <2>3 DEF EndAlike
    <3>. QED BY <3>1, CollapseShift
  <2>. QED BY <2>1, <2>2, <2>4
<1>7. CollapseOf(Q)[k] = CollapseOf(A)[(L - k) + k]
  <2>1. CollapseOf(Q)[0] = c
    BY <1>1, <1>5, CollapseStep
  <2>2. L - k \in Nat /\ k < Len(Q) /\ (L - k) + k < Len(A)
    BY <1>1, <1>5
  <2>3. \A j \in 1..k : Q[Len(Q) - j] = A[Len(A) - ((L - k) + j)]
    <3>. TAKE j \in 1..k
    <3>1. Len(Q) - j = (k + 1) - j /\ (k + 1) - j \in 1..k /\ (k + 1) - j \in 1..L
          /\ Len(A) - ((L - k) + j) = (k + 1) - j
      BY <1>1, <1>5
    <3>. QED BY <1>2, <1>5, <3>1
  <2>4. EndAlike(Q, A, L - k, k)
    BY <1>1, <1>5, <1>6, <2>1, <2>2, <2>3 DEF EndAlike
  <2>. QED BY <2>4, CollapseShift
<1>8. Collapse(Q) = CollapseOf(Q)[Len(Q) - 1] /\ Collapse(A) = CollapseOf(A)[Len(A) - 1]
  BY <1>1, <1>5, CollapseStep
<1>9. Len(Q) - 1 = k /\ Len(A) - 1 = (L - k) + k
  BY <1>1, <1>5
<1>10. Collapse(Q) = Collapse(A)
  BY <1>7, <1>8, <1>9
<1>. QED BY <1>1, <1>10 DEF T, A, c, Q, L

-----------------------------------------------------------------------------
(* Compact ranges, level by level.                                         *)

\* One level up: neighbours combined, an odd last hash carried along.
Up(s) ==
    [i \in 1..((Len(s) + 1) \div 2) |->
        IF 2 * i <= Len(s) THEN HashChildren(s[2 * i - 1], s[2 * i]) ELSE s[2 * i - 1]]

\* What one level up holds, and how much.
LEMMA UpType ==
    ASSUME NEW s \in Seq(Hashes)
    PROVE  /\ Up(s) \in Seq(Hashes)
           /\ Len(Up(s)) = (Len(s) + 1) \div 2
           /\ \A i \in 1..((Len(s) + 1) \div 2) :
                 Up(s)[i] = IF 2 * i <= Len(s) THEN HashChildren(s[2 * i - 1], s[2 * i])
                            ELSE s[2 * i - 1]
<1> DEFINE m == (Len(s) + 1) \div 2
<1>1. m \in Nat
  OBVIOUS
<1>2. ASSUME NEW i \in 1..m
      PROVE  (IF 2 * i <= Len(s) THEN HashChildren(s[2 * i - 1], s[2 * i])
              ELSE s[2 * i - 1]) \in Hashes
  <2>1. 2 * i - 1 \in 1..Len(s) /\ (2 * i <= Len(s) => 2 * i \in 1..Len(s))
    OBVIOUS
  <2>. QED BY <2>1, HashesClosed
<1>. QED BY <1>1, <1>2 DEF Up

\* What Merge does when it has enough to merge with.
LEMMA MergeType ==
    ASSUME NEW r \in Seq(Hashes), NEW x \in Hashes, NEW k \in Nat,
           TrailingZeros(k + 1) <= Len(r)
    PROVE  /\ TrailingZeros(k + 1) \in Nat
           /\ Merge(r, x, k) \in Seq(Hashes)
           /\ Merge(r, x, k) # <<>>
           /\ Collapse(Merge(r, x, k)) = Collapse(Append(r, x))
<1> DEFINE t == TrailingZeros(k + 1)
           kept == Len(r) - t
           B == SubSeq(r, 1, kept)
           T == Append(SubSeq(r, kept + 1, Len(r)), x)
           c == Collapse(T)
<1>1. t \in Nat
  BY LowestBit
<1>2. kept \in 0..Len(r)
  BY <1>1
<1>3. Merge(r, x, k) = Append(B, c)
  BY DEF Merge
<1>. HIDE DEF t
<1>4. T \in Seq(Hashes) /\ T # <<>> /\ Collapse(Append(B, c)) = Collapse(Append(r, x))
  <2>. HIDE DEF kept
  <2>. QED BY <1>2, CollapseEnd
<1>. HIDE DEF T
<1>5. c \in Hashes
  BY <1>4, CollapseStep
<1>6. B \in Seq(Hashes)
  <2>1. 1 <= kept + 1 /\ kept \in Nat /\ kept <= Len(r)
    BY <1>2
  <2>. HIDE DEF kept
  <2>. QED BY <2>1, SubSeqIs
<1>. HIDE DEF B, c
<1>7. Append(B, c) \in Seq(Hashes) /\ Append(B, c) # <<>>
  BY <1>5, <1>6
<1>. QED BY <1>1, <1>3, <1>4, <1>7 DEF t

\* A leaf that starts a subtree is just appended.
LEMMA MergeNone ==
    ASSUME NEW r \in Seq(Hashes), NEW x \in Hashes, NEW k \in Nat, k % 2 = 0
    PROVE  Merge(r, x, k) = Append(r, x)
<1>1. TrailingZeros(k + 1) = 0
  BY ZerosOfOdd
<1> DEFINE L == Len(r)
           B == SubSeq(r, 1, L)
           D == SubSeq(r, L + 1, L)
<1>2. L \in Nat /\ L - 0 = L
  OBVIOUS
<1>3. Merge(r, x, k) = Append(B, Collapse(Append(D, x)))
  BY <1>1, <1>2 DEF Merge
<1>4. B = r
  OBVIOUS
<1>5. D = <<>>
  OBVIOUS
<1>6. Append(<<>>, x) = <<x>>
  OBVIOUS
<1>. HIDE DEF B, D
<1>. QED BY <1>3, <1>4, <1>5, <1>6, CollapseOne

\* A leaf that completes a pair is merged with its neighbour, and the pair then as
\* a leaf of the next level.
LEMMA MergePair ==
    ASSUME NEW R \in Seq(Hashes), NEW a \in Hashes, NEW b \in Hashes,
           NEW q \in Nat, q > 0, TrailingZeros(q) <= Len(R)
    PROVE  Merge(Append(R, a), b, 2 * q - 1) = Merge(R, HashChildren(a, b), q - 1)
<1> DEFINE t == TrailingZeros(q)
           L == Len(R)
           k == L - t
           c == HashChildren(a, b)
           A == Append(R, a)
           B == SubSeq(R, 1, k)
           D == SubSeq(R, k + 1, L)
<1>1. t \in Nat /\ TrailingZeros(2 * q) = t + 1 /\ (2 * q - 1) + 1 = 2 * q
      /\ (q - 1) + 1 = q
  BY LowestBit, ZerosOfEven
<1>. HIDE DEF t
<1>2. L \in Nat /\ k \in Nat /\ k <= L /\ c \in Hashes /\ t <= L
  BY <1>1, HashesClosed DEF t
<1>3. A \in Seq(Hashes) /\ Len(A) = L + 1 /\ A[L + 1] = a /\ \A i \in 1..L : A[i] = R[i]
  OBVIOUS
<1>4. (L + 1) - (t + 1) = k
  BY <1>1, <1>2
<1>. HIDE DEF A, L, c
<1>5. Merge(A, b, 2 * q - 1)
         = Append(SubSeq(A, 1, k), Collapse(Append(SubSeq(A, k + 1, L + 1), b)))
  BY <1>1, <1>3, <1>4 DEF Merge
<1>6. Merge(R, c, q - 1) = Append(B, Collapse(Append(D, c)))
  BY <1>1 DEF Merge, L, t
<1>. HIDE DEF k
<1>7. D \in Seq(Hashes) /\ Len(D) = L - k /\ \A i \in 1..(L - k) : D[i] = R[k + i]
  <2>1. k + 1 \in Nat /\ 1 <= k + 1 /\ k + 1 <= L + 1 /\ L <= Len(R)
        /\ (L - (k + 1)) + 1 = L - k /\ \A i \in 1..(L - k) : ((k + 1) + i) - 1 = k + i
    BY <1>2 DEF L
  <2>2. /\ D \in Seq(Hashes) /\ Len(D) = (L - (k + 1)) + 1
        /\ \A i \in 1..((L - (k + 1)) + 1) : D[i] = R[((k + 1) + i) - 1]
    BY <1>2, <2>1, SubSeqIs
  <2>. HIDE DEF D
  <2>. QED BY <2>1, <2>2
<1>8. SubSeq(A, 1, k) = B
  <2> DEFINE E == SubSeq(A, 1, k)
  <2>1. 1 <= k + 1 /\ (k - 1) + 1 = k /\ k <= Len(A) /\ k <= Len(R)
        /\ \A i \in 1..k : (1 + i) - 1 = i /\ i \in 1..L
    BY <1>2, <1>3 DEF L
  <2>2. /\ B \in Seq(Hashes) /\ Len(B) = (k - 1) + 1
        /\ \A i \in 1..((k - 1) + 1) : B[i] = R[(1 + i) - 1]
    BY <1>2, <2>1, SubSeqIs
  <2>3. /\ E \in Seq(Hashes) /\ Len(E) = (k - 1) + 1
        /\ \A i \in 1..((k - 1) + 1) : E[i] = A[(1 + i) - 1]
    BY <1>2, <1>3, <2>1, SubSeqIs
  <2>. HIDE DEF B, E
  <2>4. Len(B) = k /\ Len(E) = k /\ \A i \in 1..k : B[i] = E[i]
    BY <1>3, <2>1, <2>2, <2>3
  <2>5. E = B
    BY <2>2, <2>3, <2>4, SameEntries
  <2>. QED BY <2>5 DEF E
<1>9. SubSeq(A, k + 1, L + 1) = Append(D, a)
  <2> DEFINE E == SubSeq(A, k + 1, L + 1)
             F == Append(D, a)
  <2>1. k + 1 \in Nat /\ L + 1 \in Nat /\ 1 <= k + 1 /\ k + 1 <= (L + 1) + 1 /\ L + 1 <= Len(A)
        /\ ((L + 1) - (k + 1)) + 1 = (L - k) + 1
        /\ \A i \in 1..((L - k) + 1) : ((k + 1) + i) - 1 = k + i
    BY <1>2, <1>3
  <2>2. /\ E \in Seq(Hashes) /\ Len(E) = ((L + 1) - (k + 1)) + 1
        /\ \A i \in 1..(((L + 1) - (k + 1)) + 1) : E[i] = A[((k + 1) + i) - 1]
    BY <1>3, <2>1, SubSeqIs
  <2>3. F \in Seq(Hashes) /\ Len(F) = (L - k) + 1 /\ F[(L - k) + 1] = a
        /\ \A i \in 1..(L - k) : F[i] = D[i]
    <3>. HIDE DEF D
    <3>. QED BY <1>2, <1>7
  <2>. HIDE DEF E, F, D
  <2>4. Len(E) = (L - k) + 1 /\ \A i \in 1..((L - k) + 1) : E[i] = A[k + i]
    BY <2>1, <2>2
  <2>5. ASSUME NEW i \in 1..((L - k) + 1) PROVE E[i] = F[i]
    <3>1. CASE i = (L - k) + 1
      <4>1. k + i = L + 1
        BY <1>2, <3>1
      <4>. QED BY <1>3, <2>3, <2>4, <3>1, <4>1
    <3>2. CASE i # (L - k) + 1
      <4>1. i \in 1..(L - k) /\ k + i \in 1..L
        BY <1>2, <3>2
      <4>. QED BY <1>3, <1>7, <2>3, <2>4, <4>1
    <3>. QED BY <3>1, <3>2
  <2>6. E = F
    BY <2>2, <2>3, <2>4, <2>5, SameEntries
  <2>. QED BY <2>6 DEF E, F
<1>10. Collapse(Append(Append(D, a), b)) = Collapse(Append(D, c))
  <2>. HIDE DEF D
  <2>. QED BY <1>7, CollapseLastTwo DEF c
<1>11. Merge(A, b, 2 * q - 1) = Merge(R, c, q - 1)
  BY <1>5, <1>6, <1>8, <1>9, <1>10
<1>. QED BY <1>11 DEF A, c

\* The compact ranges of the first leaves of s, as far as Merge has enough to merge
\* with; that it always has is shown below.
RangeStep(s) ==
    [k \in 0..(Len(s) - 1) |->
        [r \in Seq(Hashes) |->
            IF TrailingZeros(k + 1) <= Len(r) THEN Merge(r, s[k + 1], k) ELSE r]]

RangeOf(s) ==
    CHOOSE f : f \in [0..Len(s) -> Seq(Hashes)] /\ RunsUpto(f, Len(s), <<>>, RangeStep(s))

\* RangeOf is defined by recursion, leaf by leaf.
LEMMA RangeRuns ==
    ASSUME NEW s \in Seq(Hashes)
    PROVE  /\ RangeOf(s) \in [0..Len(s) -> Seq(Hashes)]
           /\ RangeOf(s)[0] = <<>>
           /\ \A k \in 0..(Len(s) - 1) :
                 TrailingZeros(k + 1) <= Len(RangeOf(s)[k]) =>
                    RangeOf(s)[k + 1] = Merge(RangeOf(s)[k], s[k + 1], k)
<1> DEFINE n == Len(s)
<1>0. n \in Nat /\ <<>> \in Seq(Hashes)
  OBVIOUS
<1>1. ASSUME NEW k \in 0..(n - 1), NEW r \in Seq(Hashes)
      PROVE  (IF TrailingZeros(k + 1) <= Len(r) THEN Merge(r, s[k + 1], k) ELSE r) \in Seq(Hashes)
  <2>1. k \in Nat /\ s[k + 1] \in Hashes
    OBVIOUS
  <2>. QED BY <2>1, MergeType
<1>2. FitsUpto(n, Seq(Hashes), <<>>, RangeStep(s))
  BY <1>0, <1>1 DEF FitsUpto, RangeStep
<1>3. RangeOf(s) \in [0..n -> Seq(Hashes)] /\ RunsUpto(RangeOf(s), n, <<>>, RangeStep(s))
  <2>1. \E f : f \in [0..n -> Seq(Hashes)] /\ RunsUpto(f, n, <<>>, RangeStep(s))
    BY <1>0, <1>2, RecursionUpto
  <2>. QED BY <2>1 DEF RangeOf
<1>4. ASSUME NEW k \in 0..(n - 1), TrailingZeros(k + 1) <= Len(RangeOf(s)[k])
      PROVE  RangeOf(s)[k + 1] = Merge(RangeOf(s)[k], s[k + 1], k)
  <2>1. RangeOf(s)[k] \in Seq(Hashes)
    BY <1>0, <1>3
  <2>2. RangeOf(s)[k + 1] = RangeStep(s)[k][RangeOf(s)[k]]
    BY <1>3 DEF RunsUpto
  <2>3. RangeStep(s)[k][RangeOf(s)[k]] = Merge(RangeOf(s)[k], s[k + 1], k)
    BY <1>4, <2>1 DEF RangeStep
  <2>. QED BY <2>2, <2>3
<1>. QED BY <1>3, <1>4 DEF RunsUpto

\* The range of i leaves is that of i \div 2 leaves one level up, and an odd leaf.
ByLevels(s, i) ==
    /\ TrailingZeros(i + 1) <= Len(RangeOf(s)[i])
    /\ i % 2 = 0 => RangeOf(s)[i] = RangeOf(Up(s))[i \div 2]
    /\ i % 2 = 1 => RangeOf(s)[i] = Append(RangeOf(Up(s))[i \div 2], s[i])

\* Every range is made up like that.
LEMMA RangeByLevels ==
    \A i \in Nat : \A s \in Seq(Hashes) : i <= Len(s) => ByLevels(s, i)
<1> DEFINE G == {i \in Nat : \A s \in Seq(Hashes) : i <= Len(s) => ByLevels(s, i)}
<1>1. ASSUME NEW i \in Nat, \A j \in Nat : j < i => j \in G PROVE i \in G
  <2>. SUFFICES ASSUME NEW s \in Seq(Hashes), i <= Len(s) PROVE ByLevels(s, i)
    OBVIOUS
  <2> DEFINE u == Up(s)
             q == i \div 2
  <2>0. Len(s) \in Nat /\ u \in Seq(Hashes) /\ Len(u) \in Nat /\ Len(u) = (Len(s) + 1) \div 2
        /\ q \in Nat /\ q <= Len(u)
    BY UpType
  <2>. HIDE DEF u
  <2>1. RangeOf(u) \in [0..Len(u) -> Seq(Hashes)] /\ RangeOf(s) \in [0..Len(s) -> Seq(Hashes)]
    BY <2>0, RangeRuns
  <2>2. CASE i = 0
    <3>1. RangeOf(s)[0] = <<>> /\ RangeOf(u)[0] = <<>>
      BY <2>0, RangeRuns
    <3>2. TrailingZeros(0 + 1) = 0
      BY ZerosOfOdd
    <3>. QED BY <2>2, <3>1, <3>2 DEF ByLevels, u
  <2>3. CASE i % 2 = 1
    <3>1. i = 2 * q + 1 /\ 2 * q \in Nat /\ 2 * q < i /\ (2 * q) % 2 = 0 /\ (2 * q) \div 2 = q
          /\ 2 * q \in 0..(Len(s) - 1) /\ q < i
      BY <2>0, <2>3
    <3>. HIDE DEF q
    <3>2. ByLevels(s, 2 * q) /\ ByLevels(u, q)
      BY <1>1, <2>0, <3>1
    <3> DEFINE r == RangeOf(u)[q]
    <3>3. r \in Seq(Hashes) /\ RangeOf(s)[2 * q] = r
      <4>1. q \in 0..Len(u)
        BY <2>0, <3>1
      <4>2. r \in Seq(Hashes)
        BY <2>1, <4>1
      <4>3. RangeOf(s)[2 * q] = r
        BY <3>1, <3>2 DEF ByLevels, u
      <4>. QED BY <4>2, <4>3
    <3>. HIDE DEF r
    <3>4. s[i] \in Hashes
      BY <2>0, <3>1
    <3>5. RangeOf(s)[i] = Merge(r, s[i], 2 * q)
      <4>1. TrailingZeros(2 * q + 1) <= Len(RangeOf(s)[2 * q])
        BY <3>2 DEF ByLevels
      <4>2. RangeOf(s)[2 * q + 1] = Merge(RangeOf(s)[2 * q], s[2 * q + 1], 2 * q)
        BY <3>1, <4>1, RangeRuns
      <4>. QED BY <3>1, <3>3, <4>2
    <3>6. RangeOf(s)[i] = Append(r, s[i])
      BY <3>1, <3>3, <3>4, <3>5, MergeNone
    <3>7. Len(Append(r, s[i])) = Len(r) + 1 /\ Len(r) \in Nat
      BY <3>3, <3>4
    <3>8. TrailingZeros(i + 1) = TrailingZeros(q + 1) + 1
      <4>1. q + 1 \in Nat /\ q + 1 > 0 /\ i + 1 = 2 * (q + 1)
        BY <2>0, <3>1
      <4>. QED BY <4>1, ZerosOfEven
    <3>9. TrailingZeros(q + 1) <= Len(r) /\ TrailingZeros(q + 1) \in Nat
      BY <2>0, <3>2, LowestBit DEF ByLevels, r
    <3>10. TrailingZeros(i + 1) <= Len(RangeOf(s)[i])
      BY <3>6, <3>7, <3>8, <3>9
    <3>. QED BY <2>3, <3>6, <3>10 DEF ByLevels, r, q, u
  <2>4. CASE i # 0 /\ i % 2 = 0
    <3>1. i = 2 * q /\ q > 0 /\ q - 1 \in Nat /\ 2 * q - 1 \in Nat /\ 2 * q - 1 < i
          /\ (2 * q - 1) % 2 = 1 /\ (2 * q - 1) \div 2 = q - 1
          /\ 2 * q - 1 \in 0..(Len(s) - 1) /\ (2 * q - 1) + 1 = i /\ q - 1 < i
          /\ q - 1 \in 0..(Len(u) - 1) /\ (q - 1) + 1 = q /\ 2 * q - 1 <= Len(s) /\ q - 1 <= Len(u)
          /\ q \in 1..((Len(s) + 1) \div 2) /\ 2 * q <= Len(s)
          /\ i \in 1..Len(s) /\ 2 * q - 1 \in 1..Len(s) /\ q - 1 \in 0..Len(u)
      BY <2>0, <2>4
    <3>. HIDE DEF q
    <3>2. ByLevels(s, 2 * q - 1) /\ ByLevels(u, q - 1)
      BY <1>1, <2>0, <3>1
    <3> DEFINE R == RangeOf(u)[q - 1]
               a == s[2 * q - 1]
               b == s[i]
    <3>3. R \in Seq(Hashes) /\ a \in Hashes /\ b \in Hashes
      <4>1. q - 1 \in 0..Len(u) /\ i \in 1..Len(s) /\ 2 * q - 1 \in 1..Len(s)
        BY <3>1
      <4>2. R \in Seq(Hashes)
        BY <2>1, <4>1
      <4>3. a \in Hashes
        BY <4>1
      <4>. QED BY <4>1, <4>2, <4>3
    <3>4. RangeOf(s)[2 * q - 1] = Append(R, a)
      BY <3>1, <3>2 DEF ByLevels, u
    <3>5. RangeOf(s)[i] = Merge(Append(R, a), b, 2 * q - 1)
      <4>1. TrailingZeros((2 * q - 1) + 1) <= Len(RangeOf(s)[2 * q - 1])
        BY <3>2 DEF ByLevels
      <4>2. RangeOf(s)[(2 * q - 1) + 1]
               = Merge(RangeOf(s)[2 * q - 1], s[(2 * q - 1) + 1], 2 * q - 1)
        BY <3>1, <4>1, RangeRuns
      <4>. QED BY <3>1, <3>4, <4>2
    <3>6. TrailingZeros((q - 1) + 1) <= Len(R)
      BY <3>2 DEF ByLevels
    <3>7. TrailingZeros(q) <= Len(R)
      BY <3>1, <3>6
    <3>8. RangeOf(u)[q] = Merge(R, u[q], q - 1)
      <4>1. RangeOf(u)[(q - 1) + 1] = Merge(RangeOf(u)[q - 1], u[(q - 1) + 1], q - 1)
        BY <2>0, <3>1, <3>6, RangeRuns
      <4>. QED BY <3>1, <4>1
    <3>9. u[q] = HashChildren(a, b)
      BY <3>1, UpType DEF u
    <3>10. Merge(Append(R, a), b, 2 * q - 1) = Merge(R, HashChildren(a, b), q - 1)
      <4>. HIDE DEF R, a, b
      <4>. QED BY <2>0, <3>1, <3>3, <3>7, MergePair
    <3>11. RangeOf(s)[i] = RangeOf(u)[q]
      <4>. HIDE DEF R, a, b
      <4>. QED BY <3>5, <3>8, <3>9, <3>10
    <3>12. TrailingZeros(i + 1) = 0
      BY <2>4, ZerosOfOdd
    <3>13. RangeOf(s)[i] \in Seq(Hashes)
      BY <2>1, <3>1
    <3>14. TrailingZeros(i + 1) <= Len(RangeOf(s)[i])
      BY <3>12, <3>13
    <3>. QED BY <2>4, <3>11, <3>14 DEF ByLevels, q, u
  <2>. QED BY <2>2, <2>3, <2>4
<1>2. Nat \subseteq G
  <2>. HIDE DEF G
  <2>. QED BY <1>1, CourseOfValues
<1>. QED BY <1>2

\* So Merge always has enough to merge with.
LEMMA RangeAppends ==
    ASSUME NEW s \in Seq(Hashes), NEW k \in 0..(Len(s) - 1)
    PROVE  /\ TrailingZeros(k + 1) <= Len(RangeOf(s)[k])
           /\ RangeOf(s)[k + 1] = Merge(RangeOf(s)[k], s[k + 1], k)
<1>1. k \in Nat /\ k <= Len(s)
  OBVIOUS
<1>2. TrailingZeros(k + 1) <= Len(RangeOf(s)[k])
  BY <1>1, RangeByLevels DEF ByLevels
<1>. QED BY <1>2, RangeRuns

\* The function that compactRange applies.
CompactOf(leaves) ==
    LET r[k \in 0..Len(leaves)] ==
            IF k = 0 THEN <<>> ELSE Merge(r[k - 1], leaves[k], k - 1)
    IN  r

\* Root's loop computes these ranges.
LEMMA RootIsCollapsed ==
    ASSUME NEW s \in Seq(Hashes), s # <<>>
    PROVE  Root(s) = Collapse(RangeOf(s)[Len(s)])
<1> DEFINE n == Len(s)
           f == RangeOf(s)
           Def(r) == r = [k \in 0..n |-> IF k = 0 THEN <<>> ELSE Merge(r[k - 1], s[k], k - 1)]
<1>0. n \in Nat /\ f \in [0..n -> Seq(Hashes)] /\ f[0] = <<>>
  BY RangeRuns
<1>1. \A k \in 0..(n - 1) : f[k + 1] = Merge(f[k], s[k + 1], k)
  BY RangeAppends
<1>. HIDE DEF f, n
<1>2. \A k \in 0..n : f[k] = IF k = 0 THEN <<>> ELSE Merge(f[k - 1], s[k], k - 1)
  <2>. TAKE k \in 0..n
  <2>1. CASE k = 0
    BY <1>0, <2>1
  <2>2. CASE k # 0
    <3>1. k - 1 \in 0..(n - 1) /\ (k - 1) + 1 = k
      BY <1>0, <2>2
    <3>. QED BY <1>1, <2>2, <3>1
  <2>. QED BY <2>1, <2>2
<1>3. Def(f)
  BY <1>0, <1>2
<1>4. Def(CompactOf(s))
  BY <1>3 DEF CompactOf, n
<1>5. ASSUME NEW r, Def(r)
      PROVE  r[0] = <<>> /\ \A k \in 0..(n - 1) : r[k + 1] = Merge(r[k], s[k + 1], k)
  <2>1. \A k \in 0..n : r[k] = IF k = 0 THEN <<>> ELSE Merge(r[k - 1], s[k], k - 1)
    BY <1>5
  <2>2. 0 \in 0..n
    BY <1>0
  <2>3. \A k \in 0..(n - 1) : k + 1 \in 0..n /\ k + 1 # 0 /\ (k + 1) - 1 = k
    BY <1>0
  <2>. HIDE DEF Def
  <2>. QED BY <2>1, <2>2, <2>3
<1>. HIDE DEF Def
<1> DEFINE r == CompactOf(s)
           G == {k \in Nat : k <= n => r[k] = f[k]}
<1>6. r[0] = <<>> /\ \A k \in 0..(n - 1) : r[k + 1] = Merge(r[k], s[k + 1], k)
  BY <1>4, <1>5
<1>. HIDE DEF r
<1>7. Nat \subseteq G
  <2>1. 0 \in G
    BY <1>0, <1>6
  <2>2. ASSUME NEW k \in Nat, k \in G PROVE k + 1 \in G
    <3>. SUFFICES ASSUME k + 1 <= n PROVE r[k + 1] = f[k + 1]
      OBVIOUS
    <3>1. k \in 0..(n - 1) /\ r[k] = f[k]
      BY <1>0, <2>2
    <3>. QED BY <1>1, <1>6, <3>1
  <2>. HIDE DEF G
  <2>. QED BY <2>1, <2>2, SetInduction
<1>8. r[n] = f[n]
  BY <1>0, <1>7
<1>9. compactRange(s, n) = r[n]
  BY DEF compactRange, CompactOf, r
<1>10. Root(s) = Collapse(compactRange(s, n))
  BY DEF Root, n
<1>. QED BY <1>8, <1>9, <1>10 DEF f, n

\* The range of a tree is not empty, so its root is a hash.
LEMMA RootType ==
    ASSUME NEW s \in Seq(Hashes)
    PROVE  Root(s) \in Hashes
<1>1. CASE s = <<>>
  BY <1>1, HashesClosed DEF Root
<1>2. CASE s # <<>>
  <2> DEFINE n == Len(s)
             r == RangeOf(s)[n - 1]
  <2>1. n \in Nat /\ n > 0 /\ n - 1 \in 0..(n - 1) /\ n - 1 \in 0..n /\ n - 1 \in Nat
        /\ (n - 1) + 1 = n /\ n \in 1..n
    BY <1>2
  <2>2. r \in Seq(Hashes) /\ s[n] \in Hashes
    BY <2>1, RangeRuns
  <2>3. TrailingZeros((n - 1) + 1) <= Len(r) /\ RangeOf(s)[(n - 1) + 1] = Merge(r, s[(n - 1) + 1], n - 1)
    BY <2>1, RangeAppends
  <2>4. RangeOf(s)[n] = Merge(r, s[n], n - 1)
    BY <2>1, <2>3
  <2>. HIDE DEF r
  <2>5. Merge(r, s[n], n - 1) \in Seq(Hashes) /\ Merge(r, s[n], n - 1) # <<>>
    <3>. HIDE DEF n
    <3>. QED BY <2>1, <2>2, <2>3, MergeType
  <2>6. Collapse(Merge(r, s[n], n - 1)) \in Hashes
    BY <2>5, CollapseStep
  <2>. QED BY <1>2, <2>4, <2>6, RootIsCollapsed
<1>. QED BY <1>1, <1>2

\* The root of one leaf is its hash.
LEMMA RootOfOne ==
    ASSUME NEW s \in Seq(Hashes), Len(s) = 1
    PROVE  Root(s) = s[1]
<1>1. s # <<>> /\ s[1] \in Hashes /\ 0 \in 0..(Len(s) - 1) /\ 0 + 1 = 1 /\ <<>> \in Seq(Hashes)
  OBVIOUS
<1>2. RangeOf(s)[0] = <<>> /\ RangeOf(s)[0 + 1] = Merge(RangeOf(s)[0], s[0 + 1], 0)
  BY <1>1, RangeRuns, RangeAppends
<1>3. Merge(<<>>, s[1], 0) = Append(<<>>, s[1])
  <2> DEFINE e == <<>>
             k == 0
             x == s[1]
  <2>1. e \in Seq(Hashes) /\ x \in Hashes /\ k \in Nat /\ k % 2 = 0
    BY <1>1
  <2>. HIDE DEF e, k, x
  <2>2. Merge(e, x, k) = Append(e, x)
    BY <2>1, MergeNone
  <2>. QED BY <2>2 DEF e, k, x
<1>4. Append(<<>>, s[1]) = <<s[1]>>
  OBVIOUS
<1>5. RangeOf(s)[1] = <<s[1]>>
  BY <1>1, <1>2, <1>3, <1>4
<1>. QED BY <1>1, <1>5, RootIsCollapsed, CollapseOne

\* A tree has the root of the level above its leaves.
LEMMA RootUp ==
    ASSUME NEW s \in Seq(Hashes)
    PROVE  Root(Up(s)) = Root(s)
<1> DEFINE n == Len(s)
           u == Up(s)
           m == Len(u)
<1>0. n \in Nat /\ u \in Seq(Hashes) /\ m \in Nat /\ m = (n + 1) \div 2
  BY UpType
<1>1. CASE s = <<>>
  <2>1. n = 0 /\ m = 0
    BY <1>0, <1>1
  <2>2. u = <<>>
    BY <1>0, <2>1
  <2>. QED BY <1>1, <2>2
<1>2. CASE s # <<>>
  <2>1. n > 0 /\ m > 0
    BY <1>0, <1>2
  <2>2. u # <<>>
    BY <1>0, <2>1
  <2>3. ByLevels(s, n)
    BY <1>0, RangeByLevels
  <2>4. CASE n % 2 = 0
    <3>1. n \div 2 = m
      BY <1>0, <2>4
    <3>2. RangeOf(s)[n] = RangeOf(u)[m]
      BY <2>3, <2>4, <3>1 DEF ByLevels
    <3>. QED BY <1>0, <1>2, <2>2, <3>2, RootIsCollapsed
  <2>5. CASE n % 2 = 1
    <3> DEFINE q == n \div 2
               r == RangeOf(u)[q]
    <3>1. q \in Nat /\ m = q + 1 /\ q \in 0..(m - 1) /\ q \in 0..m /\ 2 * m = n + 1 /\ 2 * m - 1 = n
          /\ m \in 1..((n + 1) \div 2) /\ n \in 1..n
      BY <1>0, <2>5
    <3>2. u[m] = s[n]
      <4>1. u[m] = IF 2 * m <= Len(s) THEN HashChildren(s[2 * m - 1], s[2 * m]) ELSE s[2 * m - 1]
        BY <3>1, UpType
      <4>2. ~ (2 * m <= Len(s))
        BY <1>0, <3>1
      <4>. QED BY <3>1, <4>1, <4>2
    <3>3. RangeOf(s)[n] = Append(r, s[n])
      BY <2>3, <2>5 DEF ByLevels
    <3>4. r \in Seq(Hashes) /\ s[n] \in Hashes
      <4>. HIDE DEF q, u
      <4>1. RangeOf(u) \in [0..m -> Seq(Hashes)]
        BY <1>0, RangeRuns
      <4>2. r \in Seq(Hashes)
        BY <3>1, <4>1
      <4>. QED BY <3>1, <4>2
    <3>. HIDE DEF q, u, m, n
    <3>5. TrailingZeros(q + 1) <= Len(r) /\ RangeOf(u)[q + 1] = Merge(r, u[q + 1], q)
      BY <1>0, <3>1, RangeAppends DEF m
    <3>6. Collapse(Merge(r, s[n], q)) = Collapse(Append(r, s[n]))
      <4>. HIDE DEF r
      <4>. QED BY <3>1, <3>4, <3>5, MergeType
    <3>7. Collapse(RangeOf(u)[m]) = Collapse(RangeOf(s)[n])
      BY <3>1, <3>2, <3>3, <3>5, <3>6
    <3>. QED BY <1>0, <1>2, <2>2, <3>7, RootIsCollapsed DEF n, m, u
  <2>. QED BY <1>0, <2>4, <2>5
<1>. QED BY <1>1, <1>2

\* A part of the leaves that starts at a pair and ends at one, or with the last
\* leaf, is a part of the level above.
LEMMA UpOfPart ==
    ASSUME NEW s \in Seq(Hashes), NEW a \in Nat, NEW e \in Nat,
           2 * a <= e, e <= Len(s), e % 2 = 0 \/ e = Len(s)
    PROVE  /\ SubSeq(s, 2 * a + 1, e) \in Seq(Hashes)
           /\ Len(SubSeq(s, 2 * a + 1, e)) = e - 2 * a
           /\ Up(SubSeq(s, 2 * a + 1, e)) = SubSeq(Up(s), a + 1, (e + 1) \div 2)
<1> DEFINE n == Len(s)
           u == Up(s)
           c == (e + 1) \div 2
           p == SubSeq(s, 2 * a + 1, e)
           v == Up(p)
           w == SubSeq(u, a + 1, c)
<1>0. n \in Nat /\ u \in Seq(Hashes) /\ Len(u) = (n + 1) \div 2
      /\ \A i \in 1..((n + 1) \div 2) :
            u[i] = IF 2 * i <= n THEN HashChildren(s[2 * i - 1], s[2 * i]) ELSE s[2 * i - 1]
  BY UpType
<1>1. c \in Nat /\ a <= c /\ c <= Len(u) /\ (e - 2 * a) \in Nat /\ ((e - 2 * a) + 1) \div 2 = c - a
      /\ c - a \in Nat
  BY <1>0
<1>2. p \in Seq(Hashes) /\ Len(p) = e - 2 * a /\ \A i \in 1..(e - 2 * a) : p[i] = s[2 * a + i]
  <2>1. 2 * a + 1 \in Nat /\ 1 <= 2 * a + 1 /\ 2 * a + 1 <= e + 1 /\ (e - (2 * a + 1)) + 1 = e - 2 * a
        /\ \A i \in 1..(e - 2 * a) : ((2 * a + 1) + i) - 1 = 2 * a + i
    BY <1>1
  <2>2. p \in Seq(Hashes) /\ Len(p) = (e - (2 * a + 1)) + 1
        /\ \A i \in 1..((e - (2 * a + 1)) + 1) : p[i] = s[((2 * a + 1) + i) - 1]
    BY <2>1, SubSeqIs
  <2>. HIDE DEF p
  <2>. QED BY <2>1, <2>2
<1>. HIDE DEF p, u, c, n
<1>3. w \in Seq(Hashes) /\ Len(w) = c - a /\ \A i \in 1..(c - a) : w[i] = u[a + i]
  <2>1. a + 1 \in Nat /\ 1 <= a + 1 /\ a + 1 <= c + 1 /\ (c - (a + 1)) + 1 = c - a
        /\ \A i \in 1..(c - a) : ((a + 1) + i) - 1 = a + i
    BY <1>1
  <2>2. w \in Seq(Hashes) /\ Len(w) = (c - (a + 1)) + 1
        /\ \A i \in 1..((c - (a + 1)) + 1) : w[i] = u[((a + 1) + i) - 1]
    BY <1>0, <1>1, <2>1, SubSeqIs
  <2>. HIDE DEF w
  <2>. QED BY <2>1, <2>2
<1>4. v \in Seq(Hashes) /\ Len(v) = c - a
      /\ \A i \in 1..(c - a) :
            v[i] = IF 2 * i <= e - 2 * a THEN HashChildren(p[2 * i - 1], p[2 * i]) ELSE p[2 * i - 1]
  BY <1>1, <1>2, UpType
<1>5. ASSUME NEW i \in 1..(c - a) PROVE v[i] = w[i]
  <2>0. i \in Nat /\ i >= 1 /\ i <= c - a /\ n = Len(s)
    BY <1>1 DEF n
  <2>a. 2 * a + (2 * i - 1) = 2 * (a + i) - 1 /\ 2 * a + 2 * i = 2 * (a + i)
    BY <2>0
  <2>b. 2 * i - 1 \in 1..(e - 2 * a) /\ a + i \in 1..((n + 1) \div 2)
    BY <1>0, <1>1, <2>0 DEF c
  <2>c. 2 * i <= e - 2 * a <=> 2 * (a + i) <= n
    <3>1. CASE e = Len(s)
      BY <1>0, <2>0, <3>1
    <3>2. CASE e % 2 = 0
      <4>1. e = 2 * c
        BY <3>2 DEF c
      <4>. QED BY <1>0, <1>1, <2>0, <4>1
    <3>. QED BY <3>1, <3>2
  <2>d. 2 * i <= e - 2 * a => 2 * i \in 1..(e - 2 * a)
    BY <2>0, <1>1
  <2>1. 2 * i - 1 \in 1..(e - 2 * a) /\ 2 * a + (2 * i - 1) = 2 * (a + i) - 1
        /\ a + i \in 1..((n + 1) \div 2) /\ (2 * i <= e - 2 * a <=> 2 * (a + i) <= n)
        /\ (2 * i <= e - 2 * a => 2 * i \in 1..(e - 2 * a) /\ 2 * a + 2 * i = 2 * (a + i))
    BY <2>a, <2>b, <2>c, <2>d
  <2>2. w[i] = IF 2 * (a + i) <= n THEN HashChildren(s[2 * (a + i) - 1], s[2 * (a + i)])
               ELSE s[2 * (a + i) - 1]
    BY <1>0, <1>3, <2>1
  <2>3. p[2 * i - 1] = s[2 * (a + i) - 1] /\ (2 * i <= e - 2 * a => p[2 * i] = s[2 * (a + i)])
    BY <1>2, <2>1
  <2>. HIDE DEF v, w
  <2>. QED BY <1>4, <2>1, <2>2, <2>3
<1>6. v = w
  <2>. HIDE DEF v, w
  <2>. QED BY <1>3, <1>4, <1>5, SameEntries
<1>. QED BY <1>2, <1>6 DEF p, u, c

\* The root of a tree from the roots of its halves, as RFC 6962 splits it.
LEMMA RootSplits ==
    \A j \in Nat : \A s \in Seq(Hashes) :
        Shl(1, j) < Len(s) /\ Len(s) <= 2 * Shl(1, j) =>
            Root(s) = HashChildren(Root(SubSeq(s, 1, Shl(1, j))),
                                   Root(SubSeq(s, Shl(1, j) + 1, Len(s))))
<1> DEFINE Holds(s, k) ==
               k < Len(s) /\ Len(s) <= 2 * k =>
                   Root(s) = HashChildren(Root(SubSeq(s, 1, k)), Root(SubSeq(s, k + 1, Len(s))))
           G == {j \in Nat : \A s \in Seq(Hashes) : Holds(s, Shl(1, j))}
<1>1. 0 \in G
  <2>1. Shl(1, 0) = 1
    BY ShlStep
  <2>2. ASSUME NEW s \in Seq(Hashes), 1 < Len(s), Len(s) <= 2 * 1
        PROVE  Root(s) = HashChildren(Root(SubSeq(s, 1, 1)), Root(SubSeq(s, 1 + 1, Len(s))))
    <3>0. Len(s) \in Nat
      OBVIOUS
    <3>a. Len(s) = 2
      <4>1. \A n \in Nat : 1 < n /\ n <= 2 * 1 => n = 2
        OBVIOUS
      <4>2. 1 < Len(s) /\ Len(s) <= 2 * 1
        BY <2>2
      <4>. HIDE DEF G, Holds
      <4>. QED BY <3>0, <4>1, <4>2
    <3>1. Len(s) = 2 /\ s[1] \in Hashes /\ s[2] \in Hashes
      BY <3>a
    <3>2. ASSUME NEW i \in 1..2
          PROVE  Root(SubSeq(s, i, i)) = s[i]
      <4>1. i \in Nat /\ 1 <= i /\ i <= Len(s) /\ i <= i + 1 /\ (i - i) + 1 = 1 /\ (i + 1) - 1 = i
        BY <3>1
      <4>2. SubSeq(s, i, i) \in Seq(Hashes) /\ Len(SubSeq(s, i, i)) = (i - i) + 1
            /\ \A q \in 1..((i - i) + 1) : SubSeq(s, i, i)[q] = s[(i + q) - 1]
        BY <4>1, SubSeqIs
      <4>3. Len(SubSeq(s, i, i)) = 1 /\ SubSeq(s, i, i)[1] = s[i]
        BY <4>1, <4>2
      <4>. QED BY <4>2, <4>3, RootOfOne
    <3>3. Root(SubSeq(s, 1, 1)) = s[1] /\ Root(SubSeq(s, 1 + 1, 2)) = s[2]
      <4>1. 1 \in 1..2 /\ 2 \in 1..2 /\ 1 + 1 = 2
        OBVIOUS
      <4>. QED BY <3>2, <4>1
    <3>4. Up(s) \in Seq(Hashes) /\ Len(Up(s)) = 1 /\ Up(s)[1] = HashChildren(s[1], s[2])
      <4>1. (Len(s) + 1) \div 2 = 1 /\ 2 * 1 <= Len(s) /\ 2 * 1 - 1 = 1 /\ 2 * 1 = 2
            /\ 1 \in 1..((Len(s) + 1) \div 2)
        BY <3>1
      <4>. QED BY <4>1, UpType
    <3>5. Root(s) = HashChildren(s[1], s[2])
      BY <3>4, RootUp, RootOfOne
    <3>. QED BY <3>1, <3>3, <3>5
  <2>. QED BY <2>1, <2>2
<1>2. ASSUME NEW j \in Nat, j \in G PROVE j + 1 \in G
  <2> DEFINE k == Shl(1, j)
  <2>1. k \in Nat /\ Shl(1, j + 1) = 2 * k
    BY ShlStep
  <2>. SUFFICES ASSUME NEW s \in Seq(Hashes), 2 * k < Len(s), Len(s) <= 2 * (2 * k)
                PROVE  Root(s) = HashChildren(Root(SubSeq(s, 1, 2 * k)),
                                              Root(SubSeq(s, 2 * k + 1, Len(s))))
    BY <2>1
  <2> DEFINE n == Len(s)
             u == Up(s)
             c == (n + 1) \div 2
  <2>2. n \in Nat /\ u \in Seq(Hashes) /\ Len(u) = c
    BY UpType
  <2>3. c \in Nat /\ k < c /\ c <= 2 * k
    BY <2>1, <2>2
  <2>4. Root(u) = HashChildren(Root(SubSeq(u, 1, k)), Root(SubSeq(u, k + 1, c)))
    <3>1. Holds(u, k)
      <4>. HIDE DEF Holds, u
      <4>. QED BY <1>2, <2>2
    <3>. HIDE DEF u, k, c
    <3>. QED BY <2>2, <2>3, <3>1
  <2>. HIDE DEF k
  <2>5. SubSeq(s, 1, 2 * k) \in Seq(Hashes) /\ Up(SubSeq(s, 1, 2 * k)) = SubSeq(u, 1, k)
    <3>1. 2 * 0 + 1 = 1 /\ 0 + 1 = 1 /\ 2 * k \in Nat /\ 2 * 0 <= 2 * k /\ 2 * k <= Len(s)
          /\ (2 * k) % 2 = 0 /\ (2 * k + 1) \div 2 = k
      BY <2>1
    <3>2. /\ SubSeq(s, 2 * 0 + 1, 2 * k) \in Seq(Hashes)
          /\ Up(SubSeq(s, 2 * 0 + 1, 2 * k)) = SubSeq(Up(s), 0 + 1, (2 * k + 1) \div 2)
      BY <3>1, UpOfPart
    <3>. QED BY <3>1, <3>2
  <2>6. SubSeq(s, 2 * k + 1, n) \in Seq(Hashes) /\ Up(SubSeq(s, 2 * k + 1, n)) = SubSeq(u, k + 1, c)
    BY <2>1, <2>2, UpOfPart
  <2>7. Root(SubSeq(s, 1, 2 * k)) = Root(SubSeq(u, 1, k))
    <3>. HIDE DEF u
    <3>. QED BY <2>5, RootUp
  <2>8. Root(SubSeq(s, 2 * k + 1, n)) = Root(SubSeq(u, k + 1, c))
    <3>. HIDE DEF u, c, n
    <3>. QED BY <2>6, RootUp
  <2>9. Root(s) = Root(u)
    BY RootUp
  <2>. HIDE DEF u, c
  <2>. QED BY <2>4, <2>7, <2>8, <2>9
<1>3. Nat \subseteq G
  <2>. HIDE DEF G
  <2>. QED BY <1>1, <1>2, SetInduction
<1>. QED BY <1>3

\* Split finds where RFC 6962 splits.
LEMMA SplitIs ==
    ASSUME NEW n \in Nat, n > 1
    PROVE  \E j \in Nat : Split(n) = Shl(1, j) /\ Shl(1, j) < n /\ n <= 2 * Shl(1, j)
<1> DEFINE G == {i \in Nat : Shl(1, i) >= i + 1}
<1>1. Nat \subseteq G
  <2>1. 0 \in G
    BY ShlStep
  <2>2. ASSUME NEW i \in Nat, i \in G PROVE i + 1 \in G
    <3>1. Shl(1, i + 1) = 2 * Shl(1, i) /\ Shl(1, i) \in Nat
      BY ShlStep
    <3>. QED BY <2>2, <3>1
  <2>. HIDE DEF G
  <2>. QED BY <2>1, <2>2, SetInduction
<1> DEFINE T == {i \in Nat : n <= 2 * Shl(1, i)}
<1>2. n \in T
  BY <1>1, ShlStep
<1>3. PICK j \in T : \A i \in T : j <= i
  <2>1. T \subseteq Nat /\ T # {}
    BY <1>2
  <2>. HIDE DEF T
  <2>. QED BY <2>1, LeastNatural
<1>4. j \in 0..n
  BY <1>2, <1>3
<1>5. Shl(1, j) < n /\ Shl(1, j) \in Nat
  <2>1. CASE j = 0
    BY <2>1, ShlStep
  <2>2. CASE j # 0
    <3>1. j - 1 \in Nat /\ (j - 1) + 1 = j
      BY <1>3, <2>2
    <3>2. j - 1 \notin T
      BY <1>3, <3>1
    <3>3. Shl(1, (j - 1) + 1) = 2 * Shl(1, j - 1) /\ Shl(1, j - 1) \in Nat
      BY <3>1, ShlStep
    <3>. QED BY <3>1, <3>2, <3>3
  <2>. QED BY <2>1, <2>2
<1> DEFINE P == {Shl(1, i) : i \in 0..n}
<1>6. Shl(1, j) \in P /\ Shl(1, j) < n /\ n <= 2 * Shl(1, j)
  BY <1>3, <1>4, <1>5
<1>7. Split(n) = CHOOSE k \in P : k < n /\ n <= 2 * k
  BY DEF Split
<1>. HIDE DEF P
<1>8. Split(n) \in P /\ Split(n) < n /\ n <= 2 * Split(n)
  BY <1>6, <1>7
<1>9. PICK i \in 0..n : Split(n) = Shl(1, i)
  BY <1>8 DEF P
<1>. QED BY <1>8, <1>9

\* Trees of one size have one root only if they have the same leaves.
LEMMA RootInjective ==
    \A n \in Nat : \A s, t \in Seq(Hashes) :
        Len(s) = n /\ Len(t) = n /\ Root(s) = Root(t) => s = t
<1> DEFINE Holds(s, t, n) == Len(s) = n /\ Len(t) = n /\ Root(s) = Root(t) => s = t
           G == {n \in Nat : \A s, t \in Seq(Hashes) : Holds(s, t, n)}
<1>1. ASSUME NEW n \in Nat, \A m \in Nat : m < n => m \in G PROVE n \in G
  <2>. SUFFICES ASSUME NEW s \in Seq(Hashes), NEW t \in Seq(Hashes),
                       Len(s) = n, Len(t) = n, Root(s) = Root(t)
                PROVE  s = t
    OBVIOUS
  <2>1. CASE n = 0
    BY <2>1
  <2>2. CASE n = 1
    <3>1. s[1] = t[1]
      BY <2>2, RootOfOne
    <3>. QED BY <2>2, <3>1
  <2>3. CASE n > 1
    <3> DEFINE u == Up(s)
               v == Up(t)
               c == (n + 1) \div 2
    <3>1. /\ u \in Seq(Hashes) /\ v \in Seq(Hashes) /\ Len(u) = c /\ Len(v) = c
          /\ c \in Nat /\ c < n /\ Root(u) = Root(v)
      BY <2>3, UpType, RootUp
    <3>. HIDE DEF c
    <3>2. u = v
      <4>1. Holds(u, v, c)
        <5>. HIDE DEF u, v, Holds
        <5>. QED BY <1>1, <3>1
      <4>. HIDE DEF u, v
      <4>. QED BY <3>1, <4>1
    <3>3. ASSUME NEW i \in 1..c
          PROVE  s[2 * i - 1] = t[2 * i - 1] /\ (2 * i <= n => s[2 * i] = t[2 * i])
      <4>1. u[i] = IF 2 * i <= n THEN HashChildren(s[2 * i - 1], s[2 * i]) ELSE s[2 * i - 1]
        BY UpType DEF c
      <4>2. v[i] = IF 2 * i <= n THEN HashChildren(t[2 * i - 1], t[2 * i]) ELSE t[2 * i - 1]
        BY UpType DEF c
      <4>. HIDE DEF u, v
      <4>3. CASE 2 * i <= n
        <5>1. HashChildren(s[2 * i - 1], s[2 * i]) = HashChildren(t[2 * i - 1], t[2 * i])
          BY <3>2, <4>1, <4>2, <4>3
        <5>. QED BY <5>1, ChildrenInjective
      <4>4. CASE ~ (2 * i <= n)
        BY <3>2, <4>1, <4>2, <4>4
      <4>. QED BY <4>3, <4>4
    <3>4. ASSUME NEW i \in 1..n PROVE s[i] = t[i]
      <4> DEFINE h == (i + 1) \div 2
      <4>1. h \in 1..c /\ (i = 2 * h - 1 \/ (i = 2 * h /\ 2 * h <= n))
        BY DEF c
      <4>. HIDE DEF h
      <4>. QED BY <3>3, <4>1
    <3>. QED BY <3>4, SameEntries
  <2>. QED BY <2>1, <2>2, <2>3
<1>2. Nat \subseteq G
  <2>. HIDE DEF G
  <2>. QED BY <1>1, CourseOfValues
<1>. QED BY <1>2

-----------------------------------------------------------------------------
(* Logs and the hashes of their entries.                                   *)

\* What leafHashes returns.
LEMMA LeafHashesOf ==
    ASSUME NEW log \in Log
    PROVE  /\ leafHashes(log) \in Seq(Hashes)
           /\ Len(leafHashes(log)) = Len(log)
           /\ \A i \in 1..Len(log) : leafHashes(log)[i] = HashLeaf(log[i])
<1>1. Len(log) \in Nat /\ \A i \in 1..Len(log) : log[i] \in Entry
  BY DEF Log
<1>2. \A i \in 1..Len(log) : HashLeaf(log[i]) \in Hashes
  BY <1>1, HashesClosed
<1>. QED BY <1>1, <1>2 DEF leafHashes

\* The hashes of a part of a log.
LEMMA LeafHashesOfPart ==
    ASSUME NEW log \in Log, NEW a \in Nat, NEW b \in Nat, 1 <= a, a <= b + 1, b <= Len(log)
    PROVE  /\ SubSeq(log, a, b) \in Log
           /\ Len(SubSeq(log, a, b)) = (b - a) + 1
           /\ leafHashes(SubSeq(log, a, b)) = SubSeq(leafHashes(log), a, b)
<1> DEFINE p == SubSeq(log, a, b)
           s == leafHashes(log)
           q == SubSeq(s, a, b)
           t == leafHashes(p)
<1>0. (b - a) + 1 \in Nat /\ \A i \in 1..((b - a) + 1) : (a + i) - 1 \in 1..Len(log)
  BY DEF Log
<1>1. p \in Log /\ Len(p) = (b - a) + 1 /\ \A i \in 1..((b - a) + 1) : p[i] = log[(a + i) - 1]
  BY SubSeqIs DEF Log
<1>2. s \in Seq(Hashes) /\ Len(s) = Len(log) /\ \A i \in 1..Len(log) : s[i] = HashLeaf(log[i])
  BY LeafHashesOf
<1>. HIDE DEF p, s
<1>3. q \in Seq(Hashes) /\ Len(q) = (b - a) + 1 /\ \A i \in 1..((b - a) + 1) : q[i] = s[(a + i) - 1]
  BY <1>2, SubSeqIs
<1>4. t \in Seq(Hashes) /\ Len(t) = (b - a) + 1 /\ \A i \in 1..((b - a) + 1) : t[i] = HashLeaf(p[i])
  BY <1>1, LeafHashesOf
<1>. HIDE DEF q, t
<1>5. \A i \in 1..((b - a) + 1) : t[i] = q[i]
  BY <1>0, <1>1, <1>2, <1>3, <1>4
<1>6. t = q
  BY <1>3, <1>4, <1>5, SameEntries
<1>. QED BY <1>1, <1>6 DEF p, q, t, s

\* Logs with the same hashes are the same.
LEMMA LeafHashesInjective ==
    ASSUME NEW log \in Log, NEW other \in Log, leafHashes(log) = leafHashes(other)
    PROVE  log = other
<1>1. Len(log) = Len(other)
  BY LeafHashesOf
<1>2. ASSUME NEW i \in 1..Len(log) PROVE log[i] = other[i]
  <2>1. HashLeaf(log[i]) = HashLeaf(other[i])
    BY <1>1, LeafHashesOf
  <2>. QED BY <2>1 DEF HashLeaf
<1>. QED BY <1>1, <1>2, SameEntries DEF Log

\* A root says which log of its size it was computed for.
LEMMA RootOfLogInjective ==
    ASSUME NEW log \in Log, NEW other \in Log, Len(log) = Len(other),
           Root(leafHashes(log)) = Root(leafHashes(other))
    PROVE  log = other
<1>1. /\ leafHashes(log) \in Seq(Hashes) /\ Len(leafHashes(log)) = Len(log)
      /\ leafHashes(other) \in Seq(Hashes) /\ Len(leafHashes(other)) = Len(log)
      /\ Len(log) \in Nat
  BY LeafHashesOf DEF Log
<1>2. leafHashes(log) = leafHashes(other)
  BY <1>1, RootInjective
<1>. QED BY <1>2, LeafHashesInjective

\* Root computes the tree hash of RFC 6962.
LEMMA RootIsTreeHash ==
    ASSUME NEW log \in Log
    PROVE  IsTreeHash(log, Root(leafHashes(log)))
<1> DEFINE s == leafHashes(log)
           n == Len(log)
<1>0. n \in Nat
  BY DEF Log
<1>1. s \in Seq(Hashes) /\ Len(s) = n /\ \A i \in 1..n : s[i] = HashLeaf(log[i])
  BY LeafHashesOf
<1>2. CASE n = 0
  <2>1. s = <<>>
    <3>. HIDE DEF s
    <3>. QED BY <1>1, <1>2
  <2>2. Root(s) = <<2>>
    BY <2>1 DEF Root, emptyRoot
  <2>. HIDE DEF s
  <2>3. IsTreeHash(log, Root(s))
    BY <1>2, <2>2 DEF IsTreeHash
  <2>. QED BY <2>3 DEF s
<1>3. CASE n = 1
  <2>1. Root(s) = s[1] /\ s[1] = HashLeaf(log[1])
    <3>. HIDE DEF s
    <3>. QED BY <1>1, <1>3, RootOfOne
  <2>. HIDE DEF s
  <2>2. IsTreeHash(log, Root(s))
    BY <1>3, <2>1 DEF IsTreeHash, HashLeaf
  <2>. QED BY <2>2 DEF s
<1>4. CASE n > 1
  <2>1. PICK j \in Nat : Split(n) = Shl(1, j) /\ Shl(1, j) < n /\ n <= 2 * Shl(1, j)
    BY <1>0, <1>4, SplitIs
  <2> DEFINE k == Shl(1, j)
  <2>2. k \in Nat
    BY ShlStep
  <2>3. Root(s) = HashChildren(Root(SubSeq(s, 1, k)), Root(SubSeq(s, k + 1, n)))
    <3>. HIDE DEF s
    <3>. QED BY <1>1, <2>1, RootSplits
  <2>. HIDE DEF k
  <2>4. k < n /\ Split(n) = k
    BY <2>1 DEF k
  <2>5. leafHashes(SubSeq(log, 1, k)) = SubSeq(s, 1, k)
    BY <1>0, <2>2, <2>4, LeafHashesOfPart
  <2>6. leafHashes(SubSeq(log, k + 1, n)) = SubSeq(s, k + 1, n)
    <3> DEFINE c == k + 1
    <3>1. c \in Nat /\ 1 <= c /\ c <= n + 1 /\ n <= Len(log)
      BY <1>0, <2>2, <2>4
    <3>. HIDE DEF c
    <3>2. leafHashes(SubSeq(log, c, n)) = SubSeq(leafHashes(log), c, n)
      <4>. HIDE DEF n
      <4>. QED BY <1>0, <3>1, LeafHashesOfPart
    <3>. QED BY <3>2 DEF c
  <2>7. Root(s) = <<1, Root(leafHashes(SubSeq(log, 1, k))),
                       Root(leafHashes(SubSeq(log, k + 1, n)))>>
    <3>. HIDE DEF s
    <3>. QED BY <2>3, <2>5, <2>6 DEF HashChildren
  <2>. HIDE DEF s
  <2>8. IsTreeHash(log, Root(s))
    BY <1>4, <2>4, <2>7 DEF IsTreeHash
  <2>. QED BY <2>8 DEF s
<1>5. n = 0 \/ n = 1 \/ n > 1
  <2>. HIDE DEF n
  <2>. QED BY <1>0
<1>. QED BY <1>2, <1>3, <1>4, <1>5

-----------------------------------------------------------------------------
(* The levels of a tree.                                                   *)

LevelsOf(s) ==
    CHOOSE f : /\ f \in [Nat -> Seq(Hashes)]
               /\ Runs(f, s, [k \in Nat |-> [v \in Seq(Hashes) |-> Up(v)]])

\* The hashes of level l of the tree over the leaf hashes s, left to right.
Lev(s, l) == LevelsOf(s)[l]

\* Levels are defined by recursion, from the leaves.
LEMMA LevStep ==
    ASSUME NEW s \in Seq(Hashes)
    PROVE  /\ \A l \in Nat : Lev(s, l) \in Seq(Hashes)
           /\ Lev(s, 0) = s
           /\ \A l \in Nat : Lev(s, l + 1) = Up(Lev(s, l))
<1> DEFINE step == [k \in Nat |-> [v \in Seq(Hashes) |-> Up(v)]]
           f == LevelsOf(s)
<1>1. Fits(Seq(Hashes), s, step)
  BY UpType DEF Fits
<1>2. \E g : g \in [Nat -> Seq(Hashes)] /\ Runs(g, s, step)
  <2>. HIDE DEF step
  <2>. QED BY <1>1, RecursionExists
<1>3. f \in [Nat -> Seq(Hashes)] /\ Runs(f, s, step)
  BY <1>2 DEF LevelsOf
<1>4. f[0] = s /\ \A k \in Nat : f[k + 1] = step[k][f[k]]
  <2>. HIDE DEF f, step
  <2>. QED BY <1>3 DEF Runs
<1>5. ASSUME NEW l \in Nat PROVE f[l + 1] = Up(f[l])
  <2>. HIDE DEF f
  <2>1. f[l] \in Seq(Hashes)
    BY <1>3
  <2>2. step[l][f[l]] = Up(f[l])
    BY <2>1
  <2>. HIDE DEF step
  <2>. QED BY <1>4, <2>2
<1>6. \A l \in Nat : f[l] \in Seq(Hashes)
  <2>. HIDE DEF f
  <2>. QED BY <1>3
<1>. QED BY <1>4, <1>5, <1>6 DEF Lev

\* The levels above the first are those of the tree over it.
LEMMA LevFirst ==
    ASSUME NEW s \in Seq(Hashes)
    PROVE  \A l \in Nat : Lev(s, l + 1) = Lev(Up(s), l)
<1> DEFINE G == {l \in Nat : Lev(s, l + 1) = Lev(Up(s), l)}
<1>0. Up(s) \in Seq(Hashes)
  BY UpType
<1>1. 0 \in G
  <2>1. Lev(s, 0 + 1) = Up(Lev(s, 0)) /\ Lev(s, 0) = s
    BY LevStep
  <2>2. Lev(Up(s), 0) = Up(s)
    BY <1>0, LevStep
  <2>. QED BY <2>1, <2>2
<1>2. ASSUME NEW l \in Nat, l \in G PROVE l + 1 \in G
  <2>1. Lev(s, (l + 1) + 1) = Up(Lev(s, l + 1))
    BY LevStep
  <2>2. Lev(Up(s), l + 1) = Up(Lev(Up(s), l))
    BY <1>0, LevStep
  <2>3. Lev(s, l + 1) = Lev(Up(s), l)
    BY <1>2
  <2>. QED BY <2>1, <2>2, <2>3
<1>3. Nat \subseteq G
  <2>. HIDE DEF G
  <2>. QED BY <1>1, <1>2, SetInduction
<1>. QED BY <1>3

\* The last node of a level is the one above the last leaf.
LEMMA LevLen ==
    ASSUME NEW s \in Seq(Hashes), s # <<>>
    PROVE  /\ Len(s) - 1 \in Nat
           /\ \A l \in Nat : Len(Lev(s, l)) = Shr(Len(s) - 1, l) + 1
<1> DEFINE n == Len(s) - 1
           G == {l \in Nat : Len(Lev(s, l)) = Shr(n, l) + 1}
<1>0. n \in Nat
  OBVIOUS
<1>1. 0 \in G
  <2>1. Lev(s, 0) = s /\ Shr(n, 0) = n
    BY <1>0, LevStep, ShrStep
  <2>2. Len(s) = (Len(s) - 1) + 1
    OBVIOUS
  <2>. QED BY <2>1, <2>2
<1>2. ASSUME NEW l \in Nat, l \in G PROVE l + 1 \in G
  <2> DEFINE v == Lev(s, l)
             q == Shr(n, l)
  <2>1. v \in Seq(Hashes) /\ Lev(s, l + 1) = Up(v)
    BY LevStep
  <2>2. q \in Nat /\ Shr(n, l + 1) = q \div 2 /\ Len(v) = q + 1
    BY <1>0, <1>2, ShrStep
  <2>3. Len(Up(v)) = (Len(v) + 1) \div 2
    BY <2>1, UpType
  <2>. HIDE DEF v, q, n
  <2>4. (Len(v) + 1) \div 2 = q \div 2 + 1
    BY <2>2
  <2>. QED BY <2>1, <2>2, <2>3, <2>4
<1>3. Nat \subseteq G
  <2>. HIDE DEF G
  <2>. QED BY <1>1, <1>2, SetInduction
<1>. QED BY <1>0, <1>3

\* Every level has the same root.
LEMMA LevRoot ==
    ASSUME NEW s \in Seq(Hashes)
    PROVE  \A l \in Nat : Root(Lev(s, l)) = Root(s)
<1> DEFINE G == {l \in Nat : Root(Lev(s, l)) = Root(s)}
<1>1. 0 \in G
  BY LevStep
<1>2. ASSUME NEW l \in Nat, l \in G PROVE l + 1 \in G
  BY <1>2, LevStep, RootUp
<1>3. Nat \subseteq G
  <2>. HIDE DEF G
  <2>. QED BY <1>1, <1>2, SetInduction
<1>. QED BY <1>3

\* A node of the tree has the hash that the level above its leaves has there.
LEMMA NodeOfLevel ==
    \A l \in Nat : \A s \in Seq(Hashes), i \in Nat :
        Shl(i + 1, l) <= Len(s) => nodeHash(s, Node(l, i)) = Lev(s, l)[i + 1]
<1> DEFINE Holds(l, s, i) ==
               Shl(i + 1, l) <= Len(s) =>
                   Root(SubSeq(s, Shl(i, l) + 1, Shl(i + 1, l))) = Lev(s, l)[i + 1]
           G == {l \in Nat : \A s \in Seq(Hashes), i \in Nat : Holds(l, s, i)}
<1>1. 0 \in G
  <2>. SUFFICES ASSUME NEW s \in Seq(Hashes), NEW i \in Nat, Shl(i + 1, 0) <= Len(s)
                PROVE  Root(SubSeq(s, Shl(i, 0) + 1, Shl(i + 1, 0))) = Lev(s, 0)[i + 1]
    OBVIOUS
  <2> DEFINE c == i + 1
  <2>1. c \in Nat /\ 1 <= c /\ (c - c) + 1 = 1 /\ (c + 1) - 1 = c /\ c <= c + 1
    OBVIOUS
  <2>2. Shl(i, 0) = i /\ Shl(c, 0) = c /\ Lev(s, 0) = s
    BY <2>1, ShlStep, LevStep
  <2>. HIDE DEF c, G
  <2>3. c <= Len(s)
    BY <2>2 DEF c
  <2>4. SubSeq(s, c, c) \in Seq(Hashes) /\ Len(SubSeq(s, c, c)) = (c - c) + 1
        /\ \A j \in 1..((c - c) + 1) : SubSeq(s, c, c)[j] = s[(c + j) - 1]
    BY <2>1, <2>3, SubSeqIs
  <2>5. Len(SubSeq(s, c, c)) = 1 /\ SubSeq(s, c, c)[1] = s[c]
    BY <2>1, <2>4
  <2>6. Root(SubSeq(s, c, c)) = s[c]
    BY <2>4, <2>5, RootOfOne
  <2>. QED BY <2>2, <2>6 DEF c
<1>2. ASSUME NEW l \in Nat, l \in G PROVE l + 1 \in G
  <2>. SUFFICES ASSUME NEW s \in Seq(Hashes), NEW i \in Nat, Shl(i + 1, l + 1) <= Len(s)
                PROVE  Root(SubSeq(s, Shl(i, l + 1) + 1, Shl(i + 1, l + 1))) = Lev(s, l + 1)[i + 1]
    OBVIOUS
  <2> DEFINE a == Shl(i, l)
             b == Shl(i + 1, l)
  <2>1. a \in Nat /\ b \in Nat /\ Shl(i, l + 1) = 2 * a /\ Shl(i + 1, l + 1) = 2 * b
    <3> DEFINE c == i + 1
    <3>1. c \in Nat
      OBVIOUS
    <3>2. Shl(i, l) \in Nat /\ Shl(i, l + 1) = 2 * Shl(i, l)
      BY ShlStep
    <3>. HIDE DEF c
    <3>3. Shl(c, l) \in Nat /\ Shl(c, l + 1) = 2 * Shl(c, l)
      BY <3>1, ShlStep
    <3>. QED BY <3>2, <3>3 DEF c
  <2>2. a <= b
    <3>1. i + 1 \in Nat /\ i <= i + 1
      OBVIOUS
    <3>. QED BY <3>1, ShiftsMonotone
  <2> DEFINE p == SubSeq(s, 2 * a + 1, 2 * b)
             u == Up(s)
  <2>3. u \in Seq(Hashes) /\ Len(u) = (Len(s) + 1) \div 2
    BY UpType
  <2>4. Holds(l, u, i)
    <3>. HIDE DEF Holds, u
    <3>. QED BY <1>2, <2>3
  <2>. HIDE DEF a, b
  <2>5. Len(s) \in Nat /\ 2 * b <= Len(s)
    BY <2>1
  <2>6. p \in Seq(Hashes) /\ Up(p) = SubSeq(u, a + 1, b)
    <3>1. 2 * b \in Nat /\ 2 * a <= 2 * b /\ (2 * b) % 2 = 0 /\ (2 * b + 1) \div 2 = b
      BY <2>1, <2>2
    <3>2. p \in Seq(Hashes) /\ Up(p) = SubSeq(u, a + 1, (2 * b + 1) \div 2)
      BY <2>1, <2>5, <3>1, UpOfPart
    <3>. QED BY <3>1, <3>2
  <2>7. b <= Len(u)
    <3>. HIDE DEF u
    <3>. QED BY <2>1, <2>3, <2>5
  <2>8. Root(SubSeq(u, a + 1, b)) = Lev(u, l)[i + 1]
    <3>. HIDE DEF u, G
    <3>. QED BY <2>4, <2>7 DEF a, b
  <2>9. Root(p) = Lev(u, l)[i + 1]
    <3>. HIDE DEF u, p
    <3>. QED BY <2>6, <2>8, RootUp
  <2>10. Lev(u, l) = Lev(s, l + 1)
    BY LevFirst
  <2>. HIDE DEF u
  <2>. QED BY <2>1, <2>9, <2>10
<1>3. Nat \subseteq G
  <2>. HIDE DEF G
  <2>. QED BY <1>1, <1>2, SetInduction
<1>. QED BY <1>3 DEF nodeHash, Node

-----------------------------------------------------------------------------
(* The hashes of the nodes that a proof names.                             *)

NodeIds == [level : Nat, index : Nat]

\* What a node is.
LEMMA NodeIs ==
    ASSUME NEW l \in Nat, NEW i \in Nat
    PROVE  Node(l, i) \in NodeIds /\ Node(l, i).level = l /\ Node(l, i).index = i
BY DEF Node, NodeIds

\* The function that RangeNodes applies.
RangeNodesOf(n) ==
    LET ids[k \in Nat] ==
            IF k = 0 THEN <<>>
            ELSE IF Shr(n, k - 1) % 2 = 1 THEN <<Node(k - 1, Shr(n, k - 1) - 1)>> \o ids[k - 1]
            ELSE ids[k - 1]
    IN  ids

\* RangeNodes has at most one node of every level below, the largest first.
LEMMA RangeNodesStep ==
    ASSUME NEW n \in Nat
    PROVE  /\ \A l \in Nat : RangeNodes(n, l) \in Seq(NodeIds)
           /\ RangeNodes(n, 0) = <<>>
           /\ \A l \in Nat :
                 RangeNodes(n, l + 1) =
                    IF Shr(n, l) % 2 = 1 THEN <<Node(l, Shr(n, l) - 1)>> \o RangeNodes(n, l)
                    ELSE RangeNodes(n, l)
<1> DEFINE V == Seq(NodeIds)
           Next1(k, v) == IF Shr(n, k) % 2 = 1 THEN <<Node(k, Shr(n, k) - 1)>> \o v ELSE v
           step == [k \in Nat |-> [v \in V |-> Next1(k, v)]]
           Def(f) == f = [k \in Nat |-> IF k = 0 THEN <<>> ELSE Next1(k - 1, f[k - 1])]
           g == RangeNodesOf(n)
<1>1. ASSUME NEW k \in Nat, NEW v \in V PROVE Next1(k, v) \in V
  <2>1. CASE Shr(n, k) % 2 = 1
    <3>1. Shr(n, k) \in Nat
      BY ShrStep
    <3>2. Shr(n, k) - 1 \in Nat
      BY <2>1, <3>1
    <3>3. Node(k, Shr(n, k) - 1) \in NodeIds
      BY <3>2, NodeIs
    <3> DEFINE x == Node(k, Shr(n, k) - 1)
    <3>. HIDE DEF x
    <3>4. <<x>> \in V
      BY <3>3 DEF x
    <3>5. <<x>> \o v \in V
      BY <3>4
    <3>. QED BY <2>1, <3>5 DEF x
  <2>. QED BY <2>1
<1>. HIDE DEF Next1, V
<1>2. <<>> \in V
  BY DEF V
<1>3. Fits(V, <<>>, step)
  BY <1>1, <1>2 DEF Fits
<1>4. \E f : Def(f)
  <2>. HIDE DEF step
  <2>1. PICK f : f \in [Nat -> V] /\ Runs(f, <<>>, step)
    BY <1>3, RecursionExists
  <2>2. \A k \in Nat : f[k + 1] = Next1(k, f[k])
    BY <2>1 DEF Runs, step
  <2>3. \A k \in Nat : f[k] = IF k = 0 THEN <<>> ELSE Next1(k - 1, f[k - 1])
    BY <2>1, <2>2 DEF Runs
  <2>. QED BY <2>1, <2>3
<1>5. Def(g)
  BY <1>4 DEF RangeNodesOf, Next1
<1>6. ASSUME NEW f, Def(f) PROVE Obeys(f, V, <<>>, step)
  <2>1. f = [k \in Nat |-> f[k]]
    BY <1>6
  <2>2. f[0] = <<>> /\ \A k \in Nat : f[k + 1] = Next1(k, f[k])
    BY <1>6
  <2>. HIDE DEF Def
  <2>. QED BY <2>1, <2>2 DEF Obeys
<1>7. g \in [Nat -> V] /\ Runs(g, <<>>, step)
  <2>. HIDE DEF step, Def, g
  <2>. QED BY <1>3, <1>5, <1>6, RecursionRuns
<1>8. \A l : RangeNodes(n, l) = g[l]
  BY DEF RangeNodes, RangeNodesOf
<1>. HIDE DEF g
<1>9. \A k \in Nat : g[k] \in V /\ g[k + 1] = Next1(k, g[k])
  BY <1>7 DEF Runs
<1>10. g[0] = <<>>
  BY <1>7 DEF Runs
<1>. QED BY <1>8, <1>9, <1>10 DEF Next1, V

InTree(s, ids) == \A j \in 1..Len(ids) : ~ Outside(s, ids[j])

hashesOf(s, ids) == [j \in 1..Len(ids) |-> nodeHash(s, ids[j])]

\* A node inside the tree has a hash.
LEMMA NodeHashType ==
    ASSUME NEW s \in Seq(Hashes), NEW id \in NodeIds, ~ Outside(s, id)
    PROVE  nodeHash(s, id) \in Hashes
<1> DEFINE i == id.index
           l == id.level
           a == Shl(i, l)
           b == Shl(i + 1, l)
<1>1. i \in Nat /\ l \in Nat /\ i + 1 \in Nat /\ i <= i + 1
  BY DEF NodeIds
<1>2. a \in Nat /\ b \in Nat /\ a <= b
  <2>. HIDE DEF i, l
  <2>. QED BY <1>1, ShlStep, ShiftsMonotone
<1>3. b <= Len(s)
  BY <1>2 DEF Outside
<1>. HIDE DEF a, b
<1>4. SubSeq(s, a + 1, b) \in Seq(Hashes)
  <2>1. a + 1 \in Nat /\ 1 <= a + 1 /\ a + 1 <= b + 1
    BY <1>2
  <2>. QED BY <1>2, <1>3, <2>1, SubSeqIs
<1>. QED BY <1>4, RootType DEF nodeHash, a, b

\* A list of them has the list of their hashes.
LEMMA HashesOfType ==
    ASSUME NEW s \in Seq(Hashes), NEW ids \in Seq(NodeIds), InTree(s, ids)
    PROVE  /\ hashesOf(s, ids) \in Seq(Hashes)
           /\ Len(hashesOf(s, ids)) = Len(ids)
           /\ \A j \in 1..Len(ids) : hashesOf(s, ids)[j] = nodeHash(s, ids[j])
<1>1. Len(ids) \in Nat /\ \A j \in 1..Len(ids) : ids[j] \in NodeIds
  OBVIOUS
<1>2. \A j \in 1..Len(ids) : nodeHash(s, ids[j]) \in Hashes
  BY <1>1, NodeHashType DEF InTree
<1>. QED BY <1>1, <1>2 DEF hashesOf

\* One node more in front.
LEMMA HashesOfCons ==
    ASSUME NEW s \in Seq(Hashes), NEW id \in NodeIds, NEW ids \in Seq(NodeIds),
           ~ Outside(s, id), InTree(s, ids)
    PROVE  /\ <<id>> \o ids \in Seq(NodeIds) /\ <<id>> \o ids # <<>>
           /\ InTree(s, <<id>> \o ids)
           /\ hashesOf(s, <<id>> \o ids) = <<nodeHash(s, id)>> \o hashesOf(s, ids)
<1> DEFINE c == <<id>> \o ids
           x == nodeHash(s, id)
           h == hashesOf(s, ids)
           d == <<x>> \o h
           e == hashesOf(s, c)
           n == Len(ids)
<1>0. n \in Nat
  OBVIOUS
<1>1. c \in Seq(NodeIds) /\ Len(c) = 1 + n /\ c[1] = id /\ \A j \in 1..n : c[1 + j] = ids[j]
  OBVIOUS
<1>2. x \in Hashes /\ h \in Seq(Hashes) /\ Len(h) = n /\ \A j \in 1..n : h[j] = nodeHash(s, ids[j])
  BY NodeHashType, HashesOfType
<1>. HIDE DEF c, x, h, n
<1>3. d \in Seq(Hashes) /\ Len(d) = 1 + n /\ d[1] = x /\ \A j \in 1..n : d[1 + j] = h[j]
  BY <1>0, <1>2
<1>4. \A j \in 1..(1 + n) : j = 1 \/ (j - 1 \in 1..n /\ 1 + (j - 1) = j)
  BY <1>0
<1>5. InTree(s, c)
  <2>1. ~ Outside(s, c[1])
    BY <1>1
  <2>2. \A j \in 1..n : ~ Outside(s, c[1 + j])
    BY <1>1 DEF InTree, n
  <2>3. ASSUME NEW j \in 1..(1 + n) PROVE ~ Outside(s, c[j])
    BY <1>4, <2>1, <2>2
  <2>. QED BY <1>1, <2>3 DEF InTree
<1>6. e \in Seq(Hashes) /\ Len(e) = 1 + n /\ \A j \in 1..(1 + n) : e[j] = nodeHash(s, c[j])
  BY <1>1, <1>5, HashesOfType
<1>. HIDE DEF d, e
<1>7. ASSUME NEW j \in 1..(1 + n) PROVE e[j] = d[j]
  <2>1. CASE j = 1
    BY <1>1, <1>3, <1>6, <2>1 DEF x
  <2>2. CASE j - 1 \in 1..n /\ 1 + (j - 1) = j
    <3> DEFINE k == j - 1
    <3>1. k \in 1..n /\ j = 1 + k
      BY <2>2
    <3>. HIDE DEF k
    <3>. QED BY <1>1, <1>2, <1>3, <1>6, <3>1
  <2>. QED BY <1>4, <2>1, <2>2
<1>8. e = d
  BY <1>3, <1>6, <1>7, SameEntries
<1>9. c # <<>>
  BY <1>0, <1>1
<1>. QED BY <1>1, <1>5, <1>8, <1>9 DEF c, d, e, x, h

\* The subtrees below a level that make up its last node, if that is not perfect.
Edge(s, l) ==
    /\ InTree(s, RangeNodes(Len(s), l))
    /\ \/ RangeNodes(Len(s), l) = <<>> /\ Len(Lev(s, l)) = Shr(Len(s), l)
       \/ /\ RangeNodes(Len(s), l) # <<>>
          /\ Len(Lev(s, l)) = Shr(Len(s), l) + 1
          /\ Collapse(hashesOf(s, RangeNodes(Len(s), l))) = Lev(s, l)[Shr(Len(s), l) + 1]

\* They collapse to the hash the level has there.
LEMMA EdgeOfLevel ==
    ASSUME NEW s \in Seq(Hashes)
    PROVE  \A l \in Nat : Edge(s, l)
<1> DEFINE n == Len(s)
           G == {l \in Nat : Edge(s, l)}
<1>0. n \in Nat
  OBVIOUS
<1>1. 0 \in G
  <2>1. RangeNodes(n, 0) = <<>> /\ Lev(s, 0) = s /\ Shr(n, 0) = n
    BY <1>0, RangeNodesStep, LevStep, ShrStep
  <2>2. InTree(s, <<>>)
    BY DEF InTree
  <2>. QED BY <2>1, <2>2 DEF Edge
<1>2. ASSUME NEW l \in Nat, l \in G PROVE l + 1 \in G
  <2> DEFINE ids == RangeNodes(n, l)
             v == Lev(s, l)
             u == Up(v)
             q == Shr(n, l)
             h == hashesOf(s, ids)
  <2>1. /\ InTree(s, ids)
        /\ \/ ids = <<>> /\ Len(v) = q
           \/ ids # <<>> /\ Len(v) = q + 1 /\ Collapse(h) = v[q + 1]
    BY <1>2 DEF Edge
  <2>2. /\ ids \in Seq(NodeIds)
        /\ RangeNodes(n, l + 1) = IF q % 2 = 1 THEN <<Node(l, q - 1)>> \o ids ELSE ids
    BY <1>0, RangeNodesStep
  <2>3. q \in Nat /\ Shr(n, l + 1) = q \div 2
    BY <1>0, ShrStep
  <2>4. v \in Seq(Hashes) /\ Lev(s, l + 1) = u
    BY LevStep
  <2>5. u \in Seq(Hashes) /\ Len(u) = (Len(v) + 1) \div 2
        /\ \A i \in 1..((Len(v) + 1) \div 2) :
              u[i] = IF 2 * i <= Len(v) THEN HashChildren(v[2 * i - 1], v[2 * i]) ELSE v[2 * i - 1]
    BY <2>4, UpType
  <2>6. h \in Seq(Hashes) /\ Len(h) = Len(ids)
    BY <2>1, <2>2, HashesOfType
  <2>7. ASSUME q % 2 = 1
        PROVE  /\ q - 1 \in Nat /\ Node(l, q - 1) \in NodeIds
               /\ ~ Outside(s, Node(l, q - 1))
               /\ nodeHash(s, Node(l, q - 1)) = v[q] /\ v[q] \in Hashes
    <3>0. q - 1 \in Nat /\ (q - 1) + 1 = q
      BY <2>3, <2>7
    <3>1. Shl(q, l) <= n
      BY <1>0, <2>3, ShiftsAdjoint
    <3>2. Shl(q, l) \in Nat
      BY <2>3, ShlStep
    <3>3. nodeHash(s, Node(l, q - 1)) = Lev(s, l)[(q - 1) + 1]
      <4>1. Shl((q - 1) + 1, l) <= Len(s)
        BY <3>0, <3>1
      <4> DEFINE r == q - 1
      <4>. HIDE DEF r
      <4>2. r \in Nat /\ Shl(r + 1, l) <= Len(s)
        BY <3>0, <4>1 DEF r
      <4>3. nodeHash(s, Node(l, r)) = Lev(s, l)[r + 1]
        BY <4>2, NodeOfLevel
      <4>. QED BY <4>3 DEF r
    <3>4. Node(l, q - 1) \in NodeIds /\ Node(l, q - 1).level = l /\ Node(l, q - 1).index = q - 1
      BY <3>0, NodeIs
    <3>5. ~ Outside(s, Node(l, q - 1))
      <4>1. Outside(s, Node(l, q - 1)) <=> Shl(q, l) > Len(s)
        BY <3>0, <3>4 DEF Outside
      <4>. QED BY <1>0, <3>1, <3>2, <4>1
    <3>6. nodeHash(s, Node(l, q - 1)) \in Hashes
      BY <3>4, <3>5, NodeHashType
    <3>. QED BY <3>0, <3>3, <3>4, <3>5, <3>6
  <2>. HIDE DEF ids, v, u, h, q
  <2>8. SUFFICES /\ InTree(s, RangeNodes(n, l + 1))
                 /\ \/ RangeNodes(n, l + 1) = <<>> /\ Len(u) = q \div 2
                    \/ /\ RangeNodes(n, l + 1) # <<>>
                       /\ Len(u) = q \div 2 + 1
                       /\ Collapse(hashesOf(s, RangeNodes(n, l + 1))) = u[q \div 2 + 1]
    BY <2>3, <2>4 DEF Edge
  <2>9. CASE q % 2 = 1
    <3> DEFINE id == Node(l, q - 1)
               new == <<id>> \o ids
    <3>1. RangeNodes(n, l + 1) = new
      BY <2>2, <2>9
    <3>2. /\ new # <<>> /\ InTree(s, new)
          /\ hashesOf(s, new) = <<v[q]>> \o h
      <4>1. id \in NodeIds /\ ~ Outside(s, id) /\ nodeHash(s, id) = v[q]
        BY <2>7, <2>9
      <4>. HIDE DEF id, new
      <4>2. /\ <<id>> \o ids # <<>> /\ InTree(s, <<id>> \o ids)
            /\ hashesOf(s, <<id>> \o ids) = <<nodeHash(s, id)>> \o hashesOf(s, ids)
        BY <2>1, <2>2, <4>1, HashesOfCons
      <4>3. hashesOf(s, <<id>> \o ids) = <<v[q]>> \o h
        BY <4>1, <4>2 DEF h
      <4>. QED BY <4>2, <4>3 DEF new
    <3>. HIDE DEF new
    <3>3. Len(u) = q \div 2 + 1 /\ q \div 2 + 1 \in 1..((Len(v) + 1) \div 2)
          /\ 2 * (q \div 2 + 1) - 1 = q /\ 2 * (q \div 2 + 1) = q + 1
      <4>1. \A x \in {q, q + 1} : (x + 1) \div 2 = q \div 2 + 1
        BY <2>3, <2>9
      <4>2. (Len(v) + 1) \div 2 = q \div 2 + 1
        BY <2>1, <4>1
      <4>3. 2 * (q \div 2 + 1) - 1 = q /\ 2 * (q \div 2 + 1) = q + 1
            /\ q \div 2 + 1 \in 1..(q \div 2 + 1)
        BY <2>3, <2>9
      <4>. QED BY <2>5, <4>2, <4>3
    <3>4. CASE ids = <<>> /\ Len(v) = q
      <4>1. h = <<>>
        BY <2>6, <3>4
      <4>2. <<v[q]>> \o h = <<v[q]>>
        BY <2>7, <2>9, <4>1
      <4>3. u[q \div 2 + 1] = v[q]
        <5>1. ~ (2 * (q \div 2 + 1) <= Len(v))
          BY <2>3, <3>3, <3>4
        <5>. QED BY <2>5, <3>3, <5>1
      <4>4. Collapse(<<v[q]>>) = v[q]
        BY <2>7, <2>9, CollapseOne
      <4>. QED BY <3>1, <3>2, <3>3, <4>2, <4>3, <4>4
    <3>5. CASE ids # <<>> /\ Len(v) = q + 1 /\ Collapse(h) = v[q + 1]
      <4>1. h # <<>>
        BY <2>2, <2>6, <3>5
      <4>2. Collapse(<<v[q]>> \o h) = HashChildren(v[q], v[q + 1])
        BY <2>6, <2>7, <2>9, <3>5, <4>1, CollapseFirst
      <4>3. u[q \div 2 + 1] = HashChildren(v[q], v[q + 1])
        <5>1. 2 * (q \div 2 + 1) <= Len(v)
          BY <2>3, <3>3, <3>5
        <5>. QED BY <2>5, <3>3, <5>1
      <4>. QED BY <3>1, <3>2, <3>3, <4>2, <4>3
    <3>. QED BY <2>1, <3>4, <3>5
  <2>10. CASE q % 2 = 0
    <3>1. RangeNodes(n, l + 1) = ids
      BY <2>2, <2>10
    <3>2. CASE ids = <<>> /\ Len(v) = q
      <4>1. Len(u) = q \div 2
        BY <2>3, <2>5, <2>10, <3>2
      <4>. QED BY <2>1, <3>1, <3>2, <4>1
    <3>3. CASE ids # <<>> /\ Len(v) = q + 1 /\ Collapse(h) = v[q + 1]
      <4>1. Len(u) = q \div 2 + 1 /\ q \div 2 + 1 \in 1..((Len(v) + 1) \div 2)
            /\ 2 * (q \div 2 + 1) - 1 = q + 1 /\ ~ (2 * (q \div 2 + 1) <= Len(v))
        BY <2>3, <2>5, <2>10, <3>3
      <4>2. u[q \div 2 + 1] = v[q + 1]
        BY <2>5, <4>1
      <4>. QED BY <2>1, <3>1, <3>3, <4>1, <4>2 DEF h
    <3>. QED BY <2>1, <3>2, <3>3
  <2>. QED BY <2>3, <2>9, <2>10
<1>3. Nat \subseteq G
  <2>. HIDE DEF G
  <2>. QED BY <1>1, <1>2, SetInduction
<1>. QED BY <1>3

\* The lists of nodes inside the tree that stand for one hash.
Groups(s) == {g \in Seq(NodeIds) : InTree(s, g) /\ Collapse(hashesOf(s, g)) \in Hashes}

\* The group g of nodes of the tree over s has the hash x.
Gives(s, g, x) == g \in Groups(s) /\ Collapse(hashesOf(s, g)) = x

\* A node inside the tree stands for the hash its level has there.
LEMMA SingleGives ==
    ASSUME NEW s \in Seq(Hashes), NEW l \in Nat, NEW i \in Nat, Shl(i + 1, l) <= Len(s)
    PROVE  Gives(s, <<Node(l, i)>>, Lev(s, l)[i + 1])
<1> DEFINE id == Node(l, i)
           x == nodeHash(s, id)
           g == <<id>>
<1>1. x = Lev(s, l)[i + 1]
  BY NodeOfLevel
<1>2. id \in NodeIds /\ id.level = l /\ id.index = i
  BY NodeIs
<1>3. ~ Outside(s, id)
  <2>1. Shl(i + 1, l) \in Nat
    <3> DEFINE c == i + 1
    <3>1. c \in Nat
      OBVIOUS
    <3>. HIDE DEF c
    <3>2. Shl(c, l) \in Nat
      BY <3>1, ShlStep
    <3>. QED BY <3>2 DEF c
  <2>2. Len(s) \in Nat
    OBVIOUS
  <2>3. Outside(s, id) <=> Shl(i + 1, l) > Len(s)
    BY <1>2 DEF Outside
  <2>. QED BY <2>1, <2>2, <2>3
<1>. HIDE DEF id
<1>4. x \in Hashes
  BY <1>2, <1>3, NodeHashType
<1>5. g \in Seq(NodeIds) /\ Len(g) = 1 /\ g[1] = id
  BY <1>2
<1>6. InTree(s, g)
  BY <1>3, <1>5 DEF InTree
<1>7. hashesOf(s, g) = <<x>>
  <2>1. hashesOf(s, g) \in Seq(Hashes) /\ Len(hashesOf(s, g)) = 1 /\ hashesOf(s, g)[1] = x
    <3>. HIDE DEF g
    <3>. QED BY <1>5, <1>6, HashesOfType
  <2>. HIDE DEF x, g
  <2>. QED BY <2>1
<1>8. Collapse(<<x>>) = x
  BY <1>4, CollapseOne
<1>. HIDE DEF g, x
<1>9. Gives(s, g, x)
  BY <1>4, <1>5, <1>6, <1>7, <1>8 DEF Gives, Groups
<1>. QED BY <1>1, <1>9 DEF g, id

\* A node of a level, or what stands for it at the right edge, has the hash the
\* level has there.
LEMMA ResolveGives ==
    ASSUME NEW s \in Seq(Hashes), NEW l \in Nat, NEW i \in Nat, i < Len(Lev(s, l))
    PROVE  Gives(s, Resolve(Len(s), Node(l, i)), Lev(s, l)[i + 1])
<1> DEFINE n == Len(s)
           id == Node(l, i)
           q == Shr(n, l)
           v == Lev(s, l)
           ids == RangeNodes(n, l)
<1>0. n \in Nat /\ i + 1 \in Nat
  OBVIOUS
<1>1. Resolve(n, id) = IF Shl(i + 1, l) <= n THEN <<id>> ELSE ids
  BY NodeIs DEF Resolve
<1>2. CASE Shl(i + 1, l) <= n
  BY <1>1, <1>2, SingleGives
<1>3. CASE ~ (Shl(i + 1, l) <= n)
  <2>1. q \in Nat /\ ~ (i + 1 <= q)
    <3>1. q \in Nat
      BY <1>0, ShrStep
    <3> DEFINE c == i + 1
    <3>. HIDE DEF c
    <3>2. c \in Nat /\ ~ (Shl(c, l) <= n)
      BY <1>0, <1>3 DEF c
    <3>. HIDE DEF n, q
    <3>3. ~ (c <= q)
      BY <1>0, <3>2, ShiftsAdjoint DEF q
    <3>. QED BY <3>1, <3>3 DEF c
  <2>2. Edge(s, l)
    BY EdgeOfLevel
  <2>3. v \in Seq(Hashes)
    BY LevStep
  <2>4. /\ InTree(s, ids)
        /\ \/ ids = <<>> /\ Len(v) = q
           \/ ids # <<>> /\ Len(v) = q + 1 /\ Collapse(hashesOf(s, ids)) = v[q + 1]
    BY <2>2 DEF Edge
  <2>5. ids \in Seq(NodeIds)
    BY <1>0, RangeNodesStep
  <2>6. i < Len(v) /\ Len(v) \in Nat
    BY <2>3
  <2>. HIDE DEF ids, v, q
  <2>7. Len(v) # q
    BY <2>1, <2>6
  <2>8. Len(v) = q + 1 /\ Collapse(hashesOf(s, ids)) = v[q + 1]
    BY <2>4, <2>7
  <2>9. i = q
    BY <2>1, <2>6, <2>8
  <2>10. v[i + 1] \in Hashes
    BY <2>3, <2>6, <2>8, <2>9
  <2>11. Gives(s, ids, v[i + 1])
    BY <2>4, <2>5, <2>8, <2>9, <2>10 DEF Gives, Groups
  <2>. QED BY <1>1, <1>3, <2>11 DEF v
<1>. QED BY <1>2, <1>3

\* What the siblings of the nodes above leaf m - 1 are.
LEMMA SiblingsGive ==
    ASSUME NEW s \in Seq(Hashes), NEW m \in Nat, 0 < m, m < Len(s), NEW l \in Nat
    PROVE  LET f == Shr(m - 1, l)
               g == Shr(Len(s) - 1, l)
               sib == Siblings(m, Len(s), l)
           IN  /\ f \in Nat /\ g \in Nat /\ f <= g
               /\ f % 2 = 1 => \E x : sib = <<x>> /\ Gives(s, x, Lev(s, l)[f])
               /\ f % 2 = 0 /\ f < g => \E x : sib = <<x>> /\ Gives(s, x, Lev(s, l)[f + 2])
               /\ f % 2 = 0 /\ f >= g => sib = <<>>
<1> DEFINE n == Len(s)
           a == m - 1
           b == n - 1
           f == Shr(a, l)
           g == Shr(b, l)
           sib == Siblings(m, n, l)
<1>0. n \in Nat /\ a \in Nat /\ b \in Nat /\ a <= b /\ a < n /\ s # <<>>
  OBVIOUS
<1>. HIDE DEF a, b
<1>1. f \in Nat /\ g \in Nat /\ f <= g
  BY <1>0, ShrStep, ShiftsMonotone
<1>2. sib = CASE f % 2 = 1            -> <<<<Node(l, f - 1)>>>>
              [] f % 2 = 0 /\ f < g  -> <<Resolve(n, Node(l, f + 1))>>
              [] f % 2 = 0 /\ f >= g -> <<>>
  BY DEF Siblings, a, b
<1>3. Len(Lev(s, l)) = g + 1
  BY <1>0, LevLen DEF b
<1>. HIDE DEF f, g, sib
<1>4. ASSUME f % 2 = 1 PROVE \E x : sib = <<x>> /\ Gives(s, x, Lev(s, l)[f])
  <2> DEFINE i == f - 1
  <2>1. i \in Nat /\ i + 1 = f
    BY <1>1, <1>4
  <2>. HIDE DEF i
  <2>2. Shl(f, l) <= a /\ Shl(f, l) \in Nat
    <3>1. f <= Shr(a, l)
      BY <1>1 DEF f
    <3>2. Shl(f, l) <= a
      BY <1>0, <1>1, <3>1, ShiftsAdjoint
    <3>3. Shl(f, l) \in Nat
      BY <1>1, ShlStep
    <3>. QED BY <3>2, <3>3
  <2>3. Shl(i + 1, l) <= Len(s)
    BY <1>0, <2>1, <2>2
  <2>4. Gives(s, <<Node(l, i)>>, Lev(s, l)[i + 1])
    BY <2>1, <2>3, SingleGives
  <2>5. Gives(s, <<Node(l, i)>>, Lev(s, l)[f])
    BY <2>1, <2>4
  <2>6. sib = <<<<Node(l, i)>>>>
    <3>1. ~ (f % 2 = 0)
      BY <1>1, <1>4
    <3>. QED BY <1>2, <1>4, <3>1 DEF i
  <2> DEFINE x == <<Node(l, i)>>
  <2>. HIDE DEF x
  <2>. QED BY <2>5, <2>6 DEF x
<1>5. ASSUME f % 2 = 0 /\ f < g PROVE \E x : sib = <<x>> /\ Gives(s, x, Lev(s, l)[f + 2])
  <2> DEFINE i == f + 1
             x == Resolve(n, Node(l, i))
  <2>1. i \in Nat /\ i + 1 = f + 2 /\ i < Len(Lev(s, l))
    BY <1>1, <1>3, <1>5
  <2>2. sib = <<x>>
    <3>1. ~ (f % 2 = 1) /\ ~ (f >= g)
      BY <1>1, <1>5
    <3>. QED BY <1>2, <1>5, <3>1
  <2>. HIDE DEF i
  <2>3. Gives(s, x, Lev(s, l)[i + 1])
    BY <2>1, ResolveGives
  <2>. HIDE DEF x
  <2>. QED BY <2>1, <2>2, <2>3
<1>6. ASSUME f % 2 = 0 /\ f >= g PROVE sib = <<>>
  <2>1. ~ (f % 2 = 1) /\ ~ (f < g)
    BY <1>1, <1>6
  <2>. QED BY <1>2, <1>6, <2>1
<1>. QED BY <1>1, <1>4, <1>5, <1>6 DEF f, g, a, b, sib

-----------------------------------------------------------------------------
(* The proof a client computes.                                            *)

\* The nodes a proof starts with, and the function that Consistency applies.
Begin(m) ==
    IF Shr(m - 1, TrailingZeros(m)) = 0 THEN <<>>
    ELSE <<<<Node(TrailingZeros(m), Shr(m - 1, TrailingZeros(m)))>>>>

ConsistencyOf(m, n) ==
    LET level == TrailingZeros(m)
        start == IF Shr(m - 1, level) = 0 THEN <<>>
                 ELSE <<<<Node(level, Shr(m - 1, level))>>>>
        ids[k \in Nat] == IF k = 0 THEN start
                          ELSE ids[k - 1] \o Siblings(m, n, level + k - 1)
    IN  ids

\* Consistency goes up level by level, and all nodes it names are inside the tree.
LEMMA ConsistencyStep ==
    ASSUME NEW s \in Seq(Hashes), NEW m \in Nat, 0 < m, m < Len(s)
    PROVE  LET c == ConsistencyOf(m, Len(s))
           IN  /\ c \in [Nat -> Seq(Groups(s))]
               /\ c[0] = Begin(m)
               /\ \A k \in Nat : /\ Siblings(m, Len(s), TrailingZeros(m) + k) \in Seq(Groups(s))
                                 /\ c[k + 1] = c[k] \o Siblings(m, Len(s), TrailingZeros(m) + k)
               /\ Consistency(m, Len(s)) = c[Len(s)]
<1> DEFINE n == Len(s)
           V == Seq(Groups(s))
           z == TrailingZeros(m)
           sib(k) == Siblings(m, n, z + k)
           More(k, v) == v \o sib(k)
           step == [k \in Nat |-> [v \in V |-> More(k, v)]]
           Def(f) == f = [k \in Nat |-> IF k = 0 THEN Begin(m) ELSE More(k - 1, f[k - 1])]
           c == ConsistencyOf(m, n)
<1>0. z \in Nat /\ Shl(Shr(m - 1, z) + 1, z) = m /\ m - 1 \in Nat /\ m <= Len(s)
  BY SubtreeEnds
<1>1. ASSUME NEW g \in Groups(s) PROVE <<g>> \in V
  OBVIOUS
<1>2. Begin(m) \in V
  <2>1. CASE Shr(m - 1, z) = 0
    BY <2>1 DEF Begin
  <2>2. CASE Shr(m - 1, z) # 0
    <3>1. Shr(m - 1, z) \in Nat
      BY <1>0, ShrStep
    <3> DEFINE i == Shr(m - 1, z)
    <3>2. i \in Nat /\ Shl(i + 1, z) <= Len(s)
      BY <1>0, <3>1
    <3>. HIDE DEF i, z
    <3>3. Gives(s, <<Node(z, i)>>, Lev(s, z)[i + 1])
      BY <1>0, <3>2, SingleGives
    <3>4. <<Node(z, i)>> \in Groups(s)
      BY <3>3 DEF Gives
    <3>5. <<<<Node(z, i)>>>> \in V
      BY <1>1, <3>4
    <3>. QED BY <2>2, <3>5 DEF Begin, i, z
  <2>. QED BY <2>1, <2>2
<1>3. ASSUME NEW k \in Nat PROVE sib(k) \in V
  <2> DEFINE l == z + k
             f == Shr(m - 1, l)
             g == Shr(n - 1, l)
  <2>1. l \in Nat
    BY <1>0
  <2>. HIDE DEF l
  <2>2. /\ f \in Nat /\ g \in Nat /\ f <= g
        /\ f % 2 = 1 => \E x : Siblings(m, n, l) = <<x>> /\ Gives(s, x, Lev(s, l)[f])
        /\ f % 2 = 0 /\ f < g => \E x : Siblings(m, n, l) = <<x>> /\ Gives(s, x, Lev(s, l)[f + 2])
        /\ f % 2 = 0 /\ f >= g => Siblings(m, n, l) = <<>>
    BY <2>1, SiblingsGive
  <2>. HIDE DEF f, g, n
  <2>3. Siblings(m, n, l) = <<>> \/ \E x : Siblings(m, n, l) = <<x>> /\ x \in Groups(s)
    <3>1. (f % 2 = 1) \/ (f % 2 = 0 /\ f < g) \/ (f % 2 = 0 /\ f >= g)
      BY <2>2
    <3>. QED BY <2>2, <3>1 DEF Gives
  <2>4. Siblings(m, n, l) \in V
    <3>1. <<>> \in V
      OBVIOUS
    <3>. HIDE DEF V
    <3>. QED BY <1>1, <2>3, <3>1
  <2>. QED BY <2>4 DEF l
<1>. HIDE DEF n
<1>4. ASSUME NEW v \in V, NEW k \in Nat PROVE More(k, v) \in V
  <2> DEFINE b == sib(k)
  <2>1. b \in V
    BY <1>3
  <2>. HIDE DEF b
  <2>2. v \o b \in V
    BY <2>1
  <2>. QED BY <2>2 DEF b
<1>. HIDE DEF sib, V, More
<1>5. Fits(V, Begin(m), step)
  BY <1>2, <1>4 DEF Fits
<1>6. \E f : Def(f)
  <2>. HIDE DEF step
  <2>1. PICK f : f \in [Nat -> V] /\ Runs(f, Begin(m), step)
    BY <1>5, RecursionExists
  <2>2. \A k \in Nat : f[k + 1] = More(k, f[k])
    BY <2>1 DEF Runs, step
  <2>3. \A k \in Nat : f[k] = IF k = 0 THEN Begin(m) ELSE More(k - 1, f[k - 1])
    BY <2>1, <2>2 DEF Runs
  <2>. QED BY <2>1, <2>3
<1>7. Def(c)
  <2>1. \A k \in Nat : k # 0 => sib(k - 1) = Siblings(m, n, z + k - 1)
    <3>1. \A k \in Nat : z + (k - 1) = z + k - 1
      BY <1>0
    <3>. HIDE DEF z
    <3>. QED BY <3>1 DEF sib
  <2> DEFINE Def2(f) == f = [k \in Nat |-> IF k = 0 THEN Begin(m) ELSE f[k - 1] \o Siblings(m, n, z + k - 1)]
  <2>2. \A f : Def(f) <=> Def2(f)
    <3>1. \A f : \A k \in Nat : k # 0 =>
             More(k - 1, f[k - 1]) = f[k - 1] \o Siblings(m, n, z + k - 1)
      BY <2>1 DEF More
    <3>. HIDE DEF z
    <3>. QED BY <3>1
  <2>3. c = CHOOSE f : Def2(f)
    BY DEF ConsistencyOf, Begin
  <2>. HIDE DEF Def, Def2, c
  <2>. QED BY <1>6, <2>2, <2>3
<1>8. ASSUME NEW f, Def(f) PROVE Obeys(f, V, Begin(m), step)
  <2>1. f = [k \in Nat |-> f[k]]
    BY <1>8
  <2>2. f[0] = Begin(m) /\ \A k \in Nat : f[k + 1] = More(k, f[k])
    BY <1>8
  <2>. HIDE DEF Def
  <2>. QED BY <2>1, <2>2 DEF Obeys
<1>9. c \in [Nat -> V] /\ Runs(c, Begin(m), step)
  <2>. HIDE DEF step, Def, c
  <2>. QED BY <1>5, <1>7, <1>8, RecursionRuns
<1>10. Consistency(m, n) = c[n]
  BY DEF Consistency, ConsistencyOf
<1>. HIDE DEF c, z
<1>11. \A k \in Nat : c[k] \in V /\ c[k + 1] = More(k, c[k])
  BY <1>9 DEF Runs
<1>12. c[0] = Begin(m)
  BY <1>9 DEF Runs
<1>. QED BY <1>3, <1>9, <1>10, <1>11, <1>12 DEF V, More, sib, c, n, z

\* c[k] is what c starts with and the first k parts of d.
Grows(V, c, d) ==
    /\ c \in [Nat -> Seq(V)] /\ d \in [Nat -> Seq(V)]
    /\ \A k \in Nat : c[k + 1] = c[k] \o d[k]

\* The nodes of the levels below come first.
LEMMA ConsistencyGrows ==
    ASSUME NEW V, NEW c, NEW d, Grows(V, c, d)
    PROVE  \A j \in Nat, k \in Nat :
              j <= k => Len(c[j]) <= Len(c[k]) /\ \A i \in 1..Len(c[j]) : c[k][i] = c[j][i]
<1>. SUFFICES ASSUME NEW j \in Nat
              PROVE  \A k \in Nat :
                        j <= k => Len(c[j]) <= Len(c[k]) /\ \A i \in 1..Len(c[j]) : c[k][i] = c[j][i]
  OBVIOUS
<1> DEFINE Holds(k) == j <= k => Len(c[j]) <= Len(c[k]) /\ \A i \in 1..Len(c[j]) : c[k][i] = c[j][i]
           G == {k \in Nat : Holds(k)}
<1>0. \A k \in Nat : c[k] \in Seq(V) /\ Len(c[k]) \in Nat /\ d[k] \in Seq(V) /\ Len(d[k]) \in Nat
  BY DEF Grows
<1>1. Holds(j)
  BY <1>0
<1>2. 0 \in G
  <2>1. CASE j = 0
    BY <1>1, <2>1
  <2>2. CASE j # 0
    BY <2>2
  <2>. QED BY <2>1, <2>2
<1>3. ASSUME NEW k \in Nat, k \in G PROVE k + 1 \in G
  <2>1. CASE j = k + 1
    BY <1>1, <2>1
  <2>2. CASE j <= k
    <3> DEFINE a == c[k]
               b == d[k]
    <3>1. a \in Seq(V) /\ b \in Seq(V) /\ Len(a) \in Nat /\ Len(b) \in Nat /\ Len(c[j]) \in Nat
      BY <1>0
    <3>2. c[k + 1] = a \o b
      BY DEF Grows
    <3>3. Len(c[j]) <= Len(a) /\ \A i \in 1..Len(c[j]) : a[i] = c[j][i]
      BY <1>3, <2>2
    <3>. HIDE DEF a, b
    <3>4. Len(a \o b) = Len(a) + Len(b) /\ \A i \in 1..(Len(a) + Len(b)) :
              (a \o b)[i] = IF i <= Len(a) THEN a[i] ELSE b[i - Len(a)]
      BY <3>1, ConcatEntries
    <3>5. Len(c[j]) <= Len(a \o b)
      BY <3>1, <3>3, <3>4
    <3>6. ASSUME NEW i \in 1..Len(c[j]) PROVE (a \o b)[i] = c[j][i]
      <4>1. i \in 1..(Len(a) + Len(b)) /\ i <= Len(a)
        <5>1. \A x, y, w \in Nat : x <= y => \A e \in 1..x : e \in 1..(y + w) /\ e <= y
          OBVIOUS
        <5>. QED BY <3>1, <3>3, <5>1
      <4>. QED BY <3>3, <3>4, <4>1
    <3>7. Holds(k + 1)
      BY <3>2, <3>5, <3>6
    <3>. QED BY <3>7
  <2>3. CASE ~ (j <= k + 1)
    BY <2>3
  <2>4. j <= k \/ j = k + 1 \/ ~ (j <= k + 1)
    OBVIOUS
  <2>. QED BY <2>1, <2>2, <2>3, <2>4
<1>4. Nat \subseteq G
  <2>. HIDE DEF G
  <2>. QED BY <1>2, <1>3, SetInduction
<1>. QED BY <1>4

\* The hashes of those nodes.
ProofOf(s, m) ==
    [i \in 1..Len(Consistency(m, Len(s))) |-> Collapse(hashesOf(s, Consistency(m, Len(s))[i]))]

\* Proof generation only asks for nodes inside the tree, so it succeeds.
LEMMA ProofExists ==
    ASSUME NEW s \in Seq(Hashes), NEW m \in Nat, 0 < m, m < Len(s)
    PROVE  /\ ConsistencyProof(s, m) = {ProofOf(s, m)}
           /\ ProofOf(s, m) \in Seq(Hashes)
           /\ Len(ProofOf(s, m)) = Len(ConsistencyOf(m, Len(s))[Len(s)])
           /\ \A i \in 1..Len(ProofOf(s, m)) :
                 ProofOf(s, m)[i] = Collapse(hashesOf(s, ConsistencyOf(m, Len(s))[Len(s)][i]))
<1> DEFINE n == Len(s)
           ids == Consistency(m, n)
           p == ProofOf(s, m)
<1>0. n \in Nat
  OBVIOUS
<1>1. ids = ConsistencyOf(m, n)[n] /\ ids \in Seq(Groups(s))
  BY <1>0, ConsistencyStep
<1>. HIDE DEF ids
<1>2. Len(ids) \in Nat /\ \A i \in 1..Len(ids) : ids[i] \in Groups(s)
  BY <1>1
<1>3. p = [i \in 1..Len(ids) |-> Collapse(hashesOf(s, ids[i]))]
  BY DEF ProofOf, ids
<1>4. \A i \in 1..Len(ids) : Collapse(hashesOf(s, ids[i])) \in Hashes
  BY <1>2 DEF Groups
<1>. HIDE DEF p
<1>5. p \in Seq(Hashes) /\ Len(p) = Len(ids) /\ \A i \in 1..Len(ids) : p[i] = Collapse(hashesOf(s, ids[i]))
  BY <1>2, <1>3, <1>4
<1>6. \A i \in 1..Len(ids) : \A j \in 1..Len(ids[i]) : ~ Outside(s, ids[i][j])
  BY <1>2 DEF Groups, InTree
<1>7. fetch(s, ids) = {p}
  BY <1>3, <1>6 DEF fetch, hashesOf
<1>8. ConsistencyProof(s, m) = fetch(s, ids)
  <2>1. ~ (m > Len(s)) /\ m \notin {0, Len(s)} /\ m \in 1..(Len(s) - 1)
    BY <1>0
  <2>. QED BY <2>1 DEF ConsistencyProof, ids
<1>. QED BY <1>1, <1>5, <1>7, <1>8 DEF p

\* Where in the proof the hashes are that a climb needs.
LEMMA ProofStarts ==
    ASSUME NEW s \in Seq(Hashes), NEW m \in Nat, 0 < m, m < Len(s)
    PROVE  LET z == TrailingZeros(m)
               f == Shr(m - 1, z)
               c == ConsistencyOf(m, Len(s))
               p == ProofOf(s, m)
           IN  /\ f = 0 => Len(c[0]) = 0
               /\ f # 0 => /\ Len(c[0]) = 1 /\ p # <<>>
                           /\ p[1] = Lev(s, z)[f + 1]
<1> DEFINE n == Len(s)
           z == TrailingZeros(m)
           f == Shr(m - 1, z)
           c == ConsistencyOf(m, n)
           p == ProofOf(s, m)
           d == [k \in Nat |-> Siblings(m, n, z + k)]
           V == Groups(s)
<1>0. n \in Nat /\ 0 <= n
  OBVIOUS
<1>1. z \in Nat /\ Shl(f + 1, z) = m /\ m - 1 \in Nat /\ m <= Len(s)
  BY SubtreeEnds
<1>2. /\ c \in [Nat -> Seq(V)] /\ c[0] = Begin(m)
      /\ \A k \in Nat : Siblings(m, n, z + k) \in Seq(V) /\ c[k + 1] = c[k] \o Siblings(m, n, z + k)
  BY ConsistencyStep
<1>3. p \in Seq(Hashes) /\ Len(p) = Len(c[n])
      /\ \A i \in 1..Len(p) : p[i] = Collapse(hashesOf(s, c[n][i]))
  BY ProofExists
<1>4. c[0] = IF f = 0 THEN <<>> ELSE <<<<Node(z, f)>>>>
  BY <1>2 DEF Begin
<1>5. f \in Nat
  BY <1>1, ShrStep
<1>. HIDE DEF c, V, p, z, f
<1>6. d \in [Nat -> Seq(V)] /\ \A k \in Nat : c[k + 1] = c[k] \o d[k]
  BY <1>2
<1>7. ASSUME f # 0
      PROVE  Len(c[0]) = 1 /\ p # <<>> /\ p[1] = Lev(s, z)[f + 1]
  <2>1. Len(c[0]) = 1 /\ c[0][1] = <<Node(z, f)>>
    BY <1>4, <1>7
  <2>2. Len(c[0]) <= Len(c[n]) /\ \A i \in 1..Len(c[0]) : c[n][i] = c[0][i]
    <3>. HIDE DEF d, n
    <3>0. Grows(V, c, d)
      BY <1>2, <1>6 DEF Grows
    <3>1. \A j \in Nat, k \in Nat :
             j <= k => Len(c[j]) <= Len(c[k]) /\ \A i \in 1..Len(c[j]) : c[k][i] = c[j][i]
      BY <3>0, ConsistencyGrows
    <3>. QED BY <1>0, <3>1
  <2>3. 1 <= Len(p) /\ Len(p) \in Nat /\ 1 \in 1..Len(p) /\ 1 \in 1..Len(c[0])
    BY <1>3, <2>1, <2>2
  <2>4. p[1] = Collapse(hashesOf(s, <<Node(z, f)>>))
    BY <1>3, <2>1, <2>2, <2>3
  <2>5. Gives(s, <<Node(z, f)>>, Lev(s, z)[f + 1])
    BY <1>1, <1>5, SingleGives
  <2>6. p # <<>>
    BY <2>3
  <2>. QED BY <2>1, <2>4, <2>5, <2>6 DEF Gives
<1>8. ASSUME f = 0 PROVE Len(c[0]) = 0
  BY <1>4, <1>8
<1>. QED BY <1>7, <1>8 DEF c, p, z, f

\* What a level of the tree adds to the proof.
ProofAdds(s, m, k) ==
    LET l == TrailingZeros(m) + k
        f == Shr(m - 1, l)
        g == Shr(Len(s) - 1, l)
        p == ProofOf(s, m)
        used == Len(ConsistencyOf(m, Len(s))[k])
        next == Len(ConsistencyOf(m, Len(s))[k + 1])
    IN  /\ used \in Nat /\ f \in Nat /\ g \in Nat /\ f <= g
        /\ f % 2 = 1 => used < Len(p) /\ next = used + 1 /\ p[used + 1] = Lev(s, l)[f]
        /\ f % 2 = 0 /\ f < g =>
              used < Len(p) /\ next = used + 1 /\ p[used + 1] = Lev(s, l)[f + 2]
        /\ f % 2 = 0 /\ f >= g => next = used

\* Every level adds the hash of a sibling, or nothing.
LEMMA ProofContinues ==
    ASSUME NEW s \in Seq(Hashes), NEW m \in Nat, 0 < m, m < Len(s), NEW k \in Nat, k < Len(s)
    PROVE  ProofAdds(s, m, k)
<1> DEFINE n == Len(s)
           z == TrailingZeros(m)
           l == z + k
           f == Shr(m - 1, l)
           g == Shr(n - 1, l)
           c == ConsistencyOf(m, n)
           p == ProofOf(s, m)
           d == [j \in Nat |-> Siblings(m, n, z + j)]
           V == Groups(s)
<1>0. n \in Nat /\ k + 1 \in Nat /\ k + 1 <= n
  OBVIOUS
<1>1. z \in Nat /\ l \in Nat
  BY SubtreeEnds
<1>2. /\ c \in [Nat -> Seq(V)]
      /\ \A j \in Nat : Siblings(m, n, z + j) \in Seq(V) /\ c[j + 1] = c[j] \o Siblings(m, n, z + j)
  BY ConsistencyStep
<1>3. p \in Seq(Hashes) /\ Len(p) = Len(c[n])
      /\ \A i \in 1..Len(p) : p[i] = Collapse(hashesOf(s, c[n][i]))
  BY ProofExists
<1>4. c[k + 1] = c[k] \o Siblings(m, n, l) /\ c[k] \in Seq(V) /\ c[k + 1] \in Seq(V)
  BY <1>0, <1>2
<1>. HIDE DEF l
<1>5. /\ f \in Nat /\ g \in Nat /\ f <= g
      /\ f % 2 = 1 => \E x : Siblings(m, n, l) = <<x>> /\ Gives(s, x, Lev(s, l)[f])
      /\ f % 2 = 0 /\ f < g => \E x : Siblings(m, n, l) = <<x>> /\ Gives(s, x, Lev(s, l)[f + 2])
      /\ f % 2 = 0 /\ f >= g => Siblings(m, n, l) = <<>>
  BY <1>1, SiblingsGive
<1>. HIDE DEF c, V, p, z, f, g
<1>6. Len(c[k + 1]) <= Len(c[n]) /\ \A i \in 1..Len(c[k + 1]) : c[n][i] = c[k + 1][i]
  <2>1. Grows(V, c, d)
    BY <1>2 DEF Grows
  <2>. HIDE DEF d, n
  <2>. QED BY <1>0, <2>1, ConsistencyGrows
<1> DEFINE used == Len(c[k])
<1>7. used \in Nat
  BY <1>4
<1>8. ASSUME NEW x, NEW h, Siblings(m, n, l) = <<x>>, Gives(s, x, h)
      PROVE  used < Len(p) /\ Len(c[k + 1]) = used + 1 /\ p[used + 1] = h
  <2>1. x \in V
    BY <1>8 DEF Gives, V
  <2> DEFINE q == c[k]
  <2>2. q \in Seq(V) /\ Len(q) = used
    BY <1>4
  <2>. HIDE DEF q
  <2>3. Len(q \o <<x>>) = Len(q) + 1 /\ (q \o <<x>>)[Len(q) + 1] = x
    BY <2>1, <2>2
  <2>4. c[k + 1] = q \o <<x>>
    BY <1>4, <1>8 DEF q
  <2>. HIDE DEF used
  <2>5. Len(c[k + 1]) = used + 1 /\ c[k + 1][used + 1] = x
    BY <2>2, <2>3, <2>4
  <2>6. used + 1 \in 1..Len(c[k + 1]) /\ used + 1 \in 1..Len(p) /\ used < Len(p)
    <3>1. Len(p) \in Nat /\ used + 1 <= Len(p)
      BY <1>3, <1>6, <2>5
    <3>. QED BY <1>7, <2>5, <3>1
  <2>7. c[n][used + 1] = x
    BY <1>6, <2>5, <2>6
  <2>8. p[used + 1] = Collapse(hashesOf(s, x))
    BY <1>3, <2>6, <2>7
  <2>. QED BY <1>8, <2>5, <2>6, <2>8 DEF Gives
<1>9. ASSUME Siblings(m, n, l) = <<>> PROVE Len(c[k + 1]) = used
  <2>1. c[k] \o <<>> = c[k]
    BY <1>4
  <2>. QED BY <1>4, <1>9, <2>1
<1>. HIDE DEF used
<1>10. f % 2 = 1 => used < Len(p) /\ Len(c[k + 1]) = used + 1 /\ p[used + 1] = Lev(s, l)[f]
  BY <1>5, <1>8
<1>11. f % 2 = 0 /\ f < g =>
          used < Len(p) /\ Len(c[k + 1]) = used + 1 /\ p[used + 1] = Lev(s, l)[f + 2]
  BY <1>5, <1>8
<1>12. f % 2 = 0 /\ f >= g => Len(c[k + 1]) = used
  BY <1>5, <1>9
<1>. QED BY <1>5, <1>7, <1>10, <1>11, <1>12 DEF ProofAdds, used, c, p, f, g, l, z

-----------------------------------------------------------------------------
(* The climb of a witness.                                                 *)

Places == [fn : Nat, sn : Nat, used : Nat, fr : Hashes, sr : Hashes]

\* What a step up does to a place.
ClimbsTo(at, up, used, fr, sr) ==
    /\ up \in Places
    /\ up.fn = at.fn \div 2 /\ up.sn = at.sn \div 2
    /\ up.used = used /\ up.fr = fr /\ up.sr = sr

\* The three ways up; a climb that lacks a hash stays where it is.
LEMMA ClimbIs ==
    ASSUME NEW at \in Places, NEW p \in Seq(Hashes)
    PROVE  LET up == Climb(at, p)
               h == p[at.used + 1]
           IN  /\ up \in Places
               /\ at.fn % 2 = 1 /\ at.used < Len(p) =>
                     ClimbsTo(at, up, at.used + 1, HashChildren(h, at.fr), HashChildren(h, at.sr))
               /\ at.fn % 2 = 0 /\ at.fn < at.sn /\ at.used < Len(p) =>
                     ClimbsTo(at, up, at.used + 1, at.fr, HashChildren(at.sr, h))
               /\ at.fn % 2 = 0 /\ at.fn >= at.sn => ClimbsTo(at, up, at.used, at.fr, at.sr)
<1> DEFINE up == Climb(at, p)
           h == p[at.used + 1]
<1>0. at.fn \in Nat /\ at.sn \in Nat /\ at.used \in Nat /\ at.fr \in Hashes /\ at.sr \in Hashes
      /\ Len(p) \in Nat
  BY DEF Places
<1>1. at.fn \div 2 \in Nat /\ at.sn \div 2 \in Nat /\ at.used + 1 \in Nat
  BY <1>0
<1>2. ASSUME at.used < Len(p) PROVE h \in Hashes
  <2>1. at.used + 1 \in 1..Len(p)
    BY <1>0, <1>2
  <2>. QED BY <2>1
<1>3. CASE at.fn % 2 = 1 /\ at.used < Len(p)
  <2>1. ~ (at.fn % 2 = 0) /\ ~ (at.used >= Len(p))
    BY <1>0, <1>3
  <2> DEFINE a == HashChildren(h, at.fr)
             b == HashChildren(h, at.sr)
  <2>2. a \in Hashes /\ b \in Hashes
    BY <1>0, <1>2, <1>3, HashesClosed
  <2>3. up = [fn |-> at.fn \div 2, sn |-> at.sn \div 2, used |-> at.used + 1, fr |-> a, sr |-> b]
    <3>. HIDE DEF h
    <3>1. up = [[at EXCEPT !.fn = @ \div 2, !.sn = @ \div 2]
                   EXCEPT !.used = @ + 1, !.fr = HashChildren(h, @), !.sr = HashChildren(h, @)]
      BY <1>3, <2>1 DEF Climb, h
    <3>. QED BY <3>1 DEF Places
  <2>. HIDE DEF a, b, up
  <2>4. ClimbsTo(at, up, at.used + 1, a, b)
    BY <1>1, <2>2, <2>3 DEF Places, ClimbsTo
  <2>5. up \in Places
    BY <2>4 DEF ClimbsTo
  <2>. QED BY <2>1, <2>4, <2>5 DEF a, b, up
<1>4. CASE at.fn % 2 = 0 /\ at.fn < at.sn /\ at.used < Len(p)
  <2>1. ~ (at.fn % 2 = 1) /\ ~ (at.used >= Len(p)) /\ ~ (at.fn >= at.sn)
    BY <1>0, <1>4
  <2> DEFINE b == HashChildren(at.sr, h)
  <2>2. b \in Hashes
    BY <1>0, <1>2, <1>4, HashesClosed
  <2>3. up = [fn |-> at.fn \div 2, sn |-> at.sn \div 2, used |-> at.used + 1, fr |-> at.fr, sr |-> b]
    <3>. HIDE DEF h
    <3>1. up = [[at EXCEPT !.fn = @ \div 2, !.sn = @ \div 2]
                   EXCEPT !.used = @ + 1, !.sr = HashChildren(@, h)]
      BY <1>4, <2>1 DEF Climb, h
    <3>. QED BY <3>1 DEF Places
  <2>. HIDE DEF b, up
  <2>4. ClimbsTo(at, up, at.used + 1, at.fr, b)
    BY <1>0, <1>1, <2>2, <2>3 DEF Places, ClimbsTo
  <2>5. up \in Places
    BY <2>4 DEF ClimbsTo
  <2>. QED BY <2>1, <2>4, <2>5 DEF b, up
<1>5. CASE at.fn % 2 = 0 /\ at.fn >= at.sn
  <2>1. ~ (at.fn % 2 = 1) /\ ~ (at.fn < at.sn)
    BY <1>0, <1>5
  <2>3. up = [fn |-> at.fn \div 2, sn |-> at.sn \div 2, used |-> at.used, fr |-> at.fr, sr |-> at.sr]
    <3>1. up = [at EXCEPT !.fn = @ \div 2, !.sn = @ \div 2]
      BY <1>5, <2>1 DEF Climb
    <3>. QED BY <3>1 DEF Places
  <2>. HIDE DEF up
  <2>4. ClimbsTo(at, up, at.used, at.fr, at.sr)
    BY <1>0, <1>1, <2>3 DEF Places, ClimbsTo
  <2>5. up \in Places
    BY <2>4 DEF ClimbsTo
  <2>. QED BY <2>1, <2>4, <2>5 DEF up
<1>6. CASE (at.fn % 2 = 1 \/ at.fn < at.sn) /\ at.used >= Len(p)
  <2>1. ~ (at.used < Len(p)) /\ ~ (at.fn % 2 = 0 /\ at.fn >= at.sn)
    BY <1>0, <1>6
  <2>2. up = at
    BY <1>6, <2>1 DEF Climb
  <2>. QED BY <2>1, <2>2
<1>7. \/ at.fn % 2 = 1 /\ at.used < Len(p)
      \/ at.fn % 2 = 0 /\ at.fn < at.sn /\ at.used < Len(p)
      \/ at.fn % 2 = 0 /\ at.fn >= at.sn
      \/ (at.fn % 2 = 1 \/ at.fn < at.sn) /\ at.used >= Len(p)
  BY <1>0
<1>. HIDE DEF h
<1>. QED BY <1>3, <1>4, <1>5, <1>6, <1>7 DEF h

\* The function that Leads applies.
ClimbOf(start, proof) ==
    LET at[k \in Nat] == IF k = 0 THEN start ELSE Climb(at[k - 1], proof) IN at

\* A climb is defined by recursion, level by level.
LEMMA ClimbStep ==
    ASSUME NEW start \in Places, NEW p \in Seq(Hashes)
    PROVE  /\ ClimbOf(start, p) \in [Nat -> Places]
           /\ ClimbOf(start, p)[0] = start
           /\ \A k \in Nat : ClimbOf(start, p)[k + 1] = Climb(ClimbOf(start, p)[k], p)
<1> DEFINE step == [k \in Nat |-> [v \in Places |-> Climb(v, p)]]
           Def(f) == f = [k \in Nat |-> IF k = 0 THEN start ELSE Climb(f[k - 1], p)]
           g == ClimbOf(start, p)
<1>1. \A v \in Places : Climb(v, p) \in Places
  BY ClimbIs
<1>2. Fits(Places, start, step)
  BY <1>1 DEF Fits
<1>3. \E f : Def(f)
  <2>. HIDE DEF step
  <2>1. PICK f : f \in [Nat -> Places] /\ Runs(f, start, step)
    BY <1>2, RecursionExists
  <2>2. \A k \in Nat : f[k + 1] = Climb(f[k], p)
    BY <2>1 DEF Runs, step
  <2>3. \A k \in Nat : f[k] = IF k = 0 THEN start ELSE Climb(f[k - 1], p)
    BY <2>1, <2>2 DEF Runs
  <2>. QED BY <2>1, <2>3
<1>4. Def(g)
  BY <1>3 DEF ClimbOf
<1>5. ASSUME NEW f, Def(f) PROVE Obeys(f, Places, start, step)
  <2>1. f = [k \in Nat |-> f[k]]
    BY <1>5
  <2>2. f[0] = start /\ \A k \in Nat : f[k + 1] = Climb(f[k], p)
    BY <1>5
  <2>. HIDE DEF Def
  <2>. QED BY <2>1, <2>2 DEF Obeys
<1>6. g \in [Nat -> Places] /\ Runs(g, start, step)
  <2>. HIDE DEF step, Def, g
  <2>. QED BY <1>2, <1>4, <1>5, RecursionRuns
<1>. HIDE DEF g
<1>7. \A k \in Nat : g[k + 1] = Climb(g[k], p)
  BY <1>6 DEF Runs
<1>8. g[0] = start
  BY <1>6 DEF Runs
<1>. QED BY <1>6, <1>7, <1>8 DEF g

\* The first leaves have the levels of the whole tree, as far as they are complete.
LEMMA TrimmedLevels ==
    ASSUME NEW s \in Seq(Hashes), NEW m \in Nat, m <= Len(s), NEW l \in Nat, NEW i \in Nat,
           Shl(i + 1, l) <= m
    PROVE  Lev(SubSeq(s, 1, m), l)[i + 1] = Lev(s, l)[i + 1]
<1> DEFINE t == SubSeq(s, 1, m)
           c == i + 1
           a == Shl(i, l)
           b == Shl(c, l)
           ta == SubSeq(t, a + 1, b)
           sa == SubSeq(s, a + 1, b)
<1>0. c \in Nat /\ i <= c
  OBVIOUS
<1>1. t \in Seq(Hashes) /\ Len(t) = m /\ \A j \in 1..m : t[j] = s[j]
  BY SubSeqIs
<1>. HIDE DEF t, c
<1>2. a \in Nat /\ b \in Nat /\ a <= b /\ b <= m /\ a + 1 \in Nat /\ 1 <= a + 1 /\ a + 1 <= b + 1
      /\ b <= Len(s)
  <2>1. a \in Nat /\ b \in Nat /\ a <= b
    BY <1>0, ShlStep, ShiftsMonotone
  <2>2. b <= m
    BY DEF c
  <2>. HIDE DEF a, b
  <2>. QED BY <2>1, <2>2
<1>. HIDE DEF a, b
<1>3. /\ ta \in Seq(Hashes) /\ Len(ta) = (b - (a + 1)) + 1
      /\ \A j \in 1..((b - (a + 1)) + 1) : ta[j] = t[((a + 1) + j) - 1]
  BY <1>1, <1>2, SubSeqIs
<1>4. /\ sa \in Seq(Hashes) /\ Len(sa) = (b - (a + 1)) + 1
      /\ \A j \in 1..((b - (a + 1)) + 1) : sa[j] = s[((a + 1) + j) - 1]
  BY <1>2, SubSeqIs
<1>5. \A j \in 1..((b - (a + 1)) + 1) : ((a + 1) + j) - 1 \in 1..m
  BY <1>2
<1>. HIDE DEF ta, sa
<1>6. ta = sa
  <2>1. \A j \in 1..((b - (a + 1)) + 1) : ta[j] = sa[j]
    BY <1>1, <1>3, <1>4, <1>5
  <2>. QED BY <1>3, <1>4, <2>1, SameEntries
<1>7. nodeHash(t, Node(l, i)) = Root(ta) /\ nodeHash(s, Node(l, i)) = Root(sa)
  BY NodeIs DEF nodeHash, ta, sa, a, b, c
<1>8. nodeHash(t, Node(l, i)) = Lev(t, l)[i + 1] /\ nodeHash(s, Node(l, i)) = Lev(s, l)[i + 1]
  <2>1. Shl(i + 1, l) <= Len(t) /\ Shl(i + 1, l) <= Len(s)
    BY <1>1, <1>2 DEF b, c
  <2>. QED BY <1>1, <2>1, NodeOfLevel
<1>. QED BY <1>6, <1>7, <1>8 DEF t

\* The climb after k steps, from the hash x for the largest perfect subtree that
\* ends at m, with the proof computed for m from the leaf hashes s.
OnPath(s, m, x, k, at) ==
    LET z == TrailingZeros(m)
        first == Shr(m - 1, z)
        l == z + k
        f == Shr(m - 1, l)
    IN  /\ at \in Places
        /\ at.fn = f /\ at.sn = Shr(Len(s) - 1, l)
        /\ at.used = Len(ConsistencyOf(m, Len(s))[k])
        /\ at.sr = Lev(s, l)[f + 1] <=> x = Lev(s, z)[first + 1]
        /\ x = Lev(s, z)[first + 1] => at.fr = Lev(SubSeq(s, 1, m), l)[f + 1]
        /\ first = 0 => f = 0 /\ at.fr = x

\* Every climb starts on the path.
LEMMA OnPathStarts ==
    ASSUME NEW s \in Seq(Hashes), NEW m \in Nat, 0 < m, m < Len(s), NEW x \in Hashes
    PROVE  LET used == IF Shr(m - 1, TrailingZeros(m)) = 0 THEN 0 ELSE 1
           IN  /\ Start(m, Len(s), x, used) \in Places
               /\ OnPath(s, m, x, 0, Start(m, Len(s), x, used))
<1> DEFINE n == Len(s)
           z == TrailingZeros(m)
           f == Shr(m - 1, z)
           g == Shr(n - 1, z)
           used == IF f = 0 THEN 0 ELSE 1
           at == Start(m, n, x, used)
           t == SubSeq(s, 1, m)
<1>0. n \in Nat /\ m - 1 \in Nat /\ n - 1 \in Nat /\ m <= n
  OBVIOUS
<1>1. z \in Nat /\ z + 0 = z /\ Shl(f + 1, z) = m
  BY SubtreeEnds
<1>. HIDE DEF z
<1>2. f \in Nat /\ g \in Nat
  BY <1>0, <1>1, ShrStep
<1>3. used = Len(ConsistencyOf(m, n)[0])
  BY ProofStarts DEF z
<1>4. at = [fn |-> f, sn |-> g, used |-> used, fr |-> x, sr |-> x]
  BY DEF Start, z
<1>5. Lev(t, z)[f + 1] = Lev(s, z)[f + 1]
  <2>. HIDE DEF f
  <2>. QED BY <1>0, <1>1, <1>2, TrimmedLevels
<1>6. used \in Nat
  OBVIOUS
<1>. HIDE DEF at, f, g, used, t, n
<1>7. at \in Places
  BY <1>2, <1>4, <1>6 DEF Places
<1>8. at.fn = f /\ at.sn = g /\ at.used = used /\ at.fr = x /\ at.sr = x
  BY <1>4
<1>9. OnPath(s, m, x, 0, at)
  BY <1>1, <1>3, <1>5, <1>7, <1>8 DEF OnPath, z, f, g, t, n
<1>. QED BY <1>7, <1>9 DEF at, used, f, z, n

\* One level up it still is.
LEMMA OnPathClimbs ==
    ASSUME NEW s \in Seq(Hashes), NEW m \in Nat, 0 < m, m < Len(s), NEW x \in Hashes,
           NEW k \in Nat, k < Len(s), NEW at, OnPath(s, m, x, k, at)
    PROVE  OnPath(s, m, x, k + 1, Climb(at, ProofOf(s, m)))
<1> DEFINE n == Len(s)
           z == TrailingZeros(m)
           first == Shr(m - 1, z)
           l == z + k
           f == Shr(m - 1, l)
           g == Shr(n - 1, l)
           t == SubSeq(s, 1, m)
           y == Lev(s, z)[first + 1]
           p == ProofOf(s, m)
           used == Len(ConsistencyOf(m, n)[k])
           next == Len(ConsistencyOf(m, n)[k + 1])
           v == Lev(s, l)
           w == Lev(t, l)
           v1 == Lev(s, l + 1)
           w1 == Lev(t, l + 1)
           up == Climb(at, p)
           f1 == f \div 2
<1>0. n \in Nat /\ m - 1 \in Nat /\ n - 1 \in Nat /\ m <= n /\ s # <<>>
  OBVIOUS
<1>1. z \in Nat /\ l \in Nat /\ z + (k + 1) = l + 1
  BY SubtreeEnds
<1>2. /\ at \in Places /\ at.fn = f /\ at.sn = g /\ at.used = used
      /\ at.sr = v[f + 1] <=> x = y
      /\ x = y => at.fr = w[f + 1]
      /\ first = 0 => f = 0 /\ at.fr = x
  BY DEF OnPath
<1>3. /\ used \in Nat /\ f \in Nat /\ g \in Nat /\ f <= g
      /\ f % 2 = 1 => used < Len(p) /\ next = used + 1 /\ p[used + 1] = v[f]
      /\ f % 2 = 0 /\ f < g => used < Len(p) /\ next = used + 1 /\ p[used + 1] = v[f + 2]
      /\ f % 2 = 0 /\ f >= g => next = used
  BY ProofContinues DEF ProofAdds
<1>4. p \in Seq(Hashes)
  BY ProofExists
<1>5. t \in Seq(Hashes) /\ Len(t) = m /\ t # <<>>
  BY SubSeqIs
<1>. HIDE DEF l, t
<1>6. Shr(m - 1, l + 1) = f1 /\ Shr(n - 1, l + 1) = g \div 2
  BY <1>0, <1>1, ShrStep
<1>7. /\ v \in Seq(Hashes) /\ v1 = Up(v) /\ Len(v) = g + 1
      /\ w \in Seq(Hashes) /\ w1 = Up(w) /\ Len(w) = f + 1
  BY <1>0, <1>1, <1>5, LevStep, LevLen
<1>8. /\ Len(v1) = (g + 2) \div 2
      /\ \A i \in 1..((g + 2) \div 2) :
            v1[i] = IF 2 * i <= g + 1 THEN HashChildren(v[2 * i - 1], v[2 * i]) ELSE v[2 * i - 1]
      /\ Len(w1) = (f + 2) \div 2
      /\ \A i \in 1..((f + 2) \div 2) :
            w1[i] = IF 2 * i <= f + 1 THEN HashChildren(w[2 * i - 1], w[2 * i]) ELSE w[2 * i - 1]
  <2>1. (g + 1) + 1 = g + 2 /\ (f + 1) + 1 = f + 2
    BY <1>3
  <2>. HIDE DEF f, g, v, w, v1, w1
  <2>2. /\ Len(v1) = (g + 2) \div 2
        /\ \A i \in 1..((g + 2) \div 2) :
              v1[i] = IF 2 * i <= g + 1 THEN HashChildren(v[2 * i - 1], v[2 * i]) ELSE v[2 * i - 1]
    BY <1>7, <2>1, UpType
  <2>3. /\ Len(w1) = (f + 2) \div 2
        /\ \A i \in 1..((f + 2) \div 2) :
              w1[i] = IF 2 * i <= f + 1 THEN HashChildren(w[2 * i - 1], w[2 * i]) ELSE w[2 * i - 1]
    BY <1>7, <2>1, UpType
  <2>. QED BY <2>2, <2>3
<1>9. /\ up \in Places
      /\ at.fn % 2 = 1 /\ at.used < Len(p) =>
            ClimbsTo(at, up, at.used + 1, HashChildren(p[at.used + 1], at.fr),
                     HashChildren(p[at.used + 1], at.sr))
      /\ at.fn % 2 = 0 /\ at.fn < at.sn /\ at.used < Len(p) =>
            ClimbsTo(at, up, at.used + 1, at.fr, HashChildren(at.sr, p[at.used + 1]))
      /\ at.fn % 2 = 0 /\ at.fn >= at.sn => ClimbsTo(at, up, at.used, at.fr, at.sr)
  <2>. HIDE DEF p
  <2>. QED BY <1>2, <1>4, ClimbIs
<1>10. f % 2 = 1 => w[f] = v[f]
  <2>. SUFFICES ASSUME f % 2 = 1 PROVE w[f] = v[f]
    OBVIOUS
  <2> DEFINE i == f - 1
  <2>1. i \in Nat /\ i + 1 = f
    BY <1>3
  <2>2. Shl(f, l) <= m - 1 /\ Shl(f, l) \in Nat
    <3>1. f <= Shr(m - 1, l)
      BY <1>3
    <3>. HIDE DEF f
    <3>2. Shl(f, l) <= m - 1
      BY <1>0, <1>1, <1>3, <3>1, ShiftsAdjoint
    <3>3. Shl(f, l) \in Nat
      BY <1>1, <1>3, ShlStep
    <3>. QED BY <3>2, <3>3
  <2>. HIDE DEF i, f
  <2>3. Shl(i + 1, l) <= m
    BY <1>0, <2>1, <2>2
  <2>4. Lev(t, l)[i + 1] = Lev(s, l)[i + 1]
    BY <1>0, <1>1, <2>1, <2>3, TrimmedLevels DEF t
  <2>. QED BY <2>1, <2>4
<1>. HIDE DEF f, g, v, w, v1, w1, used, next, p, up, y, first, n
<1>11. SUFFICES /\ up.fn = f1 /\ up.sn = g \div 2 /\ up.used = next
                /\ up.sr = v1[f1 + 1] <=> x = y
                /\ x = y => up.fr = w1[f1 + 1]
                /\ first = 0 => f1 = 0 /\ up.fr = x
  BY <1>1, <1>6, <1>9 DEF OnPath, z, first, f, g, y, v1, w1, up, p, next, t, n
<1>12. CASE f % 2 = 1
  <2> DEFINE h == p[used + 1]
  <2>1. ClimbsTo(at, up, used + 1, HashChildren(h, at.fr), HashChildren(h, at.sr))
    BY <1>2, <1>3, <1>9, <1>12
  <2>2. h = v[f] /\ next = used + 1
    BY <1>3, <1>12
  <2>. HIDE DEF h
  <2>3. up.fn = f1 /\ up.sn = g \div 2 /\ up.used = next
        /\ up.fr = HashChildren(h, at.fr) /\ up.sr = HashChildren(h, at.sr)
    BY <1>2, <2>1, <2>2 DEF ClimbsTo
  <2>4. f1 + 1 \in 1..((g + 2) \div 2) /\ f1 + 1 \in 1..((f + 2) \div 2)
        /\ 2 * (f1 + 1) = f + 1 /\ 2 * (f1 + 1) - 1 = f /\ f + 1 <= g + 1 /\ f + 1 <= f + 1
    BY <1>3, <1>12
  <2>5. v1[f1 + 1] = HashChildren(v[f], v[f + 1]) /\ w1[f1 + 1] = HashChildren(w[f], w[f + 1])
    <3>. HIDE DEF f1
    <3>. QED BY <1>8, <2>4
  <2>6. up.sr = v1[f1 + 1] <=> x = y
    <3>1. up.sr = v1[f1 + 1] <=> HashChildren(v[f], at.sr) = HashChildren(v[f], v[f + 1])
      BY <2>2, <2>3, <2>5
    <3>2. HashChildren(v[f], at.sr) = HashChildren(v[f], v[f + 1]) <=> at.sr = v[f + 1]
      BY ChildrenInjective
    <3>. QED BY <1>2, <3>1, <3>2
  <2>7. x = y => up.fr = w1[f1 + 1]
    BY <1>2, <1>10, <1>12, <2>2, <2>3, <2>5
  <2>8. ~ (first = 0)
    BY <1>2, <1>12
  <2>. QED BY <2>3, <2>6, <2>7, <2>8
<1>13. CASE f % 2 = 0 /\ f < g
  <2> DEFINE h == p[used + 1]
  <2>1. ClimbsTo(at, up, used + 1, at.fr, HashChildren(at.sr, h))
    BY <1>2, <1>3, <1>9, <1>13
  <2>2. h = v[f + 2] /\ next = used + 1
    BY <1>3, <1>13
  <2>. HIDE DEF h
  <2>3. up.fn = f1 /\ up.sn = g \div 2 /\ up.used = next
        /\ up.fr = at.fr /\ up.sr = HashChildren(at.sr, h)
    BY <1>2, <2>1, <2>2 DEF ClimbsTo
  <2>4. f1 + 1 \in 1..((g + 2) \div 2) /\ f1 + 1 \in 1..((f + 2) \div 2)
        /\ 2 * (f1 + 1) = f + 2 /\ 2 * (f1 + 1) - 1 = f + 1 /\ f + 2 <= g + 1 /\ ~ (f + 2 <= f + 1)
    BY <1>3, <1>13
  <2>5. v1[f1 + 1] = HashChildren(v[f + 1], v[f + 2]) /\ w1[f1 + 1] = w[f + 1]
    <3>. HIDE DEF f1
    <3>. QED BY <1>8, <2>4
  <2>6. up.sr = v1[f1 + 1] <=> x = y
    <3>1. up.sr = v1[f1 + 1] <=> HashChildren(at.sr, v[f + 2]) = HashChildren(v[f + 1], v[f + 2])
      BY <2>2, <2>3, <2>5
    <3>2. HashChildren(at.sr, v[f + 2]) = HashChildren(v[f + 1], v[f + 2]) <=> at.sr = v[f + 1]
      BY ChildrenInjective
    <3>. QED BY <1>2, <3>1, <3>2
  <2>7. x = y => up.fr = w1[f1 + 1]
    BY <1>2, <2>3, <2>5
  <2>8. first = 0 => f1 = 0 /\ up.fr = x
    BY <1>2, <2>3
  <2>. QED BY <2>3, <2>6, <2>7, <2>8
<1>14. CASE f % 2 = 0 /\ f >= g
  <2>1. ClimbsTo(at, up, used, at.fr, at.sr)
    BY <1>2, <1>9, <1>14
  <2>2. next = used
    BY <1>3, <1>14
  <2>3. up.fn = f1 /\ up.sn = g \div 2 /\ up.used = next
        /\ up.fr = at.fr /\ up.sr = at.sr
    BY <1>2, <2>1, <2>2 DEF ClimbsTo
  <2>4. f1 + 1 \in 1..((g + 2) \div 2) /\ f1 + 1 \in 1..((f + 2) \div 2)
        /\ 2 * (f1 + 1) = f + 2 /\ 2 * (f1 + 1) - 1 = f + 1 /\ ~ (f + 2 <= g + 1) /\ ~ (f + 2 <= f + 1)
    BY <1>3, <1>14
  <2>5. v1[f1 + 1] = v[f + 1] /\ w1[f1 + 1] = w[f + 1]
    <3>. HIDE DEF f1
    <3>. QED BY <1>8, <2>4
  <2>6. up.sr = v1[f1 + 1] <=> x = y
    BY <1>2, <2>3, <2>5
  <2>7. x = y => up.fr = w1[f1 + 1]
    BY <1>2, <2>3, <2>5
  <2>8. first = 0 => f1 = 0 /\ up.fr = x
    BY <1>2, <2>3
  <2>. QED BY <2>3, <2>6, <2>7, <2>8
<1>15. f % 2 = 1 \/ (f % 2 = 0 /\ f < g) \/ (f % 2 = 0 /\ f >= g)
  BY <1>3
<1>. QED BY <1>12, <1>13, <1>14, <1>15

\* So the climb stays on the path to the top.
LEMMA OnPathUpto ==
    ASSUME NEW s \in Seq(Hashes), NEW m \in Nat, 0 < m, m < Len(s), NEW x \in Hashes,
           NEW start \in Places, OnPath(s, m, x, 0, start)
    PROVE  OnPath(s, m, x, Len(s), ClimbOf(start, ProofOf(s, m))[Len(s)])
<1> DEFINE n == Len(s)
           c == ClimbOf(start, ProofOf(s, m))
           G == {k \in Nat : k <= n => OnPath(s, m, x, k, c[k])}
<1>0. n \in Nat
  OBVIOUS
<1>1. c[0] = start /\ \A k \in Nat : c[k + 1] = Climb(c[k], ProofOf(s, m))
  BY ProofExists, ClimbStep
<1>. HIDE DEF c
<1>2. 0 \in G
  BY <1>1
<1>3. ASSUME NEW k \in Nat, k \in G PROVE k + 1 \in G
  <2>. SUFFICES ASSUME k + 1 <= n PROVE OnPath(s, m, x, k + 1, c[k + 1])
    OBVIOUS
  <2>1. k < n /\ k <= n
    BY <1>0
  <2>2. OnPath(s, m, x, k, c[k])
    BY <1>3, <2>1
  <2>3. OnPath(s, m, x, k + 1, Climb(c[k], ProofOf(s, m)))
    BY <2>1, <2>2, OnPathClimbs
  <2>. QED BY <1>1, <2>3
<1>4. Nat \subseteq G
  <2>. HIDE DEF G
  <2>. QED BY <1>2, <1>3, SetInduction
<1>5. n \in G /\ n <= n
  BY <1>0, <1>4
<1>. QED BY <1>5 DEF c

\* High enough there is one node left, and it has the root.
LEMMA LevTop ==
    ASSUME NEW s \in Seq(Hashes), s # <<>>, NEW k \in Nat, Shr(Len(s) - 1, k) = 0
    PROVE  Lev(s, k)[1] = Root(s)
<1>1. Lev(s, k) \in Seq(Hashes) /\ Len(Lev(s, k)) = 1
  <2>1. Lev(s, k) \in Seq(Hashes)
    BY LevStep
  <2>2. Len(Lev(s, k)) = Shr(Len(s) - 1, k) + 1
    BY LevLen
  <2>. QED BY <2>1, <2>2
<1>2. Root(Lev(s, k)) = Root(s)
  BY LevRoot
<1>. QED BY <1>1, <1>2, RootOfOne

\* What a climb from the hash x for the first subtree leads to.
LEMMA LeadsFrom ==
    ASSUME NEW s \in Seq(Hashes), NEW m \in Nat, 0 < m, m < Len(s), NEW x \in Hashes, NEW r
    PROVE  LET z == TrailingZeros(m)
               first == Shr(m - 1, z)
               used == IF first = 0 THEN 0 ELSE 1
               y == Lev(s, z)[first + 1]
               leads == Leads(Start(m, Len(s), x, used), [size |-> m, root |-> r],
                              [size |-> Len(s), root |-> Root(s)], ProofOf(s, m))
           IN  /\ first = 0 => (leads <=> x = r /\ x = y)
               /\ x = y => (leads <=> Root(SubSeq(s, 1, m)) = r)
               /\ first = 0 => y = Root(SubSeq(s, 1, m))
<1> DEFINE n == Len(s)
           z == TrailingZeros(m)
           first == Shr(m - 1, z)
           used == IF first = 0 THEN 0 ELSE 1
           y == Lev(s, z)[first + 1]
           old == [size |-> m, root |-> r]
           new == [size |-> n, root |-> Root(s)]
           p == ProofOf(s, m)
           start == Start(m, n, x, used)
           leads == Leads(start, old, new, p)
           t == SubSeq(s, 1, m)
           top == ClimbOf(start, p)[n]
           l == z + n
<1>0. n \in Nat /\ m - 1 \in Nat /\ n - 1 \in Nat /\ m <= n /\ s # <<>>
  OBVIOUS
<1>1. z \in Nat /\ l \in Nat /\ m - 1 < l /\ n - 1 < l /\ Shl(first + 1, z) = m
  <2>1. z \in Nat /\ Shl(first + 1, z) = m
    BY SubtreeEnds
  <2>. HIDE DEF z, n
  <2>2. l \in Nat /\ n - 1 < l
    BY <1>0, <2>1
  <2>3. m - 1 < l
    BY <1>0, <2>2
  <2>. QED BY <2>1, <2>2, <2>3
<1>2. t \in Seq(Hashes) /\ Len(t) = m /\ t # <<>>
  BY SubSeqIs
<1>3. OnPath(s, m, x, n, top)
  <2>1. start \in Places /\ OnPath(s, m, x, 0, start)
    BY OnPathStarts
  <2>. HIDE DEF start
  <2>. QED BY <2>1, OnPathUpto
<1>4. leads <=> top.sn = 0 /\ top.used = Len(p) /\ top.fr = r /\ top.sr = Root(s)
  BY DEF Leads, ClimbOf
<1>5. Shr(m - 1, l) = 0 /\ Shr(n - 1, l) = 0
  <2>. HIDE DEF l, n
  <2>. QED BY <1>0, <1>1, ShrEnds
<1>6. Len(p) = Len(ConsistencyOf(m, n)[n])
  BY ProofExists
<1>7. Lev(s, l)[1] = Root(s) /\ Lev(t, l)[1] = Root(t)
  <2>. HIDE DEF l, t
  <2>. QED BY <1>0, <1>1, <1>2, <1>5, LevTop
<1>. HIDE DEF top, leads
<1>8. /\ top.sn = Shr(n - 1, l) /\ top.used = Len(ConsistencyOf(m, n)[n])
      /\ top.sr = Lev(s, l)[Shr(m - 1, l) + 1] <=> x = y
      /\ x = y => top.fr = Lev(t, l)[Shr(m - 1, l) + 1]
      /\ first = 0 => top.fr = x
  BY <1>3 DEF OnPath
<1>. HIDE DEF l, t, p, y, first, n
<1>9. /\ top.sn = 0 /\ top.used = Len(p)
      /\ top.sr = Root(s) <=> x = y
      /\ x = y => top.fr = Root(t)
      /\ first = 0 => top.fr = x
  <2>1. 0 + 1 = 1
    OBVIOUS
  <2>. QED BY <1>5, <1>6, <1>7, <1>8, <2>1
<1>10. first = 0 => y = Root(t)
  <2>. SUFFICES ASSUME first = 0 PROVE y = Root(t)
    OBVIOUS
  <2>1. Lev(t, z)[1] = Root(t)
    <3>1. Shr(Len(t) - 1, z) = 0
      BY <1>2 DEF first
    <3>. QED BY <1>1, <1>2, <3>1, LevTop
  <2>2. Shl(0 + 1, z) <= m /\ 0 \in Nat /\ m <= Len(s) /\ 0 + 1 = 1
    BY <1>1
  <2>3. Lev(t, z)[0 + 1] = Lev(s, z)[0 + 1]
    <3>. HIDE DEF z
    <3>. QED BY <1>1, <2>2, TrimmedLevels DEF t
  <2>. QED BY <2>1, <2>2, <2>3 DEF y
<1>11. first = 0 => (leads <=> x = r /\ x = y)
  BY <1>4, <1>9
<1>12. x = y => (leads <=> Root(t) = r)
  BY <1>4, <1>9
<1>. QED BY <1>10, <1>11, <1>12 DEF leads, y, first, t, p, n

\* A witness accepts the proof exactly if its root is that of the first leaves.
LEMMA ProofDecides ==
    ASSUME NEW s \in Seq(Hashes), NEW m \in Nat, 0 < m, m < Len(s), NEW r \in Hashes
    PROVE  VerifyConsistency([size |-> m, root |-> r], [size |-> Len(s), root |-> Root(s)],
                             ProofOf(s, m))
              <=> r = Root(SubSeq(s, 1, m))
<1> DEFINE n == Len(s)
           z == TrailingZeros(m)
           first == Shr(m - 1, z)
           y == Lev(s, z)[first + 1]
           old == [size |-> m, root |-> r]
           new == [size |-> n, root |-> Root(s)]
           p == ProofOf(s, m)
           t == SubSeq(s, 1, m)
           verified == VerifyConsistency(old, new, p)
<1>1. verified <=> IF first = 0 THEN Leads(Start(m, n, r, 0), old, new, p)
                   ELSE p # <<>> /\ Leads(Start(m, n, p[1], 1), old, new, p)
  <2>1. ~ (m > n) /\ m # n /\ m # 0 /\ m > 0 /\ m < n
    OBVIOUS
  <2>2. old.size = m /\ new.size = n /\ old.root = r
    OBVIOUS
  <2>. HIDE DEF old, new, n, p
  <2>. QED BY <2>1, <2>2 DEF VerifyConsistency
<1>2. CASE first = 0
  <2>1. Leads(Start(m, n, r, 0), old, new, p) <=> r = r /\ r = y
    BY <1>2, LeadsFrom
  <2>2. y = Root(t)
    BY <1>2, LeadsFrom
  <2>. HIDE DEF verified, y
  <2>. QED BY <1>1, <1>2, <2>1, <2>2 DEF verified
<1>3. CASE first # 0
  <2>1. p # <<>> /\ p[1] = y /\ p \in Seq(Hashes)
    BY <1>3, ProofStarts, ProofExists
  <2>2. p[1] \in Hashes
    <3>. HIDE DEF p, y
    <3>. QED BY <2>1
  <2>3. Leads(Start(m, n, p[1], 1), old, new, p) <=> Root(t) = r
    <3> DEFINE x == p[1]
    <3>1. x \in Hashes /\ x = y
      BY <2>1, <2>2
    <3>. HIDE DEF x
    <3>2. Leads(Start(m, n, x, 1), old, new, p) <=> Root(t) = r
      BY <1>3, <3>1, LeadsFrom
    <3>. QED BY <3>2 DEF x
  <2>. HIDE DEF verified, p, y
  <2>. QED BY <1>1, <1>3, <2>1, <2>3 DEF verified, p
<1>. QED BY <1>2, <1>3

-----------------------------------------------------------------------------
(* Proofs against entries.                                                 *)

\* From the size that a witness holds, the client has one proof to send, and the
\* witness verifies it exactly if the log extends what it cosigned.
LEMMA ProofForHeld ==
    ASSUME NEW log \in Log, NEW mine \in Log, Len(mine) <= Len(log)
    PROVE  \E p : /\ ConsistencyProof(leafHashes(log), Len(mine)) = {p}
                  /\ VerifyConsistency(NewCheckpoint(mine), NewCheckpoint(log), p)
                        <=> IsPrefix(mine, log)
<1> DEFINE s == leafHashes(log)
           h == leafHashes(mine)
           m == Len(mine)
           n == Len(log)
           old == NewCheckpoint(mine)
           new == NewCheckpoint(log)
<1>0. m \in Nat /\ n \in Nat /\ m <= n
  BY DEF Log
<1>1. s \in Seq(Hashes) /\ Len(s) = n /\ h \in Seq(Hashes) /\ Len(h) = m
  BY LeafHashesOf
<1>2. old = [size |-> m, root |-> Root(h)] /\ new = [size |-> n, root |-> Root(s)]
  BY DEF NewCheckpoint
<1>3. IsPrefix(mine, log) <=> m <= n /\ \A i \in 1..m : mine[i] = log[i]
  BY PrefixPointwise DEF Log
<1>4. CASE m = 0 \/ m = n
  <2>1. ConsistencyProof(s, m) = {<<>>}
    <3>. HIDE DEF s, m, n
    <3>1. ~ (m > Len(s)) /\ m \in {0, Len(s)} /\ m \notin 1..(Len(s) - 1)
      BY <1>0, <1>1, <1>4
    <3>. QED BY <3>1 DEF ConsistencyProof
  <2>2. CASE m = n
    <3>1. VerifyConsistency(old, new, <<>>) <=> Root(h) = Root(s)
      <4>. HIDE DEF h, s, m, n, old, new
      <4>1. old.size = m /\ new.size = n /\ old.root = Root(h) /\ new.root = Root(s)
        BY <1>2
      <4>2. ~ (m > n) /\ ~ (m < n)
        BY <1>0, <2>2
      <4>. QED BY <2>2, <4>1, <4>2 DEF VerifyConsistency
    <3>2. Root(h) = Root(s) <=> mine = log
      <4>1. Root(h) = Root(s) => mine = log
        BY <2>2, RootOfLogInjective
      <4>. QED BY <4>1
    <3>3. mine = log <=> IsPrefix(mine, log)
      <4>1. IsPrefix(mine, log) => mine = log
        BY <1>0, <2>2, PrefixAntisymmetric DEF Log
      <4>2. IsPrefix(log, log)
        BY PrefixReflexive DEF Log
      <4>. QED BY <4>1, <4>2
    <3>. QED BY <2>1, <3>1, <3>2, <3>3
  <2>3. CASE m = 0 /\ m # n
    <3>1. VerifyConsistency(old, new, <<>>)
      <4>. HIDE DEF h, s, m, n, old, new
      <4>1. old.size = m /\ new.size = n
        BY <1>2
      <4>2. ~ (m > n) /\ m < n /\ ~ (m > 0)
        BY <1>0, <2>3
      <4>. QED BY <2>3, <4>1, <4>2 DEF VerifyConsistency
    <3>2. IsPrefix(mine, log)
      <4>. HIDE DEF m, n
      <4>. QED BY <1>0, <1>3, <2>3
    <3>. QED BY <2>1, <3>1, <3>2
  <2>. QED BY <1>4, <2>2, <2>3
<1>5. CASE m # 0 /\ m # n
  <2>0. 0 < m /\ m < n /\ m < Len(s)
    <3>. HIDE DEF m, n, s
    <3>. QED BY <1>0, <1>1, <1>5
  <2> DEFINE p == ProofOf(s, m)
             trimmed == SubSeq(log, 1, m)
  <2>1. ConsistencyProof(s, m) = {p}
    <3>. HIDE DEF s, m
    <3>. QED BY <1>0, <1>1, <2>0, ProofExists
  <2>2. VerifyConsistency(old, new, p) <=> Root(h) = Root(SubSeq(s, 1, m))
    <3>1. Root(h) \in Hashes
      <4>. HIDE DEF h
      <4>. QED BY <1>1, RootType
    <3> DEFINE r == Root(h)
    <3>. HIDE DEF r, s, m, n
    <3>2. VerifyConsistency([size |-> m, root |-> r], [size |-> Len(s), root |-> Root(s)], p)
             <=> r = Root(SubSeq(s, 1, m))
      BY <1>0, <1>1, <2>0, <3>1, ProofDecides DEF r
    <3>. HIDE DEF old, new, p, h
    <3>. QED BY <1>1, <1>2, <3>2 DEF r
  <2>3. /\ trimmed \in Log /\ Len(trimmed) = m /\ leafHashes(trimmed) = SubSeq(s, 1, m)
        /\ \A i \in 1..m : trimmed[i] = log[i]
    <3>1. trimmed \in Log /\ Len(trimmed) = (m - 1) + 1 /\ leafHashes(trimmed) = SubSeq(s, 1, m)
      BY <1>0, <2>0, LeafHashesOfPart
    <3>2. \A i \in 1..m : trimmed[i] = log[i]
      BY <1>0, SubSeqIs DEF Log
    <3>3. (m - 1) + 1 = m
      BY <1>0
    <3>. QED BY <3>1, <3>2, <3>3
  <2>4. Root(h) = Root(SubSeq(s, 1, m)) <=> mine = trimmed
    <3>. HIDE DEF trimmed
    <3>1. Root(h) = Root(SubSeq(s, 1, m)) => mine = trimmed
      BY <2>3, RootOfLogInjective
    <3>2. mine = trimmed => Root(h) = Root(SubSeq(s, 1, m))
      BY <2>3
    <3>. QED BY <3>1, <3>2
  <2>5. mine = trimmed <=> IsPrefix(mine, log)
    <3>. HIDE DEF trimmed
    <3>1. ASSUME \A i \in 1..m : mine[i] = log[i] PROVE mine = trimmed
      BY <2>3, <3>1, SameEntries DEF Log
    <3>. QED BY <1>0, <1>3, <2>3, <3>1
  <2>. QED BY <2>1, <2>2, <2>4, <2>5
<1>. QED BY <1>4, <1>5

-----------------------------------------------------------------------------
(* The specification.                                                      *)

\* What a witness stores is the checkpoint of the entries it cosigned last.
StoredIsHeld ==
    /\ tree \in Log
    /\ held \in [Witnesses -> Log]
    /\ stored = [w \in Witnesses |-> NewCheckpoint(held[w])]

\* StoredIsHeld is an invariant: a client moves its log only in steps that keep it a log,
\* and a witness that accepts stores the checkpoint it was sent.
THEOREM MerkleHolds == MerkleSpec => []StoredIsHeld
<1>1. MerkleInit => StoredIsHeld
  BY DEF MerkleInit, StoredIsHeld, Log
<1>2. StoredIsHeld /\ [MerkleNext]_mvars => StoredIsHeld'
  <2>. SUFFICES ASSUME StoredIsHeld, [MerkleNext]_mvars PROVE StoredIsHeld'
    OBVIOUS
  <2>1. CASE UNCHANGED mvars
    BY <2>1 DEF StoredIsHeld, mvars
  <2>2. ASSUME NEW e \in Entry, AppendEntry(e) PROVE StoredIsHeld'
    <3>1. tree' \in Log
      BY <2>2 DEF AppendEntry, StoredIsHeld, Log
    <3>. QED BY <2>2, <3>1 DEF AppendEntry, StoredIsHeld
  <2>3. ASSUME NEW k \in 0..(Len(tree) - 1), OpenOther(k) PROVE StoredIsHeld'
    <3>1. tree' \in Log
      BY <2>3 DEF OpenOther, StoredIsHeld, Log
    <3>. QED BY <2>3, <3>1 DEF OpenOther, StoredIsHeld
  <2>4. ASSUME NEW w \in Witnesses, NEW from \in 0..MaxLog, AddCheckpoint(w, from)
        PROVE StoredIsHeld'
    BY <2>4 DEF AddCheckpoint, StoredIsHeld
  <2>. QED BY <2>1, <2>2, <2>3, <2>4 DEF MerkleNext
<1>. QED BY <1>1, <1>2, PTL DEF MerkleSpec

\* Log.Root is the tree hash of RFC 6962 for logs of every size: appending leaf by
\* leaf to a compact range and folding it computes what the definition by halves says.
THEOREM RootsAreTreeHashes == MerkleSpec => []RootIsMTH
<1>1. StoredIsHeld => RootIsMTH
  <2>. SUFFICES ASSUME StoredIsHeld, NEW b \in 1..(Len(tree) + 1), NEW e \in 0..Len(tree)
                PROVE  IsTreeHash(SubSeq(tree, b, e), Root(leafHashes(SubSeq(tree, b, e))))
    BY DEF RootIsMTH
  <2>1. SubSeq(tree, b, e) \in Log
    BY DEF StoredIsHeld, Log
  <2>. QED BY <2>1, RootIsTreeHash
<1>. QED BY <1>1, MerkleHolds, PTL

\* A checkpoint of one log, opened with another.
LEMMA CheckpointedOf ==
    ASSUME NEW log \in Log, NEW mine \in Log
    PROVE  Checkpointed(log, NewCheckpoint(mine)) = {t \in {mine} : IsPrefix(t, log)}
<1> DEFINE k == Len(mine)
           n == Len(log)
           cp == NewCheckpoint(mine)
<1>0. k \in Nat /\ n \in Nat /\ cp.size = k /\ cp.root = Root(leafHashes(mine))
  BY DEF Log, NewCheckpoint
<1>1. IsPrefix(mine, log) <=> k <= n /\ \A i \in 1..k : mine[i] = log[i]
  BY PrefixPointwise DEF Log
<1>. HIDE DEF cp
<1>2. CASE ~ (k <= n)
  BY <1>0, <1>1, <1>2 DEF Checkpointed, cp
<1>3. CASE k <= n
  <2> DEFINE t == SubSeq(log, 1, k)
  <2>1. Min({k, n}) = k
    <3>1. k \in {k, n} /\ \A y \in {k, n} : k <= y
      BY <1>0, <1>3
    <3>2. \A x \in {k, n} : (\A y \in {k, n} : x <= y) => x = k
      BY <1>0, <1>3
    <3>. HIDE DEF k, n
    <3>. QED BY <3>1, <3>2 DEF Min
  <2>2. t \in Log /\ Len(t) = k /\ \A i \in 1..k : t[i] = log[i]
    BY <1>0, <1>3, SubSeqIs DEF Log
  <2>3. t = mine <=> \A i \in 1..k : mine[i] = log[i]
    <3>. HIDE DEF t
    <3>1. ASSUME \A i \in 1..k : mine[i] = log[i] PROVE t = mine
      BY <2>2, <3>1, SameEntries DEF Log
    <3>. QED BY <2>2, <3>1
  <2>4. Root(leafHashes(t)) = cp.root <=> t = mine
    <3>. HIDE DEF t
    <3>. QED BY <1>0, <2>2, RootOfLogInjective
  <2>5. Checkpointed(log, cp) = {x \in {t} : k <= n /\ Root(leafHashes(x)) = cp.root}
    <3>1. SubSeq(log, 1, Min({cp.size, n})) = t
      BY <1>0, <2>1
    <3>. QED BY <1>0, <3>1 DEF Checkpointed
  <2>. HIDE DEF t
  <2>. QED BY <1>1, <1>3, <2>3, <2>4, <2>5 DEF cp
<1>. QED BY <1>2, <1>3

\* Log.Checkpointed returns exactly the entries a witness cosigned, or an error if the
\* log does not start with them, for logs and checkpoints of every size.
THEOREM CheckpointsOpenWhatWasCosigned == MerkleSpec => []CheckpointedIsCosigned
<1>1. StoredIsHeld => CheckpointedIsCosigned
  <2>. SUFFICES ASSUME StoredIsHeld, NEW w \in Witnesses
                PROVE  Checkpointed(tree, stored[w]) = {log \in {held[w]} : IsPrefix(log, tree)}
    BY DEF CheckpointedIsCosigned
  <2>1. tree \in Log /\ held[w] \in Log /\ stored[w] = NewCheckpoint(held[w])
    BY DEF StoredIsHeld
  <2>. QED BY <2>1, CheckpointedOf
<1>. QED BY <1>1, MerkleHolds, PTL

\* A client can make a proof from every size up to that of its log, never from a larger
\* one, and the answer of a witness that keeps a size and a root is the one that comparing
\* the entries would give, for logs of every size (what module Witness takes for granted).
THEOREM HashesDecideAsEntries == MerkleSpec => []PrefixDecides
<1>1. StoredIsHeld => PrefixDecides
  <2>. SUFFICES ASSUME StoredIsHeld, NEW w \in Witnesses, NEW from \in 0..MaxLog
                PROVE  LET proofs == ConsistencyProof(leafHashes(tree), from) IN
                       IF from > Len(tree) THEN proofs = {}
                       ELSE \E proof \in proofs :
                               /\ proofs = {proof}
                               /\ HashAnswer(stored[w], from, NewCheckpoint(tree), proof)
                                      = Abstract!AnswerFrom(held[w], from, tree)
    BY DEF PrefixDecides
  <2> DEFINE s == leafHashes(tree)
             mine == held[w]
             proofs == ConsistencyProof(s, from)
             n == Len(tree)
             new == NewCheckpoint(tree)
             old == NewCheckpoint(mine)
             same(p) == VerifyConsistency(old, new, p) <=> IsPrefix(mine, tree)
  <2>1. tree \in Log /\ mine \in Log /\ stored[w] = old /\ n \in Nat /\ from \in Nat
    BY MaxLogAssumption DEF StoredIsHeld, Log
  <2>2. Len(s) = n
    BY <2>1, LeafHashesOf
  <2>3. old.size = Len(mine) /\ new.size = n /\ Len(mine) \in Nat
    BY <2>1 DEF NewCheckpoint, Log
  <2>4. CASE from > n
    <3>1. ConsistencyProof(s, from) = {}
      <4>. HIDE DEF s, n
      <4>1. from > Len(s) /\ from \notin {0, Len(s)} /\ from \notin 1..(Len(s) - 1)
        BY <2>1, <2>2, <2>4
      <4>. QED BY <4>1 DEF ConsistencyProof
    <3>. QED BY <2>4, <3>1
  <2>5. CASE ~ (from > n)
    <3>1. PICK p : proofs = {p} /\ (from = Len(mine) => same(p))
      <4>1. CASE from = Len(mine)
        <5>1. Len(mine) <= Len(tree)
          BY <2>1, <2>5, <4>1
        <5>. HIDE DEF mine
        <5>. QED BY <2>1, <4>1, <5>1, ProofForHeld
      <4>2. CASE from # Len(mine)
        <5>1. from <= Len(tree)
          BY <2>1, <2>5
        <5>2. SubSeq(tree, 1, from) \in Log /\ Len(SubSeq(tree, 1, from)) = from
          <6>1. (from - 1) + 1 = from /\ 1 <= from + 1
            BY <2>1
          <6>2. SubSeq(tree, 1, from) \in Log /\ Len(SubSeq(tree, 1, from)) = (from - 1) + 1
            BY <2>1, <5>1, <6>1, LeafHashesOfPart
          <6>. QED BY <6>1, <6>2
        <5> DEFINE other == SubSeq(tree, 1, from)
        <5>. HIDE DEF other
        <5>3. other \in Log /\ Len(other) = from /\ Len(other) <= Len(tree)
          BY <5>1, <5>2 DEF other
        <5>4. \E p : ConsistencyProof(leafHashes(tree), Len(other)) = {p}
          BY <2>1, <5>3, ProofForHeld
        <5>. QED BY <4>2, <5>3, <5>4
      <4>. QED BY <4>1, <4>2
    <3>. HIDE DEF proofs, old, new, mine
    <3>2. HashAnswer(old, from, new, p) = Abstract!AnswerFrom(mine, from, tree)
      <4>1. CASE from # Len(mine)
        BY <2>3, <4>1 DEF HashAnswer, Abstract!AnswerFrom
      <4>2. CASE from = Len(mine)
        BY <2>3, <3>1, <4>2 DEF HashAnswer, Abstract!AnswerFrom
      <4>. QED BY <4>1, <4>2
    <3>3. p \in proofs /\ proofs = {p}
      BY <3>1
    <3>. QED BY <2>1, <2>5, <3>2, <3>3 DEF proofs, mine, new
  <2>. QED BY <2>4, <2>5
<1>. QED BY <1>1, MerkleHolds, PTL
=============================================================================
