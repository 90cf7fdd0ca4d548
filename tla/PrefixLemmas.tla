---------------------------- MODULE PrefixLemmas ----------------------------
(***************************************************************************)
(* Facts about prefixes of sequences and about sets of positions in them   *)
(* that the proofs of the project use.                                     *)
(***************************************************************************)
EXTENDS Integers, SequencesExt, WellFoundedInduction, TLAPS

\* A prefix agrees with the whole at every position it has, and only a prefix
\* does (the append-only logs of the project are compared this way).
LEMMA PrefixPointwise ==
    ASSUME NEW S, NEW s \in Seq(S), NEW t \in Seq(S)
    PROVE  IsPrefix(s, t) <=>
              /\ Len(s) <= Len(t)
              /\ \A i \in 1..Len(s) : s[i] = t[i]
<1>1. CASE Len(s) <= Len(t)
  <2>1. /\ SubSeq(s, 1, Len(s)) \in Seq(S)
        /\ Len(SubSeq(s, 1, Len(s))) = Len(s)
        /\ \A i \in 1..Len(s) : SubSeq(s, 1, Len(s))[i] = s[i]
    OBVIOUS
  <2>2. /\ SubSeq(t, 1, Len(s)) \in Seq(S)
        /\ Len(SubSeq(t, 1, Len(s))) = Len(s)
        /\ \A i \in 1..Len(s) : SubSeq(t, 1, Len(s))[i] = t[i]
    BY <1>1
  <2>3. SubSeq(s, 1, Len(s)) = SubSeq(t, 1, Len(s)) <=> \A i \in 1..Len(s) : s[i] = t[i]
    BY <2>1, <2>2
  <2>. QED BY <1>1, <2>3 DEF IsPrefix
<1>2. CASE ~ (Len(s) <= Len(t))
  BY <1>2 DEF IsPrefix
<1>. QED BY <1>1, <1>2

\* A sequence is a prefix of itself, the empty sequence of every sequence.
LEMMA PrefixReflexive ==
    ASSUME NEW S, NEW s \in Seq(S)
    PROVE  IsPrefix(s, s) /\ IsPrefix(<<>>, s)
<1>1. IsPrefix(s, s)
  BY PrefixPointwise
<1>2. <<>> \in Seq(S) /\ Len(<<>>) = 0 /\ Len(s) \in Nat
  OBVIOUS
<1>3. ASSUME NEW t \in Seq(S), Len(t) = 0
      PROVE  IsPrefix(t, s)
  <2>1. Len(t) <= Len(s) /\ \A i \in 1..Len(t) : t[i] = s[i]
    BY <1>2, <1>3
  <2>. QED BY <2>1, PrefixPointwise
<1>4. IsPrefix(<<>>, s)
  BY <1>2, <1>3, Zenon
<1>. QED BY <1>1, <1>4

\* A prefix of a prefix is a prefix.
LEMMA PrefixTransitive ==
    ASSUME NEW S, NEW s \in Seq(S), NEW t \in Seq(S), NEW u \in Seq(S),
           IsPrefix(s, t), IsPrefix(t, u)
    PROVE  IsPrefix(s, u)
BY PrefixPointwise

\* Two prefixes of one sequence are ordered by their lengths.
LEMMA PrefixComparable ==
    ASSUME NEW S, NEW s \in Seq(S), NEW t \in Seq(S), NEW u \in Seq(S),
           IsPrefix(s, u), IsPrefix(t, u), Len(s) <= Len(t)
    PROVE  IsPrefix(s, t)
BY PrefixPointwise

\* Appending an entry extends a log.
LEMMA PrefixAppend ==
    ASSUME NEW S, NEW s \in Seq(S), NEW e \in S
    PROVE  IsPrefix(s, Append(s, e))
<1>1. /\ Append(s, e) \in Seq(S)
      /\ Len(Append(s, e)) = Len(s) + 1
      /\ \A i \in 1..Len(s) : Append(s, e)[i] = s[i]
  OBVIOUS
<1>2. IsPrefix(s, Append(s, e)) <=>
         /\ Len(s) <= Len(Append(s, e))
         /\ \A i \in 1..Len(s) : s[i] = Append(s, e)[i]
  BY <1>1, PrefixPointwise, Zenon
<1>. QED BY <1>1, <1>2

\* What an append adds to a sequence and leaves at its end.
LEMMA AppendAdds ==
    ASSUME NEW S, NEW s \in Seq(S), NEW e \in S
    PROVE  /\ ToSet(Append(s, e)) = ToSet(s) \cup {e}
           /\ Last(Append(s, e)) = e
           /\ Append(s, e) # <<>>
<1> DEFINE t == Append(s, e)
<1>1. /\ t \in Seq(S)
      /\ Len(t) = Len(s) + 1
      /\ Len(s) \in Nat
      /\ \A i \in 1..Len(s) : t[i] = s[i]
      /\ t[Len(s) + 1] = e
      /\ t # <<>>
  OBVIOUS
<1>2. DOMAIN t = 1..Len(t) /\ DOMAIN s = 1..Len(s)
  BY <1>1
<1>. HIDE DEF t
<1>3. ToSet(t) = ToSet(s) \cup {e}
  BY <1>1, <1>2 DEF ToSet
<1>4. Last(t) = e
  BY <1>1 DEF Last
<1>. QED BY <1>1, <1>3, <1>4 DEF t

\* The first entries of a log are a prefix of it (a ref reset to an earlier commit).
LEMMA PrefixSubSeq ==
    ASSUME NEW S, NEW s \in Seq(S), NEW k \in 0..Len(s)
    PROVE  SubSeq(s, 1, k) \in Seq(S) /\ IsPrefix(SubSeq(s, 1, k), s)
<1> DEFINE t == SubSeq(s, 1, k)
<1>1. /\ t \in Seq(S)
      /\ Len(t) = k
      /\ \A i \in 1..k : t[i] = s[i]
  OBVIOUS
<1>. HIDE DEF t
<1>2. IsPrefix(t, s) <=> Len(t) <= Len(s) /\ \A i \in 1..Len(t) : t[i] = s[i]
  BY <1>1, PrefixPointwise
<1>3. Len(t) <= Len(s)
  BY <1>1
<1>4. IsPrefix(t, s)
  BY <1>1, <1>2, <1>3
<1>. QED BY <1>1, <1>4 DEF t

\* Prefixes of each other are equal.
LEMMA PrefixAntisymmetric ==
    ASSUME NEW S, NEW s \in Seq(S), NEW t \in Seq(S),
           IsPrefix(s, t), Len(t) <= Len(s)
    PROVE  s = t
BY PrefixPointwise

\* Sequences of one length that agree at every position are equal.
LEMMA SameEntries ==
    ASSUME NEW S, NEW s \in Seq(S), NEW t \in Seq(S), Len(s) = Len(t),
           \A i \in 1..Len(s) : s[i] = t[i]
    PROVE  s = t
OBVIOUS

\* Where the entries of a concatenation come from.
LEMMA ConcatEntries ==
    ASSUME NEW S, NEW s \in Seq(S), NEW t \in Seq(S)
    PROVE  /\ s \o t \in Seq(S)
           /\ Len(s \o t) = Len(s) + Len(t)
           /\ \A i \in 1..(Len(s) + Len(t)) :
                 (s \o t)[i] = IF i <= Len(s) THEN s[i] ELSE t[i - Len(s)]
OBVIOUS

LEMMA ConcatLonger ==
    ASSUME NEW S, NEW s \in Seq(S), NEW t \in Seq(S)
    PROVE  s \o t \in Seq(S) /\ Len(s) <= Len(s \o t)
OBVIOUS

\* A non-empty set of naturals has a least element.
LEMMA LeastNatural ==
    ASSUME NEW T, T \subseteq Nat, T # {}
    PROVE  \E x \in T : \A y \in T : x <= y
<1>1. PICK x \in T : \A y \in T : ~ (<<y, x>> \in OpToRel(<, Nat))
  BY NatLessThanWellFounded, WFMin
<1>2. \A y \in T : ~ (y < x)
  BY <1>1 DEF OpToRel
<1>. QED BY <1>2

\* Induction, with the numbers for which the claim holds as a set.
LEMMA SetInduction ==
    ASSUME NEW G, 0 \in G, \A n \in Nat : n \in G => n + 1 \in G
    PROVE  Nat \subseteq G
<1> DEFINE T == {n \in Nat : n \notin G}
<1>. SUFFICES ASSUME T # {} PROVE FALSE
  OBVIOUS
<1>1. PICK x \in T : \A y \in T : x <= y
  <2>1. T \subseteq Nat
    OBVIOUS
  <2>. HIDE DEF T
  <2>. QED BY <2>1, LeastNatural
<1>2. x \in Nat /\ x # 0
  BY <1>1
<1>3. x - 1 \in Nat /\ x - 1 \in G
  BY <1>1, <1>2
<1>4. (x - 1) + 1 = x
  BY <1>2
<1>. QED BY <1>1, <1>3, <1>4

\* The same with all smaller numbers at hand.
LEMMA CourseOfValues ==
    ASSUME NEW G, \A n \in Nat : (\A m \in Nat : m < n => m \in G) => n \in G
    PROVE  Nat \subseteq G
<1> DEFINE T == {n \in Nat : n \notin G}
<1>. SUFFICES ASSUME T # {} PROVE FALSE
  OBVIOUS
<1>1. PICK x \in T : \A y \in T : x <= y
  <2>1. T \subseteq Nat
    OBVIOUS
  <2>. HIDE DEF T
  <2>. QED BY <2>1, LeastNatural
<1>2. \A m \in Nat : m < x => m \in G
  BY <1>1
<1>. QED BY <1>1, <1>2

\* A non-empty bounded set of naturals has a greatest element.
LEMMA GreatestNatural ==
    ASSUME NEW n \in Nat, NEW T, T \subseteq 0..n, T # {}
    PROVE  \E x \in T : \A y \in T : y <= x
<1> DEFINE D == {d \in Nat : n - d \in T}
<1>1. D \subseteq Nat /\ D # {}
  <2>1. PICK y \in T : TRUE
    OBVIOUS
  <2>2. n - y \in Nat /\ n - (n - y) = y
    BY <2>1
  <2>3. n - y \in D
    BY <2>1, <2>2
  <2>. QED BY <2>3
<1>2. PICK d \in D : \A e \in D : d <= e
  <2>. HIDE DEF D
  <2>. QED BY <1>1, LeastNatural
<1>3. ASSUME NEW y \in T
      PROVE  y <= n - d
  <2>1. n - y \in D
    BY n - (n - y) = y
  <2>. QED BY <1>2, <2>1
<1>. QED BY <1>2, <1>3
=============================================================================
