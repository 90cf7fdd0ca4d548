---------------------------- MODULE GitLogProofs ----------------------------
(***************************************************************************)
(* Proofs about GitLog, for any number of processes, entries and commits   *)
(* and bundles of any width.                                               *)
(***************************************************************************)
EXTENDS GitLog, PrefixLemmas, FiniteSetTheorems

-----------------------------------------------------------------------------
(* Cutting a log into bundles.                                             *)

\* The indices of the bundles of a log.
Pieces(e) == {i \in Nat : i * EntriesPerBundle < Len(e)}

PathOf(e, i) == BundlePath(i, Len(Bundle(e, i)))
FileOf(e, i) == [path |-> PathOf(e, i), content |-> Bundle(e, i)]

\* What the first k bundles of a log hold, and the paths of the others.
Cut(e, k) ==
    SubSeq(e, 1, IF k * EntriesPerBundle < Len(e) THEN k * EntriesPerBundle ELSE Len(e))
Rest(e, k) == {PathOf(e, i) : i \in {j \in Pieces(e) : k <= j}}

\* Multiples of the width, in order.
LEMMA Multiples ==
    ASSUME NEW i \in Nat, NEW j \in Nat
    PROVE  /\ i * EntriesPerBundle \in Nat
           /\ (i + 1) * EntriesPerBundle = i * EntriesPerBundle + EntriesPerBundle
           /\ i <= j => i * EntriesPerBundle <= j * EntriesPerBundle
           /\ i <= i * EntriesPerBundle
BY GitLogAssumption

\* The count Save computes by rounding up is the number of bundles that hold an
\* entry.
LEMMA CountPieces ==
    ASSUME NEW n \in Nat, NEW i \in Int
    PROVE  LET count == (n + EntriesPerBundle - 1) \div EntriesPerBundle IN
           /\ count \in Nat
           /\ i \in 0..(count - 1) <=> i \in Nat /\ i * EntriesPerBundle < n
<1> DEFINE b == EntriesPerBundle
           a == n + b - 1
           q == a \div b
<1>1. b \in Nat \ {0}
  BY GitLogAssumption
<1>. HIDE DEF b
<1>2. a \in Nat
  BY <1>1
<1>. HIDE DEF a
<1>3. q \in Nat /\ q * b <= a /\ a < q * b + b
  BY <1>1, <1>2
<1>. HIDE DEF q
<1>4. i \in 0..(q - 1) <=> i \in Nat /\ i * b < n
  BY <1>1, <1>3 DEF a
<1>. QED BY <1>3, <1>4 DEF q, a, b

LEMMA BundleFilesArePieces ==
    ASSUME NEW S, NEW e \in Seq(S)
    PROVE  /\ BundleFiles(e) = {FileOf(e, i) : i \in Pieces(e)}
           /\ \E count \in Nat : Pieces(e) = 0..(count - 1)
<1> DEFINE count == (Len(e) + EntriesPerBundle - 1) \div EntriesPerBundle
<1>1. Len(e) \in Nat
  OBVIOUS
<1>2. count \in Nat /\ \A i \in Int :
         i \in 0..(count - 1) <=> i \in Nat /\ i * EntriesPerBundle < Len(e)
  BY <1>1, CountPieces
<1>3. BundleFiles(e) = {FileOf(e, i) : i \in 0..(count - 1)}
  BY DEF BundleFiles, FileOf, PathOf
<1>. HIDE DEF count
<1>4. Pieces(e) = 0..(count - 1)
  BY <1>2 DEF Pieces
<1>. QED BY <1>2, <1>3, <1>4

\* A bundle's width and entries: it is not empty, and only the last is not full.
LEMMA BundleHolds ==
    ASSUME NEW S, NEW e \in Seq(S), NEW i \in Pieces(e)
    PROVE  LET b == i * EntriesPerBundle
               w == Len(Bundle(e, i))
           IN  /\ Bundle(e, i) \in Seq(S)
               /\ w \in 1..EntriesPerBundle
               /\ w = IF b + EntriesPerBundle < Len(e) THEN EntriesPerBundle ELSE Len(e) - b
               /\ \A n \in 1..w : Bundle(e, i)[n] = e[b + n]
<1> DEFINE b == i * EntriesPerBundle
           m == IF b + EntriesPerBundle < Len(e) THEN b + EntriesPerBundle ELSE Len(e)
           t == SubSeq(e, b + 1, m)
<1>1. b \in Nat /\ (i + 1) * EntriesPerBundle = b + EntriesPerBundle /\ b < Len(e)
  BY Multiples DEF Pieces
<1>2. Bundle(e, i) = t
  BY <1>1 DEF Bundle
<1>. HIDE DEF b
<1>3. EntriesPerBundle \in Nat \ {0} /\ Len(e) \in Nat
  BY GitLogAssumption
<1>4. m \in Nat /\ b + 1 <= m /\ m <= Len(e) /\ m - b \in 1..EntriesPerBundle
  BY <1>1, <1>3
<1>. HIDE DEF m
<1>5. /\ t \in Seq(S)
      /\ Len(t) = m - b
      /\ \A n \in 1..(m - b) : t[n] = e[b + n]
  BY <1>1, <1>4
<1>6. m - b = IF b + EntriesPerBundle < Len(e) THEN EntriesPerBundle ELSE Len(e) - b
  BY <1>1, <1>3 DEF m
<1>. HIDE DEF t
<1>. QED BY <1>2, <1>4, <1>5, <1>6 DEF b

\* Where a bundle is in the tree (BundlePath).
LEMMA PathFields ==
    ASSUME NEW S, NEW e \in Seq(S), NEW i \in Pieces(e)
    PROVE  /\ PathOf(e, i).index = i
           /\ PathOf(e, i).partial = IF Len(Bundle(e, i)) < EntriesPerBundle
                                     THEN Len(Bundle(e, i)) ELSE 0
           /\ PathOf(e, i) \in Path
<1>1. Len(Bundle(e, i)) \in 1..EntriesPerBundle
  BY BundleHolds
<1>2. i \in Nat /\ EntriesPerBundle \in Nat \ {0}
  BY GitLogAssumption DEF Pieces
<1>. QED BY <1>1, <1>2 DEF PathOf, BundlePath, Path

\* The bundles of a log are files.
LEMMA BundleFilesType ==
    ASSUME NEW e \in Seq(Entries)
    PROVE  BundleFiles(e) \subseteq File
<1>1. ASSUME NEW i \in Pieces(e)
      PROVE  FileOf(e, i) \in File
  BY BundleHolds, PathFields DEF FileOf, File
<1>. QED BY <1>1, BundleFilesArePieces

\* A path stands for the same entries in every log that extends another: bundles
\* are named by index and width, and what is stored under a name never changes.
LEMMA PathIsContent ==
    ASSUME NEW S, NEW e \in Seq(S), NEW d \in Seq(S),
           NEW i \in Pieces(e), NEW j \in Pieces(d),
           IsPrefix(e, d), PathOf(e, i) = PathOf(d, j)
    PROVE  i = j /\ Bundle(e, i) = Bundle(d, j)
<1> DEFINE we == Len(Bundle(e, i))
           wd == Len(Bundle(d, j))
           b  == i * EntriesPerBundle
<1>1. i = j
  BY PathFields
<1>2. /\ Bundle(e, i) \in Seq(S)
      /\ we \in 1..EntriesPerBundle
      /\ we = IF b + EntriesPerBundle < Len(e) THEN EntriesPerBundle ELSE Len(e) - b
      /\ \A n \in 1..we : Bundle(e, i)[n] = e[b + n]
  BY BundleHolds
<1>3. /\ Bundle(d, j) \in Seq(S)
      /\ wd \in 1..EntriesPerBundle
      /\ \A n \in 1..wd : Bundle(d, j)[n] = d[b + n]
  BY <1>1, BundleHolds
<1>4. (IF we < EntriesPerBundle THEN we ELSE 0) = (IF wd < EntriesPerBundle THEN wd ELSE 0)
  BY PathFields
<1>5. EntriesPerBundle \in Nat \ {0}
  BY GitLogAssumption
<1>6. b \in Nat /\ b < Len(e) /\ Len(e) \in Nat
  BY Multiples DEF Pieces
<1>. HIDE DEF we, wd, b
<1>7. we = wd
  BY <1>2, <1>3, <1>4, <1>5
<1>8. \A n \in 1..Len(e) : e[n] = d[n]
  BY PrefixPointwise
<1>9. \A n \in 1..we : b + n \in 1..Len(e)
  BY <1>2, <1>5, <1>6
<1>10. \A n \in 1..we : Bundle(e, i)[n] = Bundle(d, j)[n]
  BY <1>2, <1>3, <1>7, <1>8, <1>9
<1>11. Len(Bundle(e, i)) = we /\ Len(Bundle(d, j)) = we
  BY <1>7 DEF we, wd
<1>12. Bundle(e, i) = Bundle(d, j)
  BY <1>2, <1>3, <1>10, <1>11, SameEntries
<1>. QED BY <1>1, <1>12

\* Reading on: no bundle gives nothing, each bundle the next piece, all of them the
\* log (readEntries).
LEMMA CutNone ==
    ASSUME NEW S, NEW e \in Seq(S)
    PROVE  Cut(e, 0) = <<>>
<1>1. 0 * EntriesPerBundle = 0
  BY GitLogAssumption
<1>2. Len(e) \in Nat
  OBVIOUS
<1>3. Cut(e, 0) = SubSeq(e, 1, 0)
  BY <1>1, <1>2 DEF Cut
<1>. QED BY <1>3

LEMMA CutStep ==
    ASSUME NEW S, NEW e \in Seq(S), NEW k \in Pieces(e)
    PROVE  Cut(e, k) \o Bundle(e, k) = Cut(e, k + 1)
<1> DEFINE b == k * EntriesPerBundle
           w == Len(Bundle(e, k))
           s == SubSeq(e, 1, b)
           u == Bundle(e, k)
           t == SubSeq(e, 1, b + w)
<1>1. b \in Nat /\ (k + 1) * EntriesPerBundle = b + EntriesPerBundle /\ b < Len(e)
  BY Multiples DEF Pieces
<1>2. /\ u \in Seq(S)
      /\ w \in 1..EntriesPerBundle
      /\ w = IF b + EntriesPerBundle < Len(e) THEN EntriesPerBundle ELSE Len(e) - b
      /\ \A n \in 1..w : u[n] = e[b + n]
  BY BundleHolds
<1>3. EntriesPerBundle \in Nat \ {0} /\ Len(e) \in Nat
  BY GitLogAssumption
<1>4. Cut(e, k) = s
  BY <1>1 DEF Cut
<1>5. b + w = IF b + EntriesPerBundle < Len(e) THEN b + EntriesPerBundle ELSE Len(e)
  <2>. HIDE DEF b, w, u
  <2>. QED BY <1>1, <1>2, <1>3
<1>6. Cut(e, k + 1) = t
  BY <1>1, <1>5 DEF Cut
<1>7. Len(u) = w
  OBVIOUS
<1>. HIDE DEF b, w, u
<1>8. b + w \in Nat /\ b + w <= Len(e) /\ w \in Nat
  BY <1>1, <1>2, <1>3
<1>9. s \in Seq(S) /\ Len(s) = b /\ \A n \in 1..b : s[n] = e[n]
  BY <1>1, <1>3
<1>10. t \in Seq(S) /\ Len(t) = b + w /\ \A n \in 1..(b + w) : t[n] = e[n]
  BY <1>1, <1>3, <1>8
<1>. HIDE DEF s, t
<1> DEFINE v == s \o u
<1>11. /\ v \in Seq(S)
       /\ Len(v) = b + w
       /\ \A n \in 1..(b + w) : v[n] = IF n <= b THEN s[n] ELSE u[n - b]
  <2>1. /\ v \in Seq(S)
        /\ Len(v) = Len(s) + Len(u)
        /\ \A n \in 1..(Len(s) + Len(u)) :
              v[n] = IF n <= Len(s) THEN s[n] ELSE u[n - Len(s)]
    BY <1>2, <1>9, ConcatEntries, Zenon
  <2>. HIDE DEF v
  <2>. QED BY <1>7, <1>9, <2>1
<1>. HIDE DEF v
<1>12. ASSUME NEW n \in 1..(b + w)
       PROVE  v[n] = t[n]
  <2>1. CASE n <= b
    <3>1. n \in 1..b
      BY <1>1, <1>8, <2>1
    <3>2. v[n] = s[n]
      BY <1>11, <2>1
    <3>. QED BY <1>9, <1>10, <3>1, <3>2
  <2>2. CASE b < n
    <3>1. n - b \in 1..w /\ b + (n - b) = n /\ ~ (n <= b)
      BY <1>1, <1>8, <2>2
    <3>2. v[n] = u[n - b]
      BY <1>11, <3>1
    <3>3. u[n - b] = e[n]
      BY <1>2, <3>1
    <3>. QED BY <1>10, <3>2, <3>3
  <2>. QED BY <1>1, <1>8, <2>1, <2>2
<1>13. v = t
  BY <1>10, <1>11, <1>12, SameEntries
<1>. QED BY <1>4, <1>6, <1>13 DEF u, v

LEMMA CutAll ==
    ASSUME NEW S, NEW e \in Seq(S), NEW k \in Nat, k \notin Pieces(e)
    PROVE  Cut(e, k) = e
<1>1. ~ (k * EntriesPerBundle < Len(e))
  BY DEF Pieces
<1>2. Cut(e, k) = SubSeq(e, 1, Len(e))
  BY <1>1 DEF Cut
<1>. QED BY <1>2

\* What is still to be read: a path with the least index is that of the next
\* bundle, and taking it away leaves the others.
LEMMA RestStep ==
    ASSUME NEW S, NEW e \in Seq(S), NEW k \in Nat, Rest(e, k) # {}
    PROVE  /\ k \in Pieces(e)
           /\ (CHOOSE f \in Rest(e, k) : \A g \in Rest(e, k) : f.index <= g.index)
                  = PathOf(e, k)
           /\ Rest(e, k) \ {PathOf(e, k)} = Rest(e, k + 1)
<1>1. PICK i \in Pieces(e) : k <= i
  BY DEF Rest
<1>2. k \in Pieces(e)
  <2>1. i \in Nat /\ i * EntriesPerBundle < Len(e)
    BY DEF Pieces
  <2>2. k * EntriesPerBundle <= i * EntriesPerBundle
    BY <1>1, <2>1, Multiples
  <2>3. k * EntriesPerBundle \in Nat /\ i * EntriesPerBundle \in Nat /\ Len(e) \in Nat
    BY <2>1, Multiples
  <2>. QED BY <2>1, <2>2, <2>3 DEF Pieces
<1>3. \A j \in Pieces(e) : PathOf(e, j).index = j /\ j \in Nat
  BY PathFields DEF Pieces
<1>4. PathOf(e, k) \in Rest(e, k) /\ \A g \in Rest(e, k) : PathOf(e, k).index <= g.index
  BY <1>2, <1>3 DEF Rest
<1>5. ASSUME NEW f \in Rest(e, k), \A g \in Rest(e, k) : f.index <= g.index
      PROVE  f = PathOf(e, k)
  <2>1. PICK j \in Pieces(e) : k <= j /\ f = PathOf(e, j)
    BY DEF Rest
  <2>2. f.index <= k
    BY <1>2, <1>3, <1>4, <1>5
  <2>3. j = k
    BY <1>3, <2>1, <2>2
  <2>. QED BY <2>1, <2>3
<1>6. Rest(e, k) \ {PathOf(e, k)} = Rest(e, k + 1)
  <2>1. \A j \in Pieces(e) : k <= j <=> j = k \/ k + 1 <= j
    BY <1>3
  <2>2. \A j \in Pieces(e) : k + 1 <= j => PathOf(e, j) # PathOf(e, k)
    BY <1>2, <1>3
  <2>. QED BY <1>2, <2>1, <2>2 DEF Rest
<1>. QED BY <1>2, <1>4, <1>5, <1>6

\* Listing every bundle.
LEMMA RestAll ==
    ASSUME NEW S, NEW e \in Seq(S)
    PROVE  {f.path : f \in BundleFiles(e)} = Rest(e, 0)
<1>1. \A i \in Pieces(e) : 0 <= i
  BY DEF Pieces
<1>2. \A i \in Pieces(e) : FileOf(e, i).path = PathOf(e, i)
  BY DEF FileOf
<1>. QED BY <1>1, <1>2, BundleFilesArePieces DEF Rest

-----------------------------------------------------------------------------
(* Types, and what is in every commit.                                     *)

\* A process that reads commits has found the log ref, which is never deleted.
RefIsNamed == \A p \in Procs : pc[p] \in {"resolve", "checkpoint", "list", "read"} => ref # <<>>

\* A commit holds the bundles of the entries Save was given, and no others.
CommitsAreBundles == \A i \in 1..Len(ref) : ref[i].files = BundleFiles(ref[i].entries)

TypeInv == TypeOK /\ RefIsNamed /\ CommitsAreBundles

\* The commit Save writes.
Saved(p, checkpoint) ==
    [files |-> BundleFiles(log[p]), entries |-> log[p], cp |-> checkpoint]

\* Save leaves the ref alone or adds its commit to it (update-ref with the
\* expected old value).
LEMMA SaveAppends ==
    ASSUME TypeOK, NEW p \in Procs, NEW checkpoint \in Seq(Entries), Save(p, checkpoint)
    PROVE  /\ Saved(p, checkpoint) \in Commit
           /\ \/ ref' = ref
              \/ ref = head[p] /\ ref' = Append(ref, Saved(p, checkpoint))
<1>1. log[p] \in Seq(Entries)
  BY DEF TypeOK
<1>2. BundleFiles(log[p]) \subseteq File
  BY <1>1, BundleFilesType
<1>. QED BY <1>1, <1>2 DEF Save, Saved, Commit

\* The types of what a process keeps once its command has ended.
LEMMA ReturnTypes ==
    ASSUME TypeOK, ref' \in Seq(Commit), NEW p \in Procs, Return(p)
    PROVE  TypeOK'
<1>1. <<>> \in Seq(Commit) /\ <<>> \in Seq(Entries)
  OBVIOUS
<1>2. /\ pc' \in [Procs -> {"idle", "resolve", "checkpoint", "list", "read", "open"}]
      /\ head' \in [Procs -> Seq(Commit)]
      /\ cp' \in [Procs -> Seq(Entries)]
      /\ paths' \in [Procs -> SUBSET Path]
      /\ log' \in [Procs -> Seq(Entries)]
      /\ base' \in [Procs -> Nat]
  BY <1>1 DEF TypeOK, Return, Goto
<1>3. ASSUME NEW q \in Procs
      PROVE  base'[q] <= Len(log'[q])
  <2>1. CASE q = p
    <3>1. base'[q] = 0 /\ log'[q] = <<>>
      BY <2>1 DEF TypeOK, Return
    <3>. QED BY <3>1
  <2>2. CASE q # p
    BY <2>2 DEF TypeOK, Return
  <2>. QED BY <2>1, <2>2
<1>. QED BY <1>2, <1>3 DEF TypeOK

\* A step that leaves the ref alone, and one that adds a commit of bundles to it.
LEMMA CommitsStay ==
    ASSUME TypeOK, CommitsAreBundles, ref' = ref
    PROVE  CommitsAreBundles'
BY DEF CommitsAreBundles

LEMMA CommitsAdd ==
    ASSUME TypeOK, CommitsAreBundles, NEW p, NEW checkpoint,
           Saved(p, checkpoint) \in Commit, ref' = Append(ref, Saved(p, checkpoint))
    PROVE  /\ CommitsAreBundles'
           /\ ref' \in Seq(Commit)
           /\ ref' # <<>>
           /\ Len(ref') = Len(ref) + 1
           /\ \A i \in 1..Len(ref) : ref'[i] = ref[i]
           /\ ref'[Len(ref) + 1] = Saved(p, checkpoint)
<1> DEFINE c == Saved(p, checkpoint)
<1>1. c.files = BundleFiles(c.entries)
  BY DEF Saved
<1>. HIDE DEF c
<1>2. /\ ref' \in Seq(Commit)
      /\ ref' # <<>>
      /\ Len(ref') = Len(ref) + 1
      /\ Len(ref) \in Nat
      /\ \A i \in 1..Len(ref) : ref'[i] = ref[i]
      /\ ref'[Len(ref) + 1] = c
  <2>1. ref \in Seq(Commit) /\ c \in Commit /\ ref' = Append(ref, c)
    BY DEF TypeOK, c
  <2>. QED BY <2>1
<1>3. \A i \in 1..Len(ref') : i \in 1..Len(ref) \/ i = Len(ref) + 1
  BY <1>2
<1>4. CommitsAreBundles'
  BY <1>1, <1>2, <1>3 DEF CommitsAreBundles
<1>. QED BY <1>2, <1>4 DEF c

LEMMA SaveTypeInv ==
    ASSUME TypeInv, NEW p \in Procs, NEW checkpoint \in Seq(Entries), Save(p, checkpoint)
    PROVE  TypeInv'
<1>1. CommitsAreBundles' /\ ref' \in Seq(Commit) /\ (ref # <<>> => ref' # <<>>)
  <2>1. CASE ref' = ref
    BY <2>1, CommitsStay DEF TypeInv, TypeOK
  <2>2. CASE ref' = Append(ref, Saved(p, checkpoint))
    BY <2>2, SaveAppends, CommitsAdd DEF TypeInv
  <2>. QED BY <2>1, <2>2, SaveAppends DEF TypeInv
<1>2. Return(p)
  BY DEF Save
<1>3. TypeOK'
  BY <1>1, <1>2, ReturnTypes DEF TypeInv
<1>4. RefIsNamed'
  BY <1>1, <1>2 DEF TypeInv, RefIsNamed, TypeOK, Return, Goto
<1>. QED BY <1>1, <1>3, <1>4 DEF TypeInv

\* The commit the ref names, while a process reads it.
LEMMA TopTypes ==
    ASSUME TypeInv, NEW p \in Procs, pc[p] \in {"resolve", "checkpoint", "list", "read"}
    PROVE  /\ Len(ref) \in 1..Len(ref)
           /\ Top \in Commit
           /\ Top.files = BundleFiles(Top.entries)
           /\ Top.entries \in Seq(Entries)
           /\ Top.cp \in Seq(Entries)
           /\ \A f \in Top.files : f.path \in Path /\ f.content \in Seq(Entries)
<1>1. ref \in Seq(Commit) /\ ref # <<>>
  BY DEF TypeInv, TypeOK, RefIsNamed
<1>2. Len(ref) \in 1..Len(ref) /\ Top \in Commit
  BY <1>1 DEF Top
<1>3. Top.files = BundleFiles(Top.entries)
  BY <1>2 DEF TypeInv, CommitsAreBundles, Top
<1>. QED BY <1>2, <1>3 DEF Commit, File

LEMMA InitTypeInv == Init => TypeInv
<1>1. <<>> \in Seq(Commit) /\ <<>> \in Seq(Entries) /\ Len(<<>>) = 0
  OBVIOUS
<1>2. Init => TypeOK
  BY <1>1 DEF Init, TypeOK
<1>. QED BY <1>1, <1>2 DEF Init, TypeInv, RefIsNamed, CommitsAreBundles

LEMMA NextTypeInv ==
    ASSUME TypeInv, [Next]_vars
    PROVE  TypeInv'
<1> USE DEF Goto
<1>1. CASE UNCHANGED vars
  BY <1>1 DEF TypeInv, TypeOK, RefIsNamed, CommitsAreBundles, vars
<1>2. ASSUME NEW p \in Procs, RefExists(p) \/ RefExistsFails(p) \/ CatCheckpointFails(p)
      PROVE  TypeInv'
  <2>1. TypeOK'
    BY <1>2 DEF TypeInv, TypeOK, RefExists, RefExistsFails, CatCheckpointFails
  <2>. QED
    BY <1>2, <2>1
       DEF TypeInv, TypeOK, RefIsNamed, CommitsAreBundles, RefExists, RefExistsFails,
           CatCheckpointFails
<1>3. ASSUME NEW p \in Procs, ResolveRef(p)
      PROVE  TypeInv'
  <2>1. TypeOK'
    BY <1>3 DEF TypeInv, TypeOK, ResolveRef
  <2>. QED BY <1>3, <2>1 DEF TypeInv, TypeOK, RefIsNamed, CommitsAreBundles, ResolveRef
<1>4. ASSUME NEW p \in Procs, CatCheckpoint(p)
      PROVE  TypeInv'
  <2>1. Top.cp \in Seq(Entries)
    BY <1>4, TopTypes DEF CatCheckpoint
  <2>2. TypeOK'
    BY <1>4, <2>1 DEF TypeInv, TypeOK, CatCheckpoint
  <2>. QED BY <1>4, <2>2 DEF TypeInv, TypeOK, RefIsNamed, CommitsAreBundles, CatCheckpoint
<1>5. ASSUME NEW p \in Procs, Return(p), ref' = ref
      PROVE  TypeInv'
  <2>1. TypeOK'
    BY <1>5, ReturnTypes DEF TypeInv, TypeOK
  <2>. QED BY <1>5, <2>1 DEF TypeInv, TypeOK, RefIsNamed, CommitsAreBundles, Return
<1>6. ASSUME NEW p \in Procs, LsTree(p)
      PROVE  TypeInv'
  <2> DEFINE listed == IF p \in Subdir THEN {} ELSE {f.path : f \in Top.files}
  <2>1. listed \in SUBSET Path
    BY <1>6, TopTypes DEF LsTree
  <2>. HIDE DEF listed
  <2>2. CASE Malformed(listed)
    <3>1. Return(p) /\ ref' = ref
      BY <1>6, <2>2 DEF LsTree, listed
    <3>. QED BY <1>5, <3>1
  <2>3. CASE ~ Malformed(listed)
    <3>1. /\ pc[p] = "list"
          /\ paths' = [paths EXCEPT ![p] = listed]
          /\ pc' = [pc EXCEPT ![p] = "read"]
          /\ UNCHANGED <<ref, head, cp, log, base>>
      BY <1>6, <2>3 DEF LsTree, listed
    <3>2. TypeOK'
      BY <2>1, <3>1 DEF TypeInv, TypeOK
    <3>. QED BY <3>1, <3>2 DEF TypeInv, TypeOK, RefIsNamed, CommitsAreBundles
  <2>. QED BY <2>2, <2>3
<1>7. ASSUME NEW p \in Procs, CatBundle(p)
      PROVE  TypeInv'
  <2>1. PICK f \in Top.files : log' = [log EXCEPT ![p] = @ \o f.content]
    BY <1>7 DEF CatBundle
  <2>2. f.content \in Seq(Entries) /\ log[p] \in Seq(Entries)
    BY <1>7, TopTypes DEF CatBundle, TypeInv, TypeOK
  <2> DEFINE l == log[p] \o f.content
  <2>3. l \in Seq(Entries) /\ Len(log[p]) <= Len(l)
    BY <2>2, ConcatLonger, Zenon
  <2>4. log' = [log EXCEPT ![p] = l]
    BY <2>1
  <2>. HIDE DEF l
  <2>5. TypeOK'
    <3>1. log' \in [Procs -> Seq(Entries)] /\ paths' \in [Procs -> SUBSET Path]
      BY <1>7, <2>3, <2>4 DEF CatBundle, TypeInv, TypeOK
    <3>2. ASSUME NEW q \in Procs
          PROVE  base'[q] <= Len(log'[q])
      <4>1. base[q] <= Len(log[q]) /\ base[q] \in Nat /\ Len(log[q]) \in Nat
            /\ Len(log'[q]) \in Nat /\ base' = base
        BY <1>7, <3>1 DEF CatBundle, TypeInv, TypeOK
      <4>2. Len(log[q]) <= Len(log'[q])
        BY <2>3, <2>4, <4>1 DEF TypeInv, TypeOK
      <4>. QED BY <4>1, <4>2
    <3>. QED BY <1>7, <3>1, <3>2 DEF CatBundle, TypeInv, TypeOK
  <2>. QED BY <1>7, <2>5 DEF TypeInv, TypeOK, RefIsNamed, CommitsAreBundles, CatBundle
<1>8. ASSUME NEW p \in Procs, Opened(p)
      PROVE  TypeInv'
  <2>1. TypeOK'
    BY <1>8 DEF TypeInv, TypeOK, Opened
  <2>. QED BY <1>8, <2>1 DEF TypeInv, TypeOK, RefIsNamed, CommitsAreBundles, Opened
<1>9. ASSUME NEW p \in Procs, NEW e \in Entries, AppendEntry(p, e)
      PROVE  TypeInv'
  <2>1. Append(log[p], e) \in Seq(Entries) /\ Len(Append(log[p], e)) = Len(log[p]) + 1
    BY DEF TypeInv, TypeOK
  <2>2. TypeOK'
    <3>1. log' \in [Procs -> Seq(Entries)]
      BY <1>9, <2>1 DEF AppendEntry, TypeInv, TypeOK
    <3>2. ASSUME NEW q \in Procs
          PROVE  base'[q] <= Len(log'[q])
      BY <1>9, <2>1 DEF AppendEntry, TypeInv, TypeOK
    <3>. QED BY <1>9, <3>1, <3>2 DEF AppendEntry, TypeInv, TypeOK
  <2>. QED BY <1>9, <2>2 DEF TypeInv, TypeOK, RefIsNamed, CommitsAreBundles, AppendEntry
<1>10. ASSUME NEW p \in Procs, SaveLog(p) \/ SaveCheckpoint(p)
       PROVE  TypeInv'
  BY <1>10, SaveTypeInv DEF SaveLog, SaveCheckpoint, TypeInv, TypeOK
<1>11. ASSUME NEW p \in Procs, CatBundleFails(p) \/ Quit(p)
       PROVE  TypeInv'
  BY <1>5, <1>11 DEF CatBundleFails, Quit
<1>. QED
  BY <1>1, <1>2, <1>3, <1>4, <1>6, <1>7, <1>8, <1>9, <1>10, <1>11 DEF Next

\* The state has its type, and every commit the bundles of its entries.
THEOREM TypeInvariance == Spec => []TypeInv
<1>1. TypeInv /\ [Next]_vars => TypeInv'
  BY NextTypeInv
<1>. QED BY <1>1, InitTypeInv, PTL DEF Spec

\* Every variable of Open and Save has its type (Log.Open, Log.Save).
THEOREM GitLogTypeCorrect == Spec => []TypeOK
<1>1. TypeInv => TypeOK
  BY DEF TypeInv
<1>. QED BY <1>1, TypeInvariance, PTL

-----------------------------------------------------------------------------
(* A commit reads back.                                                    *)

\* An injection of 0..n-1 onto a set counts it.
LEMMA CountByIndex ==
    ASSUME NEW n \in Nat, NEW T, NEW F \in [0..(n - 1) -> T],
           \A i, j \in 0..(n - 1) : F[i] = F[j] => i = j,
           \A x \in T : \E i \in 0..(n - 1) : F[i] = x
    PROVE  Cardinality(T) = n
<1>1. F \in Bijection(0..(n - 1), T)
  BY DEF Bijection, Injection, Surjection, IsInjective
<1>2. ExistsBijection(0..(n - 1), T)
  BY <1>1 DEF ExistsBijection
<1>3. IsFiniteSet(0..(n - 1)) /\ Cardinality(0..(n - 1)) = n
  BY FS_Interval
<1>. QED BY <1>2, <1>3, FS_Bijection

\* The bundles of a log are as many as their indices, and well formed.
LEMMA BundlesAreCounted ==
    ASSUME NEW S, NEW e \in Seq(S), NEW n \in Nat, Pieces(e) = 0..(n - 1)
    PROVE  /\ Cardinality(BundleFiles(e)) = n
           /\ ~ Malformed({f.path : f \in BundleFiles(e)})
<1> DEFINE D == 0..(n - 1)
           files == BundleFiles(e)
           ps == {f.path : f \in files}
           F == [i \in D |-> FileOf(e, i)]
           P == [i \in D |-> PathOf(e, i)]
<1>1. files = {FileOf(e, i) : i \in D}
  BY BundleFilesArePieces
<1>2. \A i \in D : FileOf(e, i).path = PathOf(e, i) /\ PathOf(e, i).index = i
  BY PathFields DEF FileOf
<1>. HIDE DEF files
<1>3. ps = {PathOf(e, i) : i \in D}
  BY <1>1, <1>2
<1>4. Cardinality(files) = n
  <2>1. F \in [D -> files]
    BY <1>1
  <2>2. \A i, j \in D : F[i] = F[j] => i = j
    BY <1>2
  <2>3. \A x \in files : \E i \in D : F[i] = x
    BY <1>1
  <2>. HIDE DEF F
  <2>. QED BY <2>1, <2>2, <2>3, CountByIndex
<1>. HIDE DEF ps
<1>5. Cardinality(ps) = n
  <2>1. P \in [D -> ps]
    BY <1>3
  <2>2. \A i, j \in D : P[i] = P[j] => i = j
    BY <1>2
  <2>3. \A x \in ps : \E i \in D : P[i] = x
    BY <1>3
  <2>. HIDE DEF P
  <2>. QED BY <2>1, <2>2, <2>3, CountByIndex
<1>6. ~ \E f, g \in ps : f # g /\ f.index = g.index
  BY <1>2, <1>3
<1>7. \A i \in 0..(Cardinality(ps) - 1) : \E f \in ps : f.index = i
  BY <1>2, <1>3, <1>5
<1>8. ~ Malformed(ps)
  BY <1>6, <1>7 DEF Malformed
<1>. QED BY <1>4, <1>8 DEF ps, files

\* The bundles in the order of their indices are the log cut at the multiples of
\* the width.
LEMMA BundlesCutTheLog ==
    ASSUME NEW S, NEW e \in Seq(S), NEW n \in Nat, Pieces(e) = 0..(n - 1)
    PROVE  \E cut \in [0..n -> 0..Len(e)] :
              /\ cut[0] = 0
              /\ cut[n] = Len(e)
              /\ \A f \in BundleFiles(e) :
                    LET k == f.path.index IN
                    /\ cut[k] <= cut[k + 1]
                    /\ f.content = SubSeq(e, cut[k] + 1, cut[k + 1])
<1> DEFINE at(k) == IF k * EntriesPerBundle < Len(e) THEN k * EntriesPerBundle ELSE Len(e)
           cut   == [k \in 0..n |-> at(k)]
<1>1. Len(e) \in Nat /\ EntriesPerBundle \in Nat \ {0}
  BY GitLogAssumption
<1>2. \A k \in Nat : at(k) \in 0..Len(e)
  BY <1>1, Multiples
<1>3. at(0) = 0
  BY <1>1
<1>4. at(n) = Len(e)
  <2>1. n \notin Pieces(e)
    OBVIOUS
  <2>. QED BY <2>1 DEF Pieces
<1>5. \A k \in 0..n : cut[k] = at(k)
  OBVIOUS
<1>6. ASSUME NEW k \in Pieces(e)
      PROVE  at(k) <= at(k + 1) /\ Bundle(e, k) = SubSeq(e, at(k) + 1, at(k + 1))
  <2>1. k \in Nat /\ k * EntriesPerBundle < Len(e)
    BY DEF Pieces
  <2>2. at(k) = k * EntriesPerBundle
    BY <2>1
  <2>3. k * EntriesPerBundle \in Nat
        /\ (k + 1) * EntriesPerBundle = k * EntriesPerBundle + EntriesPerBundle
    BY <2>1, Multiples
  <2>4. at(k) <= at(k + 1)
    BY <1>1, <2>1, <2>2, <2>3
  <2>5. Bundle(e, k) = SubSeq(e, at(k) + 1, at(k + 1))
    BY <2>2 DEF Bundle
  <2>. QED BY <2>4, <2>5
<1>. HIDE DEF at
<1>7. cut \in [0..n -> 0..Len(e)]
  BY <1>2
<1>. HIDE DEF cut
<1>8. ASSUME NEW f \in BundleFiles(e)
      PROVE  /\ cut[f.path.index] <= cut[f.path.index + 1]
             /\ f.content = SubSeq(e, cut[f.path.index] + 1, cut[f.path.index + 1])
  <2>1. PICK k \in Pieces(e) : f = FileOf(e, k)
    BY BundleFilesArePieces
  <2>2. f.path.index = k /\ f.content = Bundle(e, k)
    BY <2>1, PathFields DEF FileOf
  <2>3. k \in 0..n /\ k + 1 \in 0..n
    OBVIOUS
  <2>. QED BY <1>5, <1>6, <2>2, <2>3
<1>9. cut[0] = 0 /\ cut[n] = Len(e)
  BY <1>3, <1>4, <1>5
<1>. QED BY <1>7, <1>8, <1>9

\* Whatever processes write, also from a subdirectory or after a failed read, every
\* commit of the log ref opens, and to the entries that were saved (Save,
\* readEntries).
THEOREM CommitsReadBack == Spec => []BundlesReadBack
<1>1. ASSUME TypeInv, NEW i \in 1..Len(ref)
      PROVE  LET files   == ref[i].files
                 entries == ref[i].entries
                 n       == Cardinality(files)
             IN  /\ ~ Malformed({f.path : f \in files})
                 /\ \E cut \in [0..n -> 0..Len(entries)] :
                       /\ cut[0] = 0
                       /\ cut[n] = Len(entries)
                       /\ \A f \in files :
                             LET k == f.path.index IN
                             /\ cut[k] <= cut[k + 1]
                             /\ f.content = SubSeq(entries, cut[k] + 1, cut[k + 1])
  <2> DEFINE e == ref[i].entries
  <2>1. e \in Seq(Entries)
    <3>1. ref[i] \in Commit
      BY <1>1 DEF TypeInv, TypeOK
    <3>. QED BY <3>1 DEF Commit
  <2>2. ref[i].files = BundleFiles(e)
    BY <1>1 DEF TypeInv, CommitsAreBundles
  <2>. HIDE DEF e
  <2>3. PICK n \in Nat : Pieces(e) = 0..(n - 1)
    BY <2>1, BundleFilesArePieces
  <2>4. Cardinality(BundleFiles(e)) = n /\ ~ Malformed({f.path : f \in BundleFiles(e)})
    BY <2>1, <2>3, BundlesAreCounted
  <2>5. \E cut \in [0..n -> 0..Len(e)] :
           /\ cut[0] = 0
           /\ cut[n] = Len(e)
           /\ \A f \in BundleFiles(e) :
                 LET k == f.path.index IN
                 /\ cut[k] <= cut[k + 1]
                 /\ f.content = SubSeq(e, cut[k] + 1, cut[k + 1])
    BY <2>1, <2>3, BundlesCutTheLog
  <2>. QED BY <2>2, <2>4, <2>5 DEF e
<1>2. TypeInv => BundlesReadBack
  BY <1>1 DEF BundlesReadBack
<1>. QED BY <1>2, TypeInvariance, PTL

-----------------------------------------------------------------------------
(* What a process has read, as long as no command runs in a subdirectory.  *)

\* The checkpoint a process holds is commit c's, or cat-file failed.
CheckpointRead(r, c, checkpoint) ==
    checkpoint = r[c].cp \/ (checkpoint = <<>> /\ "cat-file" \in Fails)

\* What a process at st holds, of a log ref with the commits r: its head is an
\* earlier state of the ref, its checkpoint is of a commit not before the head, and
\* its entries are the first bundles of a commit not before that one.
ReadsAre(r, st, hd, checkpoint, ps, l, b) ==
    /\ IsPrefix(hd, r)
    /\ st \in {"idle", "resolve"} =>
          hd = <<>> /\ checkpoint = <<>> /\ l = <<>> /\ b = 0
    /\ st = "checkpoint" => hd # <<>> /\ checkpoint = <<>> /\ l = <<>>
    /\ st = "list" =>
          /\ hd # <<>> /\ l = <<>>
          /\ \E c \in Len(hd)..Len(r) : CheckpointRead(r, c, checkpoint)
    /\ st = "read" =>
          /\ hd # <<>>
          /\ \E c \in Len(hd)..Len(r) :
                /\ CheckpointRead(r, c, checkpoint)
                /\ \E i \in c..Len(r), k \in Nat :
                      l = Cut(r[i].entries, k) /\ ps = Rest(r[i].entries, k)
    /\ st = "open" =>
          \/ hd = <<>> /\ checkpoint = <<>> /\ b = 0
          \/ /\ hd # <<>>
             /\ \E c \in Len(hd)..Len(r) :
                   /\ CheckpointRead(r, c, checkpoint)
                   /\ \E i \in c..Len(r) : SubSeq(l, 1, b) = r[i].entries

Reads ==
    \A p \in Procs : ReadsAre(ref, pc[p], head[p], cp[p], paths[p], log[p], base[p])

\* A later commit extends an earlier one.
EntriesGrow ==
    \A i, j \in 1..Len(ref) : i <= j => IsPrefix(ref[i].entries, ref[j].entries)

LogInv == TypeInv /\ EntriesGrow /\ StoredCheckpointIsPrefix /\ Reads

LEMMA InitLogInv == Init => LogInv
<1>1. ASSUME Init, NEW p \in Procs
      PROVE  ReadsAre(ref, pc[p], head[p], cp[p], paths[p], log[p], base[p])
  <2>1. /\ ref = <<>> /\ pc[p] = "idle" /\ head[p] = <<>> /\ cp[p] = <<>>
        /\ log[p] = <<>> /\ base[p] = 0
    BY <1>1 DEF Init
  <2>2. <<>> \in Seq(Commit)
    OBVIOUS
  <2>3. IsPrefix(head[p], ref)
    BY <2>1, <2>2, PrefixReflexive, Zenon
  <2>. QED BY <2>1, <2>3 DEF ReadsAre
<1>2. Init => EntriesGrow /\ StoredCheckpointIsPrefix
  BY DEF Init, EntriesGrow, StoredCheckpointIsPrefix
<1>. QED BY <1>1, <1>2, InitTypeInv DEF LogInv, Reads

\* What was read stays what it was while the ref grows.
LEMMA ReadsExtend ==
    ASSUME NEW r \in Seq(Commit), NEW r2 \in Seq(Commit), IsPrefix(r, r2),
           NEW st, NEW hd \in Seq(Commit), NEW checkpoint, NEW ps, NEW l, NEW b,
           ReadsAre(r, st, hd, checkpoint, ps, l, b)
    PROVE  ReadsAre(r2, st, hd, checkpoint, ps, l, b)
<1>1. Len(r) <= Len(r2) /\ \A i \in 1..Len(r) : r2[i] = r[i]
  BY PrefixPointwise
<1>2. Len(r) \in Nat /\ Len(r2) \in Nat /\ Len(hd) \in Nat /\ (hd # <<>> => 1 <= Len(hd))
  OBVIOUS
<1>3. IsPrefix(hd, r2)
  BY PrefixTransitive DEF ReadsAre
<1>4. hd # <<>> => \A c \in Len(hd)..Len(r) :
         c \in Len(hd)..Len(r2) /\ c \in 1..Len(r) /\ c..Len(r) \subseteq c..Len(r2)
         /\ c..Len(r) \subseteq 1..Len(r)
  BY <1>1, <1>2
<1>5. hd # <<>> => \A c \in Len(hd)..Len(r) :
         CheckpointRead(r, c, checkpoint) => CheckpointRead(r2, c, checkpoint)
  BY <1>1, <1>4 DEF CheckpointRead
<1>6. ASSUME st = "list"
      PROVE  \E c \in Len(hd)..Len(r2) : CheckpointRead(r2, c, checkpoint)
  BY <1>4, <1>5, <1>6 DEF ReadsAre
<1>7. ASSUME st = "read"
      PROVE  \E c \in Len(hd)..Len(r2) :
                /\ CheckpointRead(r2, c, checkpoint)
                /\ \E i \in c..Len(r2), k \in Nat :
                      l = Cut(r2[i].entries, k) /\ ps = Rest(r2[i].entries, k)
  <2>1. PICK c \in Len(hd)..Len(r) :
           /\ CheckpointRead(r, c, checkpoint)
           /\ \E i \in c..Len(r), k \in Nat :
                 l = Cut(r[i].entries, k) /\ ps = Rest(r[i].entries, k)
    BY <1>7 DEF ReadsAre
  <2>2. PICK i \in c..Len(r), k \in Nat :
           l = Cut(r[i].entries, k) /\ ps = Rest(r[i].entries, k)
    BY <2>1
  <2>3. hd # <<>>
    BY <1>7 DEF ReadsAre
  <2>4. r2[i] = r[i] /\ i \in c..Len(r2) /\ c \in Len(hd)..Len(r2)
    BY <1>1, <1>4, <2>3
  <2>. QED BY <1>5, <2>1, <2>2, <2>3, <2>4
<1>8. ASSUME st = "open", hd # <<>>
      PROVE  \E c \in Len(hd)..Len(r2) :
                /\ CheckpointRead(r2, c, checkpoint)
                /\ \E i \in c..Len(r2) : SubSeq(l, 1, b) = r2[i].entries
  <2>1. PICK c \in Len(hd)..Len(r) :
           /\ CheckpointRead(r, c, checkpoint)
           /\ \E i \in c..Len(r) : SubSeq(l, 1, b) = r[i].entries
    BY <1>8 DEF ReadsAre
  <2>2. PICK i \in c..Len(r) : SubSeq(l, 1, b) = r[i].entries
    BY <2>1
  <2>3. r2[i] = r[i] /\ i \in c..Len(r2) /\ c \in Len(hd)..Len(r2)
    BY <1>1, <1>4, <1>8
  <2>. QED BY <1>5, <1>8, <2>1, <2>2, <2>3
<1>. QED BY <1>3, <1>6, <1>7, <1>8 DEF ReadsAre

\* The types of a commit's parts.
LEMMA CommitTypes ==
    ASSUME TypeOK, NEW i \in 1..Len(ref)
    PROVE  ref[i].entries \in Seq(Entries) /\ ref[i].cp \in Seq(Entries)
<1>1. ref[i] \in Commit
  BY DEF TypeOK
<1>. QED BY <1>1 DEF Commit

\* What an open log holds: the entries of one commit, which the checkpoint commits
\* to a prefix of and which are not older than the head.
LEMMA OpenHolds ==
    ASSUME LogInv, NEW p \in Procs, pc[p] = "open"
    PROVE  LET read == SubSeq(log[p], 1, base[p]) IN
           /\ read \in Seq(Entries)
           /\ IsPrefix(read, log[p])
           /\ read = <<>> \/ \E i \in 1..Len(ref) : read = ref[i].entries
           /\ IsPrefix(cp[p], read)
           /\ ref = head[p] /\ ref # <<>> =>
                 /\ read = Top.entries
                 /\ CheckpointRead(ref, Len(ref), cp[p])
           /\ ref = <<>> => cp[p] = <<>>
<1> DEFINE read == SubSeq(log[p], 1, base[p])
<1>1. /\ log[p] \in Seq(Entries) /\ base[p] \in 0..Len(log[p])
      /\ head[p] \in Seq(Commit) /\ ref \in Seq(Commit) /\ cp[p] \in Seq(Entries)
  BY DEF LogInv, TypeInv, TypeOK
<1>2. read \in Seq(Entries) /\ IsPrefix(read, log[p])
  BY <1>1, PrefixSubSeq
<1>3. IsPrefix(head[p], ref)
  BY DEF LogInv, Reads, ReadsAre
<1>4. CASE head[p] = <<>>
  <2>1. cp[p] = <<>> /\ base[p] = 0
    BY <1>4 DEF LogInv, Reads, ReadsAre
  <2>2. read = <<>>
    BY <1>1, <2>1
  <2>3. IsPrefix(cp[p], read)
    BY <1>2, <2>1, PrefixReflexive
  <2>. QED BY <1>2, <1>4, <2>1, <2>2, <2>3
<1>5. CASE head[p] # <<>>
  <2>1. PICK c \in Len(head[p])..Len(ref) :
           /\ CheckpointRead(ref, c, cp[p])
           /\ \E i \in c..Len(ref) : read = ref[i].entries
    BY <1>5 DEF LogInv, Reads, ReadsAre
  <2>2. PICK i \in c..Len(ref) : read = ref[i].entries
    BY <2>1
  <2>3. 1 <= Len(head[p]) /\ Len(head[p]) \in Nat /\ Len(ref) \in Nat
    BY <1>1, <1>5
  <2>4. c \in 1..Len(ref) /\ i \in 1..Len(ref) /\ c <= i
    BY <2>3
  <2>5. IsPrefix(cp[p], read)
    <3>1. IsPrefix(ref[c].cp, ref[c].entries) /\ IsPrefix(ref[c].entries, ref[i].entries)
      BY <2>4 DEF LogInv, StoredCheckpointIsPrefix, EntriesGrow
    <3>2. /\ ref[c].cp \in Seq(Entries)
          /\ ref[c].entries \in Seq(Entries)
          /\ ref[i].entries \in Seq(Entries)
      BY <2>4, CommitTypes DEF LogInv, TypeInv
    <3>3. IsPrefix(ref[c].cp, ref[i].entries)
      BY <3>1, <3>2, PrefixTransitive
    <3>4. IsPrefix(<<>>, ref[i].entries)
      BY <3>2, PrefixReflexive
    <3>. HIDE DEF read
    <3>. QED BY <2>1, <2>2, <3>3, <3>4 DEF CheckpointRead
  <2>6. ASSUME ref = head[p]
        PROVE  read = Top.entries /\ CheckpointRead(ref, Len(ref), cp[p])
    <3>1. c = Len(ref) /\ i = Len(ref)
      BY <2>3, <2>6
    <3>. HIDE DEF read
    <3>. QED BY <2>1, <2>2, <3>1 DEF Top
  <2>7. ref # <<>>
    BY <2>3, <2>4
  <2>. QED BY <1>2, <2>2, <2>4, <2>5, <2>6, <2>7
<1>. QED BY <1>4, <1>5

\* A step of Save, with a checkpoint of a prefix of the log, keeps the history one
\* line.
LEMMA SaveGrows ==
    ASSUME LogInv, NEW p \in Procs, pc[p] = "open", NEW checkpoint \in Seq(Entries),
           IsPrefix(checkpoint, log[p]), Save(p, checkpoint)
    PROVE  /\ EntriesGrow' /\ StoredCheckpointIsPrefix'
           /\ IsPrefix(ref, ref')
           /\ \/ ref' = ref
              \/ /\ entriesOf(ref') = log[p] /\ checkpointOf(ref') = checkpoint
                 /\ ref = head[p]
                 /\ IsPrefix(entriesOf(ref), log[p])
<1>1. /\ log[p] \in Seq(Entries) /\ ref \in Seq(Commit)
      /\ TypeOK /\ CommitsAreBundles
  BY DEF LogInv, TypeInv, TypeOK
<1>2. CASE ref' = ref
  BY <1>1, <1>2, PrefixReflexive DEF LogInv, EntriesGrow, StoredCheckpointIsPrefix
<1>3. CASE ref' # ref
  <2> DEFINE m == Saved(p, checkpoint)
             n == Len(ref)
  <2>1. ref = head[p] /\ ref' = Append(ref, m) /\ m \in Commit
    BY <1>1, <1>3, SaveAppends
  <2>2. /\ ref' \in Seq(Commit)
        /\ ref' # <<>>
        /\ Len(ref') = n + 1
        /\ \A i \in 1..n : ref'[i] = ref[i]
        /\ ref'[n + 1] = m
    BY <1>1, <2>1, CommitsAdd
  <2>3. m.entries = log[p] /\ m.cp = checkpoint
    BY DEF Saved
  <2>4. n \in Nat
    BY <1>1
  <2>. HIDE DEF m
  <2>5. IsPrefix(ref, ref')
    BY <1>1, <2>1, PrefixAppend
  <2>6. ref # <<>> => IsPrefix(ref[n].entries, log[p])
    <3>1. ref # <<>> => IsPrefix(Top.entries, log[p])
      BY <2>1, OpenHolds
    <3>. QED BY <3>1 DEF Top
  <2>7. ASSUME NEW i \in 1..n
        PROVE  IsPrefix(ref[i].entries, log[p])
    <3>1. ref # <<>> /\ n \in 1..n /\ i <= n
      BY <2>4
    <3>2. IsPrefix(ref[i].entries, ref[n].entries)
      BY <3>1 DEF LogInv, EntriesGrow
    <3>3. ref[i].entries \in Seq(Entries) /\ ref[n].entries \in Seq(Entries)
      BY <1>1, <3>1, CommitTypes
    <3>. QED BY <1>1, <2>6, <3>1, <3>2, <3>3, PrefixTransitive
  <2>8. \A i \in 1..(n + 1) : i \in 1..n \/ i = n + 1
    BY <2>4
  <2>9. IsPrefix(log[p], log[p])
    BY <1>1, PrefixReflexive
  <2>10. EntriesGrow'
    <3>1. ASSUME NEW i \in 1..(n + 1), NEW j \in 1..(n + 1), i <= j
          PROVE  IsPrefix(ref'[i].entries, ref'[j].entries)
      <4>1. CASE j \in 1..n
        <5>1. i \in 1..n
          BY <2>4, <3>1, <4>1
        <5>. QED BY <2>2, <3>1, <4>1, <5>1 DEF LogInv, EntriesGrow
      <4>2. CASE j = n + 1
        BY <2>2, <2>3, <2>7, <2>8, <2>9, <4>2
      <4>. QED BY <2>8, <4>1, <4>2
    <3>. QED BY <2>2, <3>1 DEF EntriesGrow
  <2>11. StoredCheckpointIsPrefix'
    BY <2>2, <2>3, <2>8 DEF LogInv, StoredCheckpointIsPrefix
  <2>12. entriesOf(ref') = log[p] /\ checkpointOf(ref') = checkpoint
    BY <2>2, <2>3 DEF entriesOf, checkpointOf
  <2>13. IsPrefix(entriesOf(ref), log[p])
    BY <1>1, <2>6, PrefixReflexive DEF entriesOf
  <2>. QED BY <2>1, <2>5, <2>10, <2>11, <2>12, <2>13
<1>. QED BY <1>2, <1>3

\* The checkpoint either command saves is of a prefix of its log.
LEMMA SaveSteps ==
    ASSUME LogInv, NEW p \in Procs, SaveLog(p) \/ SaveCheckpoint(p)
    PROVE  \E checkpoint \in Seq(Entries) :
              /\ pc[p] = "open"
              /\ IsPrefix(checkpoint, log[p])
              /\ Save(p, checkpoint)
              /\ checkpoint \in {cp[p], log[p]}
<1>1. log[p] \in Seq(Entries) /\ cp[p] \in Seq(Entries)
  BY DEF LogInv, TypeInv, TypeOK
<1>2. CASE SaveLog(p)
  <2>1. pc[p] = "open" /\ Save(p, cp[p])
    BY <1>2 DEF SaveLog
  <2>2. IsPrefix(cp[p], log[p])
    <3> DEFINE read == SubSeq(log[p], 1, base[p])
    <3>1. read \in Seq(Entries) /\ IsPrefix(cp[p], read) /\ IsPrefix(read, log[p])
      BY <2>1, OpenHolds
    <3>. HIDE DEF read
    <3>. QED BY <1>1, <3>1, PrefixTransitive
  <2>. QED BY <1>1, <2>1, <2>2
<1>3. CASE SaveCheckpoint(p)
  <2>1. pc[p] = "open" /\ Save(p, log[p])
    BY <1>3 DEF SaveCheckpoint
  <2>. QED BY <1>1, <2>1, PrefixReflexive
<1>. QED BY <1>2, <1>3

\* A step of one process: the others hold what they held.
OnlyMoves(p) ==
    \A q \in Procs \ {p} :
        /\ pc'[q] = pc[q] /\ head'[q] = head[q] /\ cp'[q] = cp[q]
        /\ paths'[q] = paths[q] /\ log'[q] = log[q] /\ base'[q] = base[q]

LEMMA ReadsStep ==
    ASSUME LogInv, TypeOK', IsPrefix(ref, ref'), NEW p \in Procs, OnlyMoves(p),
           ReadsAre(ref', pc'[p], head'[p], cp'[p], paths'[p], log'[p], base'[p])
    PROVE  Reads'
<1>. SUFFICES ASSUME NEW q \in Procs
              PROVE  ReadsAre(ref', pc'[q], head'[q], cp'[q], paths'[q], log'[q], base'[q])
  BY DEF Reads
<1>1. CASE q = p
  BY <1>1
<1>2. CASE q # p
  <2>1. ref \in Seq(Commit) /\ ref' \in Seq(Commit) /\ head[q] \in Seq(Commit)
    BY DEF LogInv, TypeInv, TypeOK
  <2>2. ReadsAre(ref, pc[q], head[q], cp[q], paths[q], log[q], base[q])
    BY DEF LogInv, Reads
  <2>3. ReadsAre(ref', pc[q], head[q], cp[q], paths[q], log[q], base[q])
    BY <2>1, <2>2, ReadsExtend
  <2>. QED BY <1>2, <2>3 DEF OnlyMoves
<1>. QED BY <1>1, <1>2

\* A command that has ended holds nothing.
LEMMA ReturnReads ==
    ASSUME LogInv, TypeOK', IsPrefix(ref, ref'), NEW p \in Procs, Return(p)
    PROVE  Reads'
<1>1. /\ pc'[p] = "idle" /\ head'[p] = <<>> /\ cp'[p] = <<>>
      /\ log'[p] = <<>> /\ base'[p] = 0
  BY DEF LogInv, TypeInv, TypeOK, Return, Goto
<1>2. OnlyMoves(p)
  BY DEF LogInv, TypeInv, TypeOK, Return, Goto, OnlyMoves
<1>3. IsPrefix(head'[p], ref')
  BY <1>1, PrefixReflexive DEF TypeOK
<1>4. ReadsAre(ref', pc'[p], head'[p], cp'[p], paths'[p], log'[p], base'[p])
  BY <1>1, <1>3 DEF ReadsAre
<1>. QED BY <1>2, <1>4, ReadsStep

\* Reading a bundle: the path listed in commit i holds, in whatever commit the ref
\* names by now, what it held in commit i.
LEMMA CatBundleReads ==
    ASSUME LogInv, TypeOK', NEW p \in Procs, CatBundle(p)
    PROVE  ReadsAre(ref', pc'[p], head'[p], cp'[p], paths'[p], log'[p], base'[p])
<1>1. /\ pc[p] = "read" /\ paths[p] # {} /\ pc'[p] = "read"
      /\ ref' = ref /\ head'[p] = head[p] /\ cp'[p] = cp[p]
  BY DEF CatBundle
<1>2. head[p] # <<>> /\ IsPrefix(head[p], ref)
  BY <1>1 DEF LogInv, Reads, ReadsAre
<1>3. PICK c \in Len(head[p])..Len(ref) :
         /\ CheckpointRead(ref, c, cp[p])
         /\ \E i \in c..Len(ref), k \in Nat :
               log[p] = Cut(ref[i].entries, k) /\ paths[p] = Rest(ref[i].entries, k)
  BY <1>1 DEF LogInv, Reads, ReadsAre
<1>4. PICK i \in c..Len(ref), k \in Nat :
         log[p] = Cut(ref[i].entries, k) /\ paths[p] = Rest(ref[i].entries, k)
  BY <1>3
<1> DEFINE e == ref[i].entries
           d == Top.entries
<1>5. i \in 1..Len(ref) /\ Len(ref) \in 1..Len(ref) /\ i <= Len(ref)
  <2>1. head[p] \in Seq(Commit) /\ ref \in Seq(Commit)
    BY DEF LogInv, TypeInv, TypeOK
  <2>2. 1 <= Len(head[p]) /\ Len(head[p]) \in Nat /\ Len(ref) \in Nat
    BY <1>2, <2>1
  <2>. QED BY <2>2
<1>6. e \in Seq(Entries) /\ d \in Seq(Entries) /\ IsPrefix(e, d)
  BY <1>5, CommitTypes DEF LogInv, TypeInv, EntriesGrow, Top
<1>7. Top.files = BundleFiles(d)
  BY <1>1, TopTypes DEF LogInv
<1>8. log[p] = Cut(e, k) /\ paths[p] = Rest(e, k)
  BY <1>4
<1>. HIDE DEF e, d
<1>9. k \in Pieces(e) /\ NextPath(p) = PathOf(e, k) /\ Rest(e, k) \ {PathOf(e, k)} = Rest(e, k + 1)
  BY <1>1, <1>6, <1>8, RestStep DEF NextPath
<1>10. PICK f \in Top.files : f.path = NextPath(p) /\ log' = [log EXCEPT ![p] = @ \o f.content]
  BY DEF CatBundle
<1>11. PICK j \in Pieces(d) : f = FileOf(d, j)
  BY <1>6, <1>7, BundleFilesArePieces
<1>12. f.path = PathOf(d, j) /\ f.content = Bundle(d, j)
  BY <1>11 DEF FileOf
<1>13. f.content = Bundle(e, k)
  <2>1. PathOf(e, k) = PathOf(d, j)
    BY <1>9, <1>10, <1>12
  <2>2. \A a, b \in Seq(Entries) : \A x \in Pieces(a), y \in Pieces(b) :
           IsPrefix(a, b) /\ PathOf(a, x) = PathOf(b, y) => Bundle(a, x) = Bundle(b, y)
    BY PathIsContent
  <2>3. Bundle(e, k) = Bundle(d, j)
    BY <1>6, <1>9, <2>1, <2>2
  <2>. QED BY <1>12, <2>3
<1>14. log'[p] = log[p] \o f.content
  BY <1>10 DEF LogInv, TypeInv, TypeOK
<1>15. log'[p] = Cut(e, k + 1)
  BY <1>6, <1>8, <1>9, <1>13, <1>14, CutStep
<1>16. paths'[p] = Rest(e, k + 1)
  BY <1>8, <1>9 DEF CatBundle, LogInv, TypeInv, TypeOK
<1>17. \E n \in c..Len(ref), m \in Nat :
          log'[p] = Cut(ref[n].entries, m) /\ paths'[p] = Rest(ref[n].entries, m)
  BY <1>15, <1>16 DEF e
<1>. QED BY <1>1, <1>2, <1>3, <1>17 DEF ReadsAre

\* The other steps of Open, and appending to an open log.
LEMMA OpenStepReads ==
    ASSUME Subdir = {}, LogInv, TypeOK', NEW p \in Procs,
           \/ RefExists(p) \/ RefExistsFails(p) \/ ResolveRef(p)
           \/ CatCheckpoint(p) \/ CatCheckpointFails(p)
           \/ LsTree(p) /\ ~ Return(p)
           \/ Opened(p) \/ \E x \in Entries : AppendEntry(p, x)
    PROVE  ReadsAre(ref', pc'[p], head'[p], cp'[p], paths'[p], log'[p], base'[p])
<1>1. ReadsAre(ref, pc[p], head[p], cp[p], paths[p], log[p], base[p])
  BY DEF LogInv, Reads
<1>2. /\ p \in DOMAIN pc /\ p \in DOMAIN head /\ p \in DOMAIN cp
      /\ p \in DOMAIN paths /\ p \in DOMAIN log /\ p \in DOMAIN base
  BY DEF LogInv, TypeInv, TypeOK
<1>3. /\ ref \in Seq(Commit) /\ head[p] \in Seq(Commit) /\ log[p] \in Seq(Entries)
      /\ base[p] \in 0..Len(log[p])
  BY DEF LogInv, TypeInv, TypeOK
<1>4. IsPrefix(head[p], ref) /\ Len(head[p]) <= Len(ref)
      /\ Len(head[p]) \in Nat /\ Len(ref) \in Nat
  BY <1>1, <1>3, PrefixPointwise DEF ReadsAre
<1>5. pc[p] \in {"resolve", "checkpoint", "list", "read"} => ref # <<>>
  BY DEF LogInv, TypeInv, RefIsNamed
<1>6. CASE RefExists(p) \/ RefExistsFails(p)
  <2>1. /\ pc[p] = "idle" /\ pc'[p] \in {"open", "resolve"}
        /\ UNCHANGED <<ref, head, cp, paths, log, base>>
    BY <1>2, <1>6 DEF RefExists, RefExistsFails, Goto
  <2>. QED BY <1>1, <2>1 DEF ReadsAre
<1>7. CASE ResolveRef(p)
  <2>1. /\ pc[p] = "resolve" /\ pc'[p] = "checkpoint" /\ head'[p] = ref
        /\ UNCHANGED <<ref, cp, paths, log, base>>
    BY <1>2, <1>7 DEF ResolveRef, Goto
  <2>2. IsPrefix(ref, ref)
    BY <1>3, PrefixReflexive
  <2>. QED BY <1>1, <1>5, <2>1, <2>2 DEF ReadsAre
<1>8. CASE CatCheckpoint(p) \/ CatCheckpointFails(p)
  <2>1. /\ pc[p] = "checkpoint" /\ pc'[p] = "list"
        /\ UNCHANGED <<ref, head, paths, log, base>>
    BY <1>2, <1>8 DEF CatCheckpoint, CatCheckpointFails, Goto
  <2>2. CheckpointRead(ref, Len(ref), cp'[p])
    BY <1>1, <1>2, <1>8 DEF CatCheckpoint, CatCheckpointFails, CheckpointRead, Top, ReadsAre
  <2>3. Len(ref) \in Len(head[p])..Len(ref)
    BY <1>4
  <2>. QED BY <1>1, <2>1, <2>2, <2>3 DEF ReadsAre
<1>9. CASE LsTree(p) /\ ~ Return(p)
  <2> DEFINE e == Top.entries
  <2>1. /\ pc[p] = "list" /\ pc'[p] = "read"
        /\ paths'[p] = {f.path : f \in Top.files}
        /\ UNCHANGED <<ref, head, cp, log, base>>
    BY <1>2, <1>9 DEF LsTree, Goto
  <2>2. Top.files = BundleFiles(e) /\ e \in Seq(Entries)
    BY <2>1, TopTypes DEF LogInv
  <2>3. ref[Len(ref)].entries = e
    BY DEF Top
  <2>. HIDE DEF e
  <2>4. paths'[p] = Rest(e, 0)
    BY <2>1, <2>2, RestAll
  <2>5. head[p] # <<>> /\ log[p] = <<>>
    BY <1>1, <2>1 DEF ReadsAre
  <2>6. log[p] = Cut(e, 0)
    BY <2>2, <2>5, CutNone
  <2>7. PICK c \in Len(head[p])..Len(ref) : CheckpointRead(ref, c, cp[p])
    BY <1>1, <2>1 DEF ReadsAre
  <2>8. Len(ref) \in c..Len(ref) /\ 0 \in Nat
    BY <1>4
  <2>9. \E i \in c..Len(ref), k \in Nat :
           log'[p] = Cut(ref'[i].entries, k) /\ paths'[p] = Rest(ref'[i].entries, k)
    BY <2>1, <2>3, <2>4, <2>6, <2>8
  <2>. QED BY <1>4, <2>1, <2>5, <2>7, <2>9 DEF ReadsAre
<1>10. CASE Opened(p)
  <2>1. /\ pc[p] = "read" /\ pc'[p] = "open" /\ paths[p] = {}
        /\ base'[p] = Len(log[p])
        /\ UNCHANGED <<ref, head, cp, paths, log>>
    BY <1>2, <1>10 DEF Opened, Goto
  <2>2. PICK c \in Len(head[p])..Len(ref) :
           /\ CheckpointRead(ref, c, cp[p])
           /\ \E i \in c..Len(ref), k \in Nat :
                 log[p] = Cut(ref[i].entries, k) /\ paths[p] = Rest(ref[i].entries, k)
    BY <1>1, <2>1 DEF ReadsAre
  <2>3. PICK i \in c..Len(ref), k \in Nat :
           log[p] = Cut(ref[i].entries, k) /\ paths[p] = Rest(ref[i].entries, k)
    BY <2>2
  <2> DEFINE e == ref[i].entries
  <2>4. head[p] # <<>>
    BY <1>1, <2>1 DEF ReadsAre
  <2>5. e \in Seq(Entries)
    <3>1. 1 <= Len(head[p])
      BY <1>3, <2>4
    <3>2. i \in 1..Len(ref)
      BY <1>4, <3>1
    <3>. QED BY <3>2, CommitTypes DEF LogInv, TypeInv
  <2>6. log[p] = Cut(e, k) /\ Rest(e, k) = {}
    BY <2>1, <2>3
  <2>. HIDE DEF e
  <2>7. k \notin Pieces(e)
    BY <2>6 DEF Rest
  <2>8. log[p] = e
    BY <2>5, <2>6, <2>7, CutAll
  <2>9. SubSeq(log[p], 1, Len(log[p])) = log[p]
    BY <1>3
  <2>10. SubSeq(log'[p], 1, base'[p]) = ref'[i].entries
    BY <2>1, <2>8, <2>9 DEF e
  <2>. QED BY <1>4, <2>1, <2>2, <2>4, <2>10 DEF ReadsAre
<1>11. ASSUME NEW x \in Entries, AppendEntry(p, x)
       PROVE  ReadsAre(ref', pc'[p], head'[p], cp'[p], paths'[p], log'[p], base'[p])
  <2>1. /\ pc[p] = "open" /\ log'[p] = Append(log[p], x)
        /\ UNCHANGED <<ref, pc, head, cp, paths, base>>
    BY <1>2, <1>11 DEF AppendEntry
  <2>2. SubSeq(Append(log[p], x), 1, base[p]) = SubSeq(log[p], 1, base[p])
    BY <1>3
  <2>3. SubSeq(log'[p], 1, base'[p]) = SubSeq(log[p], 1, base[p])
    BY <2>1, <2>2
  <2>. QED BY <1>1, <2>1, <2>3 DEF ReadsAre
<1>. QED BY <1>6, <1>7, <1>8, <1>9, <1>10, <1>11

LEMMA NextLogInv ==
    ASSUME Subdir = {}, LogInv, [Next]_vars
    PROVE  LogInv' /\ IsPrefix(ref, ref')
<1>1. TypeInv' /\ TypeOK'
  BY NextTypeInv DEF LogInv, TypeInv
<1>2. ref \in Seq(Commit) /\ IsPrefix(ref, ref)
  BY PrefixReflexive DEF LogInv, TypeInv, TypeOK
<1>3. ASSUME ref' = ref
      PROVE  EntriesGrow' /\ StoredCheckpointIsPrefix' /\ IsPrefix(ref, ref')
  BY <1>2, <1>3 DEF LogInv, EntriesGrow, StoredCheckpointIsPrefix
<1>4. CASE UNCHANGED vars
  <2>1. Reads'
    BY <1>4 DEF LogInv, Reads, vars
  <2>2. ref' = ref
    BY <1>4 DEF vars
  <2>. QED BY <1>1, <1>3, <2>1, <2>2 DEF LogInv
<1>5. ASSUME NEW p \in Procs, Return(p), ref' = ref
      PROVE  LogInv' /\ IsPrefix(ref, ref')
  <2>1. IsPrefix(ref, ref')
    BY <1>3, <1>5
  <2>2. Reads'
    BY <1>1, <1>5, <2>1, ReturnReads
  <2>. QED BY <1>1, <1>3, <1>5, <2>2 DEF LogInv
<1>6. ASSUME NEW p \in Procs,
             \/ RefExists(p) \/ RefExistsFails(p) \/ ResolveRef(p)
             \/ CatCheckpoint(p) \/ CatCheckpointFails(p)
             \/ LsTree(p) /\ ~ Return(p)
             \/ Opened(p) \/ \E x \in Entries : AppendEntry(p, x)
      PROVE  LogInv' /\ IsPrefix(ref, ref')
  <2>1. ref' = ref
    BY <1>6
       DEF RefExists, RefExistsFails, ResolveRef, CatCheckpoint, CatCheckpointFails, LsTree,
           Opened, AppendEntry
  <2>2. OnlyMoves(p)
    BY <1>6
       DEF RefExists, RefExistsFails, ResolveRef, CatCheckpoint, CatCheckpointFails, LsTree,
           Opened, AppendEntry, Goto, OnlyMoves, LogInv, TypeInv, TypeOK
  <2>3. ReadsAre(ref', pc'[p], head'[p], cp'[p], paths'[p], log'[p], base'[p])
    BY <1>1, <1>6, OpenStepReads
  <2>4. Reads'
    BY <1>1, <1>3, <2>1, <2>2, <2>3, ReadsStep
  <2>. QED BY <1>1, <1>3, <2>1, <2>4 DEF LogInv
<1>7. ASSUME NEW p \in Procs, CatBundle(p)
      PROVE  LogInv' /\ IsPrefix(ref, ref')
  <2>1. ref' = ref
    BY <1>7 DEF CatBundle
  <2>2. OnlyMoves(p)
    BY <1>7 DEF CatBundle, OnlyMoves, LogInv, TypeInv, TypeOK
  <2>3. ReadsAre(ref', pc'[p], head'[p], cp'[p], paths'[p], log'[p], base'[p])
    BY <1>1, <1>7, CatBundleReads
  <2>4. Reads'
    BY <1>1, <1>3, <2>1, <2>2, <2>3, ReadsStep
  <2>. QED BY <1>1, <1>3, <2>1, <2>4 DEF LogInv
<1>8. ASSUME NEW p \in Procs, SaveLog(p) \/ SaveCheckpoint(p)
      PROVE  LogInv' /\ IsPrefix(ref, ref')
  <2>1. PICK checkpoint \in Seq(Entries) :
           pc[p] = "open" /\ IsPrefix(checkpoint, log[p]) /\ Save(p, checkpoint)
    BY <1>8, SaveSteps
  <2>2. EntriesGrow' /\ StoredCheckpointIsPrefix' /\ IsPrefix(ref, ref')
    BY <2>1, SaveGrows
  <2>3. Reads'
    BY <1>1, <2>1, <2>2, ReturnReads DEF Save
  <2>. QED BY <1>1, <2>2, <2>3 DEF LogInv
<1>9. ASSUME NEW p \in Procs, CatBundleFails(p) \/ Quit(p) \/ (LsTree(p) /\ Return(p))
      PROVE  LogInv' /\ IsPrefix(ref, ref')
  BY <1>5, <1>9 DEF CatBundleFails, Quit, LsTree
<1>10. ASSUME Next
       PROVE  LogInv' /\ IsPrefix(ref, ref')
  <2>1. PICK p \in Procs :
           \/ RefExists(p) \/ RefExistsFails(p) \/ ResolveRef(p)
           \/ CatCheckpoint(p) \/ CatCheckpointFails(p) \/ LsTree(p)
           \/ CatBundle(p) \/ CatBundleFails(p) \/ Opened(p)
           \/ (\E x \in Entries : AppendEntry(p, x))
           \/ SaveLog(p) \/ SaveCheckpoint(p) \/ Quit(p)
    BY <1>10 DEF Next
  <2>2. CASE LsTree(p) /\ Return(p)
    BY <1>9, <2>2
  <2>3. CASE LsTree(p) /\ ~ Return(p)
    BY <1>6, <2>3
  <2>. QED BY <1>6, <1>7, <1>8, <1>9, <2>1, <2>2, <2>3
<1>. QED BY <1>4, <1>10

-----------------------------------------------------------------------------
(* Theorems.                                                               *)

\* The invariant holds in every state.
THEOREM LogInvariance ==
    ASSUME Subdir = {}
    PROVE  Spec => []LogInv
<1>1. LogInv /\ [Next]_vars => LogInv'
  BY NextLogInv
<1>. QED BY <1>1, InitLogInv, PTL DEF Spec

\* Open's git commands each resolve the ref anew, and an Open that succeeds still has
\* the entries of one commit: what a path names never changes (Log.Open).
THEOREM OpenIsOneCommit ==
    ASSUME Subdir = {}
    PROVE  Spec => []OpenReadsOneCommit
<1>1. LogInv => OpenReadsOneCommit
  BY OpenHolds DEF OpenReadsOneCommit
<1>. QED BY <1>1, LogInvariance, PTL

\* The checkpoint is read before the entries, so it never commits to more than Open
\* returns (Log.Open, Log.Checkpointed).
THEOREM OpenCoversCheckpoint ==
    ASSUME Subdir = {}
    PROVE  Spec => []OpenedCheckpointIsCovered
<1>1. LogInv => OpenedCheckpointIsCovered
  BY OpenHolds DEF OpenedCheckpointIsCovered
<1>. QED BY <1>1, LogInvariance, PTL

\* A stored checkpoint is one of the log it is stored with, if --repo is the top of
\* the work tree; the run gitlog_subdir shows that it need not be otherwise
\* (logRefs, ls-tree in gitlog.go).
THEOREM StoredCheckpointsFit ==
    ASSUME Subdir = {}
    PROVE  Spec => []StoredCheckpointIsPrefix
<1>1. LogInv => StoredCheckpointIsPrefix
  BY DEF LogInv
<1>. QED BY <1>1, LogInvariance, PTL

\* No step takes an entry off the log, or replaces a stored checkpoint by one that
\* does not extend it (Log.Save: update-ref with the expected old value).
THEOREM SavesOnlyGrow ==
    ASSUME Subdir = {}
    PROVE  Spec => LogOnlyGrows
<1> DEFINE Grows ==
      /\ IsPrefix(entriesOf(ref), entriesOf(ref'))
      /\ \/ IsPrefix(checkpointOf(ref), checkpointOf(ref'))
         \/ checkpointOf(ref') = <<>> /\ "cat-file" \in Fails
<1>1. ASSUME LogInv
      PROVE  entriesOf(ref) \in Seq(Entries) /\ checkpointOf(ref) \in Seq(Entries)
  <2>1. ref # <<>> => Len(ref) \in 1..Len(ref)
    BY <1>1 DEF LogInv, TypeInv, TypeOK
  <2>2. ref # <<>> => ref[Len(ref)].entries \in Seq(Entries) /\ ref[Len(ref)].cp \in Seq(Entries)
    BY <1>1, <2>1, CommitTypes DEF LogInv, TypeInv
  <2>3. <<>> \in Seq(Entries)
    OBVIOUS
  <2>. QED BY <2>2, <2>3 DEF entriesOf, checkpointOf
<1>2. ASSUME LogInv, ref' = ref
      PROVE  Grows
  <2>1. IsPrefix(entriesOf(ref), entriesOf(ref)) /\ IsPrefix(checkpointOf(ref), checkpointOf(ref))
    BY <1>1, <1>2, PrefixReflexive
  <2>. QED BY <1>2, <2>1
<1>3. ASSUME LogInv, NEW p \in Procs, SaveLog(p) \/ SaveCheckpoint(p), ref' # ref
      PROVE  Grows
  <2>1. PICK checkpoint \in Seq(Entries) :
           /\ pc[p] = "open" /\ IsPrefix(checkpoint, log[p]) /\ Save(p, checkpoint)
           /\ checkpoint \in {cp[p], log[p]}
    BY <1>3, SaveSteps
  <2>2. /\ entriesOf(ref') = log[p] /\ checkpointOf(ref') = checkpoint
        /\ ref = head[p]
        /\ IsPrefix(entriesOf(ref), log[p])
    BY <1>3, <2>1, SaveGrows
  <2>3. CASE ref = <<>>
    <3>1. checkpointOf(ref) = <<>>
      BY <2>3 DEF checkpointOf
    <3>2. IsPrefix(checkpointOf(ref), checkpoint)
      BY <3>1, PrefixReflexive
    <3>. QED BY <2>2, <3>2
  <2>4. CASE ref # <<>>
    <3>1. checkpointOf(ref) = ref[Len(ref)].cp /\ entriesOf(ref) = ref[Len(ref)].entries
      BY <2>4 DEF checkpointOf, entriesOf
    <3>2. CheckpointRead(ref, Len(ref), cp[p])
      BY <1>3, <2>1, <2>2, <2>4, OpenHolds
    <3>3. CASE checkpoint = cp[p]
      <4>1. IsPrefix(checkpointOf(ref), checkpointOf(ref))
        BY <1>1, <1>3, PrefixReflexive
      <4>. QED BY <2>2, <3>1, <3>2, <3>3, <4>1 DEF CheckpointRead
    <3>4. CASE checkpoint = log[p]
      <4>1. Len(ref) \in 1..Len(ref)
        BY <1>3, <2>4 DEF LogInv, TypeInv, TypeOK
      <4>2. IsPrefix(checkpointOf(ref), entriesOf(ref))
        BY <1>3, <3>1, <4>1 DEF LogInv, StoredCheckpointIsPrefix
      <4>3. IsPrefix(checkpointOf(ref), log[p])
        BY <1>1, <1>3, <2>1, <2>2, <3>4, <4>2, PrefixTransitive
      <4>. QED BY <2>2, <3>4, <4>3
    <3>. QED BY <2>1, <3>3, <3>4
  <2>. QED BY <2>3, <2>4
<1>4. LogInv /\ [Next]_vars => [Grows]_vars
  <2>. HIDE DEF Grows
  <2>1. ASSUME LogInv, Next, ref' # ref
        PROVE  \E p \in Procs : SaveLog(p) \/ SaveCheckpoint(p)
    BY <2>1
       DEF Next, RefExists, RefExistsFails, ResolveRef, CatCheckpoint, CatCheckpointFails,
           LsTree, CatBundle, CatBundleFails, Opened, AppendEntry, Quit
  <2>. QED BY <1>2, <1>3, <2>1
<1>5. Spec => [][Grows]_vars
  <2>. HIDE DEF Grows
  <2>. QED BY <1>4, LogInvariance, PTL DEF Spec
<1>. QED BY <1>5 DEF LogOnlyGrows
=============================================================================
