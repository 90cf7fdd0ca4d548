------------------------------- MODULE Merkle -------------------------------
(***************************************************************************)
(* The Merkle tree (internal/tlog): root hashes and consistency proofs     *)
(* computed from the leaves, put to a witness that keeps a size and a root *)
(* and nothing else.  Every other module represents a root by the sequence *)
(* it commits to and a proof by IsPrefix; here both are computed, and the  *)
(* answers are compared.                                                   *)
(*                                                                         *)
(* A hash is the term it was computed from, so two are equal exactly if    *)
(* they were computed alike (SHA-256 is taken to be collision free, and    *)
(* the prefixes 0x00 and 0x01 keep leaves and nodes apart).                *)
(***************************************************************************)
EXTENDS RefChain

CONSTANTS
    Witnesses,
    MaxLog      \* bound on the entries of the log

ASSUME MaxLogAssumption == MaxLog \in Nat

VARIABLES
    tree,    \* the entries of the log a client opens
    stored,  \* stored[w]: the size and root of the checkpoint w cosigned last
    held     \* held[w]: the entries that checkpoint was made for, which w never sees

mvars == <<tree, stored, held>>

-----------------------------------------------------------------------------
(* uint64 shifts; sizes stay far below 2^64.                               *)

Shl(i, level) == LET f[k \in Nat] == IF k = 0 THEN i ELSE 2 * f[k - 1] IN f[level]

Shr(i, level) == LET f[k \in Nat] == IF k = 0 THEN i ELSE f[k - 1] \div 2 IN f[level]

\* The bits of n below its lowest one.
TrailingZeros(n) ==
    CHOOSE k \in 0..n : Shr(n, k) % 2 = 1 /\ \A j \in 0..(k - 1) : Shr(n, j) % 2 = 0

-----------------------------------------------------------------------------
(* Hashes (rfc6962.DefaultHasher) and roots.                               *)

HashLeaf(data) == <<0, data>>
HashChildren(l, r) == <<1, l, r>>
emptyRoot == <<2>>

leafHashes(log) == [i \in 1..Len(log) |-> HashLeaf(log[i])]

\* The nodes of one subtree, left to right, as one hash: the last two are
\* combined first (GetRootHash, Nodes.Rehash).
Collapse(hashes) ==
    LET acc[k \in 0..(Len(hashes) - 1)] ==
            IF k = 0 THEN hashes[Len(hashes)]
            ELSE HashChildren(hashes[Len(hashes) - k], acc[k - 1])
    IN  acc[Len(hashes) - 1]

\* compact.Range of size leaves with one leaf more: while the new subtree has a
\* sibling of its size to its left, the two are merged.
Merge(hashes, seed, size) ==
    LET kept == Len(hashes) - TrailingZeros(size + 1)
    IN  Append(SubSeq(hashes, 1, kept),
               Collapse(Append(SubSeq(hashes, kept + 1, Len(hashes)), seed)))

\* Root's loop: the compact range of the first i leaves.
compactRange(leaves, i) ==
    LET r[k \in 0..Len(leaves)] ==
            IF k = 0 THEN <<>> ELSE Merge(r[k - 1], leaves[k], k - 1)
    IN  r[i]

\* Mutant: every leaf is merged as if the range were full.
Root_Unbalanced(leaves) ==
    IF leaves = <<>> THEN emptyRoot
    ELSE FoldLeft(HashChildren, Head(leaves), Tail(leaves))

Root(leaves) ==
    IF leaves = <<>> THEN emptyRoot ELSE Collapse(compactRange(leaves, Len(leaves)))

-----------------------------------------------------------------------------
(* Consistency proofs.                                                     *)

Node(level, index) == [level |-> level, index |-> index]

\* compact.RangeNodes: the perfect subtrees, left to right, that make up what the
\* last node of a level covers in a tree of n leaves, if it is not perfect itself.
RangeNodes(n, level) ==
    LET ids[k \in Nat] ==
            IF k = 0 THEN <<>>
            ELSE IF Shr(n, k - 1) % 2 = 1 THEN <<Node(k - 1, Shr(n, k - 1) - 1)>> \o ids[k - 1]
            ELSE ids[k - 1]
    IN  ids[level]

\* The nodes a hash of the proof is computed from: a node of the tree of n leaves,
\* or the ones that an ephemeral node at its right edge stands for.
Resolve(n, id) ==
    IF Shl(id.index + 1, id.level) <= n THEN <<id>> ELSE RangeNodes(n, id.level)

\* The sibling, at a level of the tree of n leaves, of the node above leaf m - 1;
\* none if that node is the last of its level and a left child.
Siblings(m, n, level) ==
    LET first == Shr(m - 1, level)
        last  == Shr(n - 1, level)
    IN  CASE first % 2 = 1                  -> <<<<Node(level, first - 1)>>>>
          [] first % 2 = 0 /\ first < last  -> <<Resolve(n, Node(level, first + 1))>>
          [] first % 2 = 0 /\ first >= last -> <<>>

\* proof.Consistency: the largest perfect subtree that ends at m, unless it is
\* the whole old tree, and the siblings on the way from it to the root.  A tree of
\* n leaves has no more than n levels, and above its root there are no siblings.
Consistency(m, n) ==
    LET level == TrailingZeros(m)
        start == IF Shr(m - 1, level) = 0 THEN <<>>
                 ELSE <<<<Node(level, Shr(m - 1, level))>>>>
        ids[k \in Nat] == IF k = 0 THEN start
                          ELSE ids[k - 1] \o Siblings(m, n, level + k - 1)
    IN  ids[n]

\* nodeSource.hash refuses a node outside the tree.
Outside(leaves, id) == Shl(id.index + 1, id.level) > Len(leaves)

\* Mutant: the subtree's last leaf is taken for its end.
nodeHash_Short(leaves, id) ==
    Root(SubSeq(leaves, Shl(id.index, id.level) + 1, Shl(id.index + 1, id.level) - id.level))

\* nodeSource.hash of a node inside the tree.
nodeHash(leaves, id) ==
    Root(SubSeq(leaves, Shl(id.index, id.level) + 1, Shl(id.index + 1, id.level)))

\* nodeSource.fetch: the hashes of a proof, ephemeral nodes collapsed; none is an
\* error.
fetch(leaves, nodes) ==
    {proof \in {[i \in 1..Len(nodes) |->
                   Collapse([j \in 1..Len(nodes[i]) |-> nodeHash(leaves, nodes[i][j])])]} :
        \A i \in 1..Len(nodes) : \A j \in 1..Len(nodes[i]) : ~ Outside(leaves, nodes[i][j])}

\* ConsistencyProof: the proof, or none and an error.
ConsistencyProof(leaves, m) ==
    CASE m > Len(leaves)           -> {}
      [] m \in {0, Len(leaves)}    -> {<<>>}
      [] m \in 1..(Len(leaves)-1)  -> fetch(leaves, Consistency(m, Len(leaves)))

-----------------------------------------------------------------------------
(* The other side (external): a witness that verifies a proof.             *)

\* RFC 9162 2.1.4.2, one level up from the nodes fn and sn above the last leaves of
\* the two trees: fr and sr are the hashes of node fn in either, used counts the
\* hashes of the proof they took.  Without a hash it needs it gets no further.
Climb(at, proof) ==
    LET up == [at EXCEPT !.fn = @ \div 2, !.sn = @ \div 2]
    IN  CASE at.fn % 2 = 0 /\ at.fn >= at.sn -> up
          [] at.fn % 2 = 1 /\ at.used < Len(proof) ->
                [up EXCEPT !.used = @ + 1,
                           !.fr = HashChildren(proof[at.used + 1], @),
                           !.sr = HashChildren(proof[at.used + 1], @)]
          [] at.fn % 2 = 0 /\ at.fn < at.sn /\ at.used < Len(proof) ->
                [up EXCEPT !.used = @ + 1,
                           !.sr = HashChildren(@, proof[at.used + 1])]
          [] (at.fn % 2 = 1 \/ at.fn < at.sn) /\ at.used >= Len(proof) -> at

\* Where the climb starts that shows a tree of m leaves to be part of one of n: at
\* the largest perfect subtree that ends at m, with its hash.
Start(m, n, seed, used) ==
    LET level == TrailingZeros(m)
    IN  [fn |-> Shr(m - 1, level), sn |-> Shr(n - 1, level),
         used |-> used, fr |-> seed, sr |-> seed]

\* Whether a climb from a start uses up the proof and ends at the roots of both.
Leads(start, old, new, proof) ==
    LET at[k \in Nat] == IF k = 0 THEN start ELSE Climb(at[k - 1], proof)
        top == at[new.size]
    IN  top.sn = 0 /\ top.used = Len(proof) /\ top.fr = old.root /\ top.sr = new.root

\* Whether proof shows that the tree of new extends the tree of old.
VerifyConsistency(old, new, proof) ==
    CASE old.size > new.size -> FALSE
      [] old.size = new.size -> proof = <<>> /\ old.root = new.root
      [] old.size = 0 /\ old.size < new.size -> proof = <<>>
      [] old.size > 0 /\ old.size < new.size ->
            IF Shr(old.size - 1, TrailingZeros(old.size)) = 0
            THEN Leads(Start(old.size, new.size, old.root, 0), old, new, proof)
            ELSE /\ proof # <<>>
                 /\ Leads(Start(old.size, new.size, proof[1], 1), old, new, proof)

\* The answer of a witness that keeps the checkpoint mine.
HashAnswer(mine, from, submitted, proof) ==
    CASE from # mine.size -> "stale"
      [] from = mine.size /\ VerifyConsistency(mine, submitted, proof) -> "cosigned"
      [] from = mine.size /\ ~ VerifyConsistency(mine, submitted, proof) ->
            IF submitted.size = mine.size THEN "rootMismatch" ELSE "invalidProof"

-----------------------------------------------------------------------------
\* NewCheckpoint of a log (Log.Size, Log.Root).
NewCheckpoint(log) == [size |-> Len(log), root |-> Root(leafHashes(log))]

\* Mutant: the root of the trimmed log is not compared.
Checkpointed_SizeOnly(log, checkpoint) ==
    {trimmed \in {SubSeq(log, 1, Min({checkpoint.size, Len(log)}))} :
        checkpoint.size <= Len(log)}

\* Log.Checkpointed: the entries a checkpoint commits to; none is an error.
Checkpointed(log, checkpoint) ==
    {trimmed \in {SubSeq(log, 1, Min({checkpoint.size, Len(log)}))} :
        /\ checkpoint.size <= Len(log)
        /\ Root(leafHashes(trimmed)) = checkpoint.root}

MerkleInit ==
    /\ held = [w \in Witnesses |-> <<>>]
    /\ tree = <<>>
    /\ stored = [w \in Witnesses |-> NewCheckpoint(<<>>)]

AppendEntry(e) ==
    /\ Len(tree) < MaxLog
    /\ tree' = Append(tree, e)
    /\ UNCHANGED <<stored, held>>

\* The client opens another log, here one that shares the first k entries.
OpenOther(k) ==
    /\ tree' = SubSeq(tree, 1, k)
    /\ UNCHANGED <<stored, held>>

\* submit: a checkpoint of the log and a proof from the size from.
AddCheckpoint(w, from) ==
    /\ tree # <<>>
    /\ \E proof \in ConsistencyProof(leafHashes(tree), from) :
           HashAnswer(stored[w], from, NewCheckpoint(tree), proof) = "cosigned"
    /\ stored' = [stored EXCEPT ![w] = NewCheckpoint(tree)]
    /\ held' = [held EXCEPT ![w] = tree]
    /\ UNCHANGED tree

MerkleNext ==
    \/ \E e \in Entry : AppendEntry(e)
    \/ \E k \in 0..(Len(tree) - 1) : OpenOther(k)
    \/ \E w \in Witnesses, from \in 0..MaxLog : AddCheckpoint(w, from)

MerkleSpec == MerkleInit /\ [][MerkleNext]_mvars

-----------------------------------------------------------------------------
(* Properties.                                                             *)

\* The largest power of two below n, as RFC 6962 splits a tree of n leaves.
Split(n) == CHOOSE k \in {Shl(1, i) : i \in 0..n} : k < n /\ n <= 2 * k

\* RFC 6962 2.1: what defines the tree hash of a log, of one from its two halves.
IsTreeHash(log, hash) ==
    CASE Len(log) = 0 -> hash = <<2>>
      [] Len(log) = 1 -> hash = <<0, log[1]>>
      [] Len(log) > 1 ->
            LET k == Split(Len(log))
            IN  hash = <<1, Root(leafHashes(SubSeq(log, 1, k))),
                            Root(leafHashes(SubSeq(log, k + 1, Len(log))))>>

\* Appending leaf by leaf to a compact range and folding it gives the tree hash
\* RFC 6962 defines, whatever the size: the equations of its definition hold for
\* every range of entries, so for the halves, their halves and so on.
RootIsMTH ==
    \A b \in 1..(Len(tree) + 1), e \in 0..Len(tree) :
        IsTreeHash(SubSeq(tree, b, e), Root(leafHashes(SubSeq(tree, b, e))))

\* Only its AnswerFrom is used, which reads no variable.
Abstract == INSTANCE Witness WITH cosigned <- [w \in Witnesses |-> {held[w]}]

\* What Witness takes for granted: a proof computed over the submitter's own
\* entries can be made from every size up to the log's ("Proof generation only
\* ever asks for nodes whose subtree lies wholly within the tree"), and the answer
\* of a witness that keeps a size and a root is the one that comparing the entries
\* themselves would give.
PrefixDecides ==
    \A w \in Witnesses, from \in 0..MaxLog :
        LET proofs == ConsistencyProof(leafHashes(tree), from) IN
        IF from > Len(tree) THEN proofs = {}
        ELSE \E proof \in proofs :
                /\ proofs = {proof}
                /\ HashAnswer(stored[w], from, NewCheckpoint(tree), proof)
                       = Abstract!AnswerFrom(held[w], from, tree)

\* A verifier that has a log and a cosigned checkpoint gets exactly the entries
\* that were cosigned, or an error if the log does not start with them.
CheckpointedIsCosigned ==
    \A w \in Witnesses :
        Checkpointed(tree, stored[w]) = {log \in {held[w]} : IsPrefix(log, tree)}
=============================================================================
